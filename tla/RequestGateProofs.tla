-------------------------- MODULE RequestGateProofs --------------------------
(* What TLAPS proves of RequestGate, for any workers, users and mixes of    *)
(* requests: the roles of rows, what explains a 500, and that the throttle  *)
(* admits and refuses no more than it says.                                 *)
EXTENDS RequestGate, FiniteSetTheorems, FunctionTheorems, SequenceTheorems, WellFoundedInduction, TLAPS

(* What the steps before a handler need, worker by worker. *)
WorkersInv ==
    /\ mix \subseteq Request
    /\ pc \in [Workers -> Steps] /\ req \in [Workers -> mix \cup {Nobody}]
    /\ met \in [Workers -> SUBSET Marks]

DataInv ==
    /\ accounts \subseteq Users /\ owners \subseteq Users /\ enrolled \subseteq Users \X Users
    /\ drifted \subseteq Users /\ leaving \subseteq Users
    /\ clock \in Time /\ up \subseteq Services /\ outages \in 0..MaxOutages
    /\ at \in [Workers -> Time] /\ forgotAt \in Time \cup {-Duration}

LEMMA Types == TypeOK <=> WorkersInv /\ DataInv
BY DEF TypeOK, WorkersInv, DataInv

LEMMA Assembled ==
    ASSUME WorkersInv', DataInv', PassedInv', RolesStaySeparate'
    PROVE  RolesInv'
BY DEF RolesInv, TypeOK, WorkersInv, DataInv

(* No request is past Permit and no row exists at first. *)
LEMMA RolesInit == Init => RolesInv
<1> SUFFICES ASSUME Init PROVE RolesInv
  OBVIOUS
<1>1. WorkersInv /\ PassedInv
  BY MixesAssumption DEF Init, WorkersInv, PassedInv, Steps
<1>2. DataInv /\ RolesStaySeparate
  BY RateAssumption, BoundsAssumption DEF Init, DataInv, RolesStaySeparate, Time
<1> QED BY <1>1, <1>2, Types DEF RolesInv

(* The cascade leaves no row of the user behind, as owner or as seeker. *)
LEMMA CascadeTakesAll ==
    ASSUME RolesStaySeparate, NEW u, Cascade(u)
    PROVE  /\ owners' \subseteq Facilitators \cap (accounts \ {u})
           /\ enrolled' \subseteq (Seekers \cap (accounts \ {u})) \X owners'
<1>1. owners' \subseteq Facilitators \cap (accounts \ {u})
  BY DEF RolesStaySeparate, Cascade
<1>2. ASSUME NEW p \in enrolled'
      PROVE  p \in (Seekers \cap (accounts \ {u})) \X owners'
  <2>1. p \in enrolled /\ u \notin Range(p)
    BY <1>2 DEF Cascade
  <2>2. PICK s \in Seekers \cap accounts, o \in owners : p = <<s, o>>
    BY <2>1 DEF RolesStaySeparate
  <2>3. DOMAIN p = 1..2 /\ p[1] = s /\ p[2] = o
    BY <2>2
  <2>4. s \in Range(p) /\ o \in Range(p)
    BY <2>3 DEF Range
  <2>5. s # u /\ o # u
    BY <2>1, <2>4
  <2> QED BY <2>2, <2>5 DEF Cascade
<1> QED BY <1>1, <1>2

LEMMA CascadeTypes ==
    ASSUME owners \subseteq Users, enrolled \subseteq Users \X Users, NEW u, Cascade(u)
    PROVE  owners' \subseteq Users /\ enrolled' \subseteq Users \X Users
BY DEF Cascade

(* Ending a request, or moving one that has passed on, keeps PassedInv. *)
LEMMA AnswerKeeps ==
    ASSUME WorkersInv, PassedInv, UNCHANGED mix,
           NEW w \in Workers, NEW status, Answer(w, status)
    PROVE  WorkersInv' /\ PassedInv'
BY DEF WorkersInv, PassedInv, Answer, Steps

LEMMA GotoKeeps ==
    ASSUME WorkersInv, PassedInv, UNCHANGED mix,
           NEW w \in Workers, NEW l \in Steps \ {"serve"}, Goto(w, l),
           pc[w] \notin {"idle", "permit"}
    PROVE  WorkersInv' /\ PassedInv'
BY DEF WorkersInv, PassedInv, Goto, Steps

(* So does entering a handler, which for a PATCH or DELETE is the owner's. *)
LEMMA EnterKeeps ==
    ASSUME WorkersInv, PassedInv, UNCHANGED mix,
           NEW w \in Workers, Enter(w), pc[w] = "find",
           req[w].path \in {"edit", "destroy"} => req[w].about = req[w].token
    PROVE  WorkersInv' /\ PassedInv'
<1> DEFINE r == req[w]
<1>1. {req[x].path : x \in Beside(r)} \subseteq Marks
  BY DEF Beside, Handlers, Marks
<1>2. SeatsSeen(r) \subseteq Marks
  BY DEF SeatsSeen, Marks
<1>3. ASSUME NEW v \in Beside(r) PROVE r.path \in Marks
  BY <1>3 DEF Beside, Marks
<1>4. met' \in [Workers -> SUBSET Marks]
  BY <1>1, <1>2, <1>3 DEF Enter, WorkersInv
<1> QED BY <1>4 DEF WorkersInv, PassedInv, Enter, Steps

(* Permit lets a request pass only for its role. *)
LEMMA PermitKeeps ==
    ASSUME WorkersInv, PassedInv, UNCHANGED mix, NEW w \in Workers, Permit(w)
    PROVE  WorkersInv' /\ PassedInv'
<1> DEFINE r == req[w]
<1>1. CASE \E status : Answer(w, status)
  BY <1>1, AnswerKeeps
<1>2. ASSUME NEW l \in {"get", "find"}, Goto(w, l),
             r.path \in Managing => r.token \in Facilitators,
             r.path \in Attending => r.token \in Seekers
      PROVE  WorkersInv' /\ PassedInv'
  <2>1. pc[w] = "permit"
    BY DEF Permit
  <2> QED BY <1>2, <2>1 DEF WorkersInv, PassedInv, Goto, Steps
<1>3. CASE r.path \in Open
  <2>1. Goto(w, "get") \/ Goto(w, "find")
    BY <1>3 DEF Permit
  <2>2. r.path \notin Managing \cup Attending
    BY <1>3 DEF Open, Throttled, Managing, Attending
  <2> QED BY <1>2, <2>1, <2>2
<1>4. CASE r.path \notin Open /\ r.token # Nobody /\ Permits(r.path, r.token)
  <2>1. Goto(w, "find")
    BY <1>4 DEF Permit
  <2>2. /\ r.path \in Managing => r.token \in Facilitators
        /\ r.path \in Attending => r.token \in Seekers
    BY <1>4 DEF Permits, IsFacilitator, IsSeeker
  <2> QED BY <1>2, <2>1, <2>2
<1>5. CASE r.path \notin Open /\ (r.token = Nobody \/ ~Permits(r.path, r.token))
  <2>1. Answer(w, 401) \/ Answer(w, 403)
    BY <1>5 DEF Permit
  <2> QED BY <1>1, <2>1
<1> QED BY <1>3, <1>4, <1>5

(* A step that leaves the rows and the accounts alone keeps their part. *)
LEMMA RowsKept ==
    ASSUME RolesStaySeparate, UNCHANGED dbVars
    PROVE  RolesStaySeparate'
BY DEF RolesStaySeparate, dbVars

(* Finding the row refuses or enters the handler. *)
LEMMA FindMoves ==
    ASSUME NEW w \in Workers, Find(w)
    PROVE  /\ pc[w] = "find"
           /\ \/ \E status : Answer(w, status)
              \/ /\ Enter(w) /\ Found(req[w])
                 /\ req[w].path \in {"edit", "destroy"} => req[w].about = req[w].token
BY DEF Find, IsEventOwner

(* How a handler other than a successful DELETE moves on: it answers, or    *)
(* goes to send a code to an account that is there; nothing is deleted.     *)
Moves(w) ==
    /\ \/ \E status : Answer(w, status)
       \/ Goto(w, "mail") /\ req[w].path \in Mailing /\ req[w].about \in accounts'
    /\ accounts \subseteq accounts' /\ owners \subseteq owners'
    /\ UNCHANGED <<leaving, cacheVars, clock, seen, at>>

LEMMA HandlersMove ==
    ASSUME NEW w \in Workers, Handle(w) /\ ~Destroy(w)
    PROVE  Moves(w) /\ pc[w] \in {"serve", "mail"}
<1>1. CASE Login(w) \/ Verify(w) \/ Create(w) \/ Edit(w) \/ Enroll(w) \/ Cancel(w) \/ Mail(w)
  BY <1>1 DEF Login, Verify, Create, Edit, Enroll, Cancel, Mail, Serving, Apart, Moves, dbVars
<1>2. CASE Signup(w)
  <2>1. \/ (\E status : Answer(w, status)) /\ UNCHANGED accounts
        \/ accounts' = accounts \cup {req[w].about} /\ Goto(w, "mail")
    BY <1>2 DEF Signup
  <2>2. pc[w] = "serve" /\ req[w].path \in Mailing /\ UNCHANGED <<owners, leaving, Apart>>
    BY <1>2 DEF Signup, Serving, Mailing
  <2> QED BY <2>1, <2>2 DEF Moves, Apart
<1>3. CASE Resend(w)
  <2>1. (\E status : Answer(w, status)) \/ (Goto(w, "mail") /\ req[w].about \in accounts)
    BY <1>3 DEF Resend
  <2>2. pc[w] = "serve" /\ req[w].path \in Mailing /\ UNCHANGED <<dbVars, Apart>>
    BY <1>3 DEF Resend, Serving, Mailing
  <2> QED BY <2>1, <2>2 DEF Moves, Apart, dbVars
<1> QED BY <1>1, <1>2, <1>3 DEF Handle

(* A DELETE that is answered 204 takes the event and marks its handlers. *)
Destroys(w) ==
    /\ pc[w] = "serve" /\ req[w].path = "destroy"
    /\ Cascade(req[w].about) /\ drifted' = drifted \ {req[w].about}
    /\ pc' = [pc EXCEPT ![w] = "idle"] /\ answer' = 204
    /\ req' = [req EXCEPT ![w] = Nobody]
    /\ met' = [Meeting(Handlers(req[w].about), "deletion") EXCEPT ![w] = {}]
    /\ UNCHANGED <<accounts, leaving, cacheVars, clock, seen, at>>

(* One that fails leaves everything as it was. *)
FailsToDestroy(w) ==
    /\ pc[w] = "serve" /\ req[w].path = "destroy"
    /\ met[w] \cap {"enroll", "cancel", "deletion"} # {}
    /\ Answer(w, 500) /\ UNCHANGED <<dbVars, cacheVars, clock, seen, at>>

LEMMA DestroyIs ==
    ASSUME NEW w \in Workers, Destroy(w)
    PROVE  Destroys(w) \/ FailsToDestroy(w)
BY DEF Destroy, Destroys, FailsToDestroy, Serving, Apart, dbVars

LEMMA FailedDestroyMoves ==
    ASSUME NEW w \in Workers, FailsToDestroy(w)
    PROVE  Moves(w) /\ pc[w] = "serve" /\ UNCHANGED dbVars
BY DEF FailsToDestroy, Moves, dbVars

(* What a handler that moves on keeps of the workers. *)
LEMMA MovesKeeps ==
    ASSUME WorkersInv, PassedInv, UNCHANGED mix, NEW w \in Workers, Moves(w),
           pc[w] \in {"serve", "mail"}
    PROVE  WorkersInv' /\ PassedInv'
BY AnswerKeeps, GotoKeeps DEF Moves, Steps

(* The rows a handler writes are of a user its request was passed for. *)
LEMMA HandleKeeps ==
    ASSUME RolesInv, UNCHANGED mix, NEW w \in Workers, Handle(w), ~Destroy(w)
    PROVE  RolesInv'
<1> DEFINE u == req[w].token  a == req[w].about
<1>1. WorkersInv /\ DataInv /\ PassedInv /\ RolesStaySeparate
  BY Types DEF RolesInv
<1>2. Moves(w) /\ WorkersInv' /\ PassedInv'
  BY <1>1, HandlersMove, MovesKeeps
<1>3. clock' = clock /\ up' = up /\ outages' = outages /\ at' = at /\ forgotAt' = forgotAt
  BY <1>2 DEF Moves, cacheVars
<1>4. pc[w] # "idle" => u \in Users \cup {Nobody} /\ a \in Users
  BY <1>1 DEF WorkersInv, PassedInv, Request
<1>5. ASSUME UNCHANGED dbVars PROVE RolesInv'
  BY <1>1, <1>2, <1>3, <1>5, RowsKept, Assembled DEF DataInv, dbVars
<1>6. CASE Login(w) \/ Verify(w) \/ Resend(w) \/ Mail(w)
  BY <1>5, <1>6 DEF Login, Verify, Resend, Mail
<1>7. CASE Signup(w)
  <2>1. accounts' = accounts \/ accounts' = accounts \cup {a}
    BY <1>7 DEF Signup
  <2>2. UNCHANGED <<owners, enrolled, drifted, leaving>> /\ pc[w] = "serve"
    BY <1>7 DEF Signup, Serving
  <2>3. RolesStaySeparate' /\ DataInv'
    BY <1>1, <1>3, <1>4, <2>1, <2>2 DEF RolesStaySeparate, DataInv
  <2> QED BY <1>2, <2>3, Assembled
<1>8. CASE Create(w)
  <2>1. u \in Facilitators
    BY <1>1, <1>8 DEF PassedInv, Create, Serving, Managing
  <2>2. owners' = owners \cup (accounts \cap {u}) /\ UNCHANGED <<accounts, enrolled, drifted, leaving>>
    BY <1>8 DEF Create
  <2>3. RolesStaySeparate' /\ DataInv'
    BY <1>1, <1>3, <2>1, <2>2 DEF RolesStaySeparate, DataInv
  <2> QED BY <1>2, <2>3, Assembled
<1>9. CASE Edit(w)
  <2>1. a \in Facilitators
    BY <1>1, <1>9 DEF PassedInv, Edit, Serving, Managing
  <2>2. /\ \/ a \in accounts /\ owners' = owners \cup {a} /\ drifted' \subseteq drifted \cup {a}
           \/ UNCHANGED <<owners, drifted>>
        /\ UNCHANGED <<accounts, enrolled, leaving>>
    BY <1>9 DEF Edit
  <2>3. RolesStaySeparate' /\ DataInv'
    BY <1>1, <1>3, <2>1, <2>2 DEF RolesStaySeparate, DataInv, Users
  <2> QED BY <1>2, <2>3, Assembled
<1>10. CASE Enroll(w)
  <2>1. u \in Seekers
    BY <1>1, <1>10 DEF PassedInv, Enroll, Serving, Attending
  <2>2. /\ \/ a \in owners /\ u \in accounts /\ enrolled' = enrolled \cup {<<u, a>>}
           \/ UNCHANGED enrolled
        /\ UNCHANGED <<accounts, owners, drifted, leaving>>
    BY <1>10 DEF Enroll
  <2>3. RolesStaySeparate' /\ DataInv'
    BY <1>1, <1>3, <2>1, <2>2 DEF RolesStaySeparate, DataInv, Users
  <2> QED BY <1>2, <2>3, Assembled
<1>11. CASE Cancel(w)
  <2>1. enrolled' \subseteq enrolled /\ UNCHANGED <<accounts, owners, drifted, leaving>>
    BY <1>11 DEF Cancel
  <2>2. RolesStaySeparate' /\ DataInv'
    BY <1>1, <1>3, <2>1 DEF RolesStaySeparate, DataInv
  <2> QED BY <1>2, <2>2, Assembled
<1> QED BY <1>6, <1>7, <1>8, <1>9, <1>10, <1>11 DEF Handle

LEMMA DestroyKeeps ==
    ASSUME RolesInv, UNCHANGED mix, NEW w \in Workers, Destroy(w)
    PROVE  RolesInv'
<1>1. WorkersInv /\ DataInv /\ PassedInv /\ RolesStaySeparate
  BY Types DEF RolesInv
<1>2. CASE Destroys(w)
  <2>1. RolesStaySeparate'
    BY <1>1, <1>2, CascadeTakesAll DEF RolesStaySeparate, Destroys
  <2>2. owners' \subseteq Users /\ enrolled' \subseteq Users \X Users
    BY <1>1, <1>2, CascadeTypes DEF DataInv, Destroys
  <2>3. DataInv'
    BY <1>1, <1>2, <2>2 DEF DataInv, Destroys, cacheVars
  <2>4. met' \in [Workers -> SUBSET Marks]
    BY <1>1, <1>2 DEF WorkersInv, Destroys, Meeting, Marks
  <2>5. WorkersInv' /\ PassedInv'
    BY <1>1, <1>2, <2>4 DEF WorkersInv, PassedInv, Destroys, Steps
  <2> QED BY <2>1, <2>3, <2>5, Assembled
<1>3. CASE FailsToDestroy(w)
  <2>1. Moves(w) /\ pc[w] = "serve" /\ UNCHANGED dbVars
    BY <1>3, FailedDestroyMoves
  <2>2. WorkersInv' /\ PassedInv'
    BY <1>1, <2>1, MovesKeeps
  <2>3. DataInv'
    BY <1>1, <2>1 DEF DataInv, dbVars, Moves, cacheVars
  <2> QED BY <1>1, <2>1, <2>2, <2>3, RowsKept, Assembled
<1> QED BY <1>2, <1>3, DestroyIs

(* Every step keeps the invariant: steps of a worker before it serves leave *)
(* the rows alone, deletions take what hangs on them.                       *)
LEMMA RolesStep == RolesInv /\ [Next /\ UNCHANGED mix]_vars => RolesInv'
<1> SUFFICES ASSUME RolesInv, [Next /\ UNCHANGED mix]_vars
             PROVE  RolesInv'
  OBVIOUS
<1>a. WorkersInv /\ DataInv /\ PassedInv /\ RolesStaySeparate
  BY Types DEF RolesInv
<1>1. CASE UNCHANGED vars
  BY <1>1 DEF vars, dbVars, cacheVars, RolesInv, TypeOK, PassedInv, RolesStaySeparate
<1>2. ASSUME NEW w \in Workers, Authenticate(w), UNCHANGED mix
      PROVE  RolesInv'
  <2>1. WorkersInv' /\ PassedInv'
    <3>1. \A r : Arrival(r) \subseteq Marks
      BY DEF Arrival, Marks
    <3> QED BY <1>a, <1>2, <3>1 DEF Authenticate, WorkersInv, PassedInv, Steps
  <2>2. DataInv'
    BY <1>a, <1>2 DEF Authenticate, DataInv, dbVars, cacheVars
  <2> QED BY <1>a, <1>2, <2>1, <2>2, RowsKept, Assembled DEF Authenticate
<1>3. ASSUME NEW w \in Workers, Permit(w), UNCHANGED mix
      PROVE  RolesInv'
  <2>1. UNCHANGED dbVars /\ DataInv'
    BY <1>a, <1>3 DEF Permit, DataInv, dbVars, cacheVars
  <2> QED BY <1>a, <1>3, <2>1, PermitKeeps, RowsKept, Assembled
<1>4. ASSUME NEW w \in Workers, ThrottleGet(w), UNCHANGED mix
      PROVE  RolesInv'
  <2>1. (\E status : Answer(w, status)) \/ Goto(w, "set")
    BY <1>4 DEF ThrottleGet
  <2>2. UNCHANGED dbVars /\ pc[w] = "get" /\ DataInv'
    BY <1>a, <1>4 DEF ThrottleGet, DataInv, dbVars, cacheVars
  <2>3. WorkersInv' /\ PassedInv'
    BY <1>a, <1>4, <2>1, <2>2, AnswerKeeps, GotoKeeps DEF Steps
  <2> QED BY <1>a, <2>2, <2>3, RowsKept, Assembled
<1>5. ASSUME NEW w \in Workers, ThrottleSet(w), UNCHANGED mix
      PROVE  RolesInv'
  <2>1. (\E status : Answer(w, status)) \/ Goto(w, "find")
    BY <1>5 DEF ThrottleSet
  <2>2. UNCHANGED dbVars /\ pc[w] = "set"
    BY <1>5 DEF ThrottleSet
  <2>3. DataInv'
    <3>1. forgotAt' \in Time \cup {-Duration}
      BY <1>a, <1>5 DEF ThrottleSet, DataInv
    <3>2. at' \in [Workers -> Time]
      BY <1>a, <1>5, BoundsAssumption DEF ThrottleSet, DataInv, Time
    <3> QED BY <1>a, <1>5, <2>2, <3>1, <3>2 DEF ThrottleSet, DataInv, dbVars
  <2>4. WorkersInv' /\ PassedInv'
    BY <1>a, <1>5, <2>1, <2>2, AnswerKeeps, GotoKeeps DEF Steps
  <2> QED BY <1>a, <2>2, <2>3, <2>4, RowsKept, Assembled
<1>6. ASSUME NEW w \in Workers, Find(w), UNCHANGED mix
      PROVE  RolesInv'
  <2>1. UNCHANGED dbVars /\ DataInv'
    BY <1>a, <1>6 DEF Find, DataInv, dbVars, cacheVars
  <2>2. WorkersInv' /\ PassedInv'
    BY <1>a, <1>6, FindMoves, AnswerKeeps, EnterKeeps
  <2> QED BY <1>a, <2>1, <2>2, RowsKept, Assembled
<1>7. ASSUME NEW u \in Users, BeginDeletion(u), UNCHANGED mix
      PROVE  RolesInv'
  <2>1. met' \in [Workers -> SUBSET Marks]
    BY <1>a, <1>7 DEF BeginDeletion, WorkersInv, Meeting, Marks
  <2>2. WorkersInv' /\ PassedInv'
    BY <1>a, <1>7, <2>1 DEF BeginDeletion, WorkersInv, PassedInv
  <2>3. RolesStaySeparate' /\ DataInv'
    BY <1>a, <1>7 DEF BeginDeletion, RolesStaySeparate, DataInv, Apart, cacheVars
  <2> QED BY <2>2, <2>3, Assembled
<1>8. ASSUME NEW u \in Users, DeleteAccount(u), UNCHANGED mix
      PROVE  RolesInv'
  <2>1. /\ Cascade(u) /\ accounts' = accounts \ {u} /\ leaving' = leaving \ {u}
        /\ UNCHANGED <<cacheVars, clock, pc, req, met, at>>
        /\ drifted' \subseteq drifted \cup owners
    BY <1>8 DEF DeleteAccount, Apart
  <2>2. RolesStaySeparate'
    BY <1>a, <2>1, CascadeTakesAll DEF RolesStaySeparate
  <2>3. DataInv'
    <3>1. owners' \subseteq Users /\ enrolled' \subseteq Users \X Users
      BY <1>a, <2>1, CascadeTypes DEF DataInv
    <3> QED BY <1>a, <2>1, <3>1 DEF DataInv, cacheVars
  <2>4. WorkersInv' /\ PassedInv'
    BY <1>a, <1>8, <2>1 DEF WorkersInv, PassedInv
  <2> QED BY <2>2, <2>3, <2>4, Assembled
<1>9. ASSUME NEW s \in Services, Stops(s), UNCHANGED mix
      PROVE  RolesInv'
  <2>1. UNCHANGED <<dbVars, clock, forgotAt, pc, req, at>> /\ up' \subseteq up
        /\ outages < MaxOutages /\ outages' = outages + 1
        /\ met' = Meeting({w \in Workers : pc[w] # "idle"}, s)
    BY <1>9 DEF Stops
  <2>2. met' \in [Workers -> SUBSET Marks]
    BY <1>a, <2>1 DEF WorkersInv, Meeting, Marks
  <2>3. WorkersInv' /\ PassedInv'
    BY <1>a, <1>9, <2>1, <2>2 DEF WorkersInv, PassedInv
  <2>4. outages' \in 0..MaxOutages
    BY <1>a, <2>1, BoundsAssumption DEF DataInv
  <2>5. DataInv'
    BY <1>a, <2>1, <2>4 DEF DataInv, dbVars
  <2> QED BY <1>a, <2>1, <2>3, <2>5, RowsKept, Assembled
<1>10. ASSUME NEW s \in Services, Starts(s), UNCHANGED mix
       PROVE  RolesInv'
  <2>1. UNCHANGED <<dbVars, clock, outages, pc, req, at, met>> /\ up' = up \cup {s}
        /\ forgotAt' \in {forgotAt, clock}
    BY <1>10 DEF Starts
  <2>2. WorkersInv' /\ PassedInv'
    BY <1>a, <1>10, <2>1 DEF WorkersInv, PassedInv
  <2>3. DataInv'
    BY <1>a, <2>1 DEF DataInv, dbVars
  <2> QED BY <1>a, <2>1, <2>2, <2>3, RowsKept, Assembled
<1>11. CASE Tick /\ UNCHANGED mix
  <2>1. UNCHANGED <<dbVars, cacheVars, pc, req, at, met>> /\ clock < MaxTime /\ clock' = clock + 1
    BY <1>11 DEF Tick
  <2>2. WorkersInv' /\ PassedInv'
    BY <1>a, <1>11, <2>1 DEF WorkersInv, PassedInv
  <2>3. clock' \in Time
    BY <1>a, <2>1, BoundsAssumption DEF DataInv, Time
  <2>4. DataInv'
    BY <1>a, <2>1, <2>3 DEF DataInv, dbVars, cacheVars
  <2> QED BY <1>a, <2>1, <2>2, <2>4, RowsKept, Assembled
<1> QED
  BY <1>1, <1>2, <1>3, <1>4, <1>5, <1>6, <1>7, <1>8, <1>9, <1>10, <1>11, HandleKeeps, DestroyKeeps
  DEF Next

(* In every reachable state the types are right, only facilitators own      *)
(* events and only seekers hold enrollments, and both exist, whatever is    *)
(* deleted under a request that has passed its permission test.             *)
THEOREM RowsKeepTheirRoles == Spec => []RolesInv
BY RolesInit, RolesStep, PTL DEF Spec

-----------------------------------------------------------------------------
(* What explains a bare 500 is known of a request long before it is         *)
(* answered: if a service is down, if the deletion of an account it needs   *)
(* has begun, if its own account is gone, or if what its handler found is   *)
(* there no more, it has met with what did it.                              *)
MetInvOf(w) ==
    LET r == req[w]
    IN /\ pc[w] \in {"get", "set"} => r.path \in Throttled
       /\ pc[w] = "mail" => r.path \in Mailing
       /\ pc[w] # "idle" => Services \ up \subseteq met[w]
       /\ pc[w] # "idle" /\ Needs(r) \cap leaving # {} => "deletion" \in met[w]
       /\ pc[w] # "idle" /\ r.token \in Users \ accounts => "deletion" \in met[w]
       /\ pc[w] = "serve" /\ r.path # "signup" /\ ~Found(r) => "deletion" \in met[w]
       /\ pc[w] = "mail" /\ r.about \notin accounts => "deletion" \in met[w]

MetInv == \A w \in Workers : MetInvOf(w)

(* Nothing is deleted and no service stops. *)
Grows ==
    /\ accounts \subseteq accounts' /\ owners \subseteq owners'
    /\ leaving' = leaving /\ up \subseteq up'

(* What is found stays found, but for the address of a signup. *)
LEMMA FoundStays ==
    ASSUME NEW r, r.path # "signup", Found(r), Grows
    PROVE  Found(r)'
BY DEF Found, Grows

(* A request that stays where it is keeps its part while nothing goes. *)
LEMMA MetStays ==
    ASSUME NEW w \in Workers, MetInvOf(w),
           pc'[w] = pc[w], req'[w] = req[w], met[w] \subseteq met'[w], Grows
    PROVE  MetInvOf(w)'
<1>1. req[w].path # "signup" /\ Found(req[w]) => Found(req[w])'
  BY FoundStays
<1>2. Needs(req[w])' = Needs(req[w])
  BY DEF Needs
<1> QED BY <1>1, <1>2 DEF MetInvOf, Grows

LEMMA MetAnswer ==
    ASSUME WorkersInv, MetInv, NEW v \in Workers, NEW status, Answer(v, status), Grows
    PROVE  MetInv'
<1> SUFFICES ASSUME NEW w \in Workers PROVE MetInvOf(w)'
  BY DEF MetInv
<1>1. CASE w = v
  BY <1>1 DEF WorkersInv, Answer, MetInvOf
<1>2. CASE w # v
  <2>1. pc'[w] = pc[w] /\ req'[w] = req[w] /\ met'[w] = met[w]
    BY <1>2 DEF WorkersInv, Answer
  <2> QED BY <2>1, MetStays DEF MetInv
<1> QED BY <1>1, <1>2

LEMMA MetGoto ==
    ASSUME WorkersInv, MetInv, NEW v \in Workers, NEW l, Goto(v, l), pc[v] # "idle", Grows,
           l # "serve", l \in {"get", "set"} => req[v].path \in Throttled,
           l = "mail" => req[v].path \in Mailing /\ req[v].about \in accounts'
    PROVE  MetInv'
<1> SUFFICES ASSUME NEW w \in Workers PROVE MetInvOf(w)'
  BY DEF MetInv
<1>1. req' = req /\ met' = met
  BY DEF Goto
<1>2. CASE w = v
  <2>1. pc'[w] = l
    BY <1>2 DEF WorkersInv, Goto
  <2>2. Needs(req[w])' = Needs(req[w])
    BY <1>1 DEF Needs
  <2> QED BY <1>1, <1>2, <2>1, <2>2 DEF MetInv, MetInvOf, Grows
<1>3. CASE w # v
  <2>1. pc'[w] = pc[w]
    BY <1>3 DEF WorkersInv, Goto
  <2> QED BY <1>1, <2>1, MetStays DEF MetInv
<1> QED BY <1>2, <1>3

LEMMA MetEnter ==
    ASSUME WorkersInv, MetInv, NEW v \in Workers, Enter(v), Found(req[v]), pc[v] = "find",
           UNCHANGED <<dbVars, up>>
    PROVE  MetInv'
<1> SUFFICES ASSUME NEW w \in Workers PROVE MetInvOf(w)'
  BY DEF MetInv
<1>1. Grows /\ req' = req /\ met[w] \subseteq met'[w]
  BY DEF Enter, Grows, dbVars, WorkersInv
<1>2. CASE w = v
  <2>1. pc'[w] = "serve"
    BY <1>2 DEF WorkersInv, Enter
  <2>2. Needs(req[w])' = Needs(req[w])
    BY <1>1 DEF Needs
  <2>3. req[w].path # "signup" => Found(req[w])'
    BY <1>1, <1>2, FoundStays
  <2> QED BY <1>1, <1>2, <2>1, <2>2, <2>3 DEF MetInv, MetInvOf, Grows
<1>3. CASE w # v
  <2>1. pc'[w] = pc[w]
    BY <1>3 DEF WorkersInv, Enter
  <2> QED BY <1>1, <2>1, MetStays DEF MetInv
<1> QED BY <1>2, <1>3

LEMMA MetMoves ==
    ASSUME WorkersInv, MetInv, NEW v \in Workers, Moves(v), pc[v] \in {"serve", "mail"}
    PROVE  MetInv'
<1>1. Grows
  BY DEF Moves, Grows, cacheVars
<1> QED BY <1>1, MetAnswer, MetGoto DEF Moves

(* A DELETE is met by the handlers of its event; what the others have found *)
(* is not its event.                                                        *)
LEMMA MetDestroy ==
    ASSUME WorkersInv, MetInv, NEW v \in Workers, Destroys(v)
    PROVE  MetInv'
<1> SUFFICES ASSUME NEW w \in Workers PROVE MetInvOf(w)'
  BY DEF MetInv
<1> DEFINE a == req[v].about
<1>1. UNCHANGED <<accounts, leaving, up>> /\ owners' = owners \ {a}
  BY DEF Destroys, Cascade, cacheVars
<1>2. CASE w = v
  BY <1>2 DEF WorkersInv, MetInvOf, Destroys
<1>3. CASE w # v
  <2>1. /\ pc'[w] = pc[w] /\ req'[w] = req[w]
        /\ met'[w] = IF w \in Handlers(a) THEN met[w] \cup {"deletion"} ELSE met[w]
    BY <1>3 DEF WorkersInv, Destroys, Meeting
  <2>2. pc[w] = "serve" /\ w \notin Handlers(a) /\ Found(req[w]) => Found(req[w])'
    BY <1>1, <2>1 DEF Handlers, Found
  <2>3. Needs(req[w])' = Needs(req[w])
    BY <2>1 DEF Needs
  <2> QED BY <1>1, <2>1, <2>2, <2>3 DEF MetInv, MetInvOf
<1> QED BY <1>2, <1>3

(* By the time an account is gone, whoever needs it has met its deletion. *)
LEMMA MetDelete ==
    ASSUME WorkersInv, PassedInv, MetInv, NEW u \in Users, DeleteAccount(u)
    PROVE  MetInv'
<1> SUFFICES ASSUME NEW w \in Workers PROVE MetInvOf(w)'
  BY DEF MetInv
<1>1. /\ u \in leaving /\ leaving' = leaving \ {u} /\ accounts' = accounts \ {u}
      /\ owners' = owners \ {u} /\ UNCHANGED <<up, pc, req, met>>
  BY DEF DeleteAccount, Cascade, Apart, cacheVars
<1>2. pc[w] # "idle" /\ u \in Needs(req[w]) => "deletion" \in met[w]
  BY <1>1 DEF MetInv, MetInvOf
<1>3. u \notin Needs(req[w]) /\ pc[w] # "idle" =>
        /\ u # req[w].token /\ u # req[w].about
        /\ req[w].path # "signup" /\ Found(req[w]) => Found(req[w])'
  BY <1>1 DEF Needs, Found
<1>4. Needs(req[w])' = Needs(req[w])
  BY <1>1 DEF Needs
<1> QED BY <1>1, <1>2, <1>3, <1>4 DEF MetInv, MetInvOf

LEMMA MetStep == RolesInv /\ MetInv /\ [Next /\ UNCHANGED mix]_vars => MetInv'
<1> SUFFICES ASSUME RolesInv, MetInv, [Next /\ UNCHANGED mix]_vars
             PROVE  MetInv'
  OBVIOUS
<1>a. WorkersInv /\ PassedInv
  BY Types DEF RolesInv
<1>1. CASE UNCHANGED vars
  BY <1>1 DEF vars, dbVars, cacheVars, MetInv, MetInvOf, Found, Needs
<1>2. ASSUME NEW v \in Workers, Authenticate(v)
      PROVE  MetInv'
  <2> SUFFICES ASSUME NEW w \in Workers PROVE MetInvOf(w)'
    BY DEF MetInv
  <2>1. Grows /\ UNCHANGED <<accounts, leaving, up>>
    BY <1>2 DEF Authenticate, dbVars, cacheVars, Grows
  <2>2. CASE pc'[w] = pc[w] /\ req'[w] = req[w] /\ met'[w] = met[w]
    BY <2>1, <2>2, MetStays DEF MetInv
  <2>3. CASE ~(pc'[w] = pc[w] /\ req'[w] = req[w] /\ met'[w] = met[w])
    <3>1. PICK r \in mix :
            /\ r.token \in accounts \cup {Nobody}
            /\ pc' = [pc EXCEPT ![v] = "permit"] /\ req' = [req EXCEPT ![v] = r]
            /\ met' = [met EXCEPT ![v] = Arrival(r)]
      BY <1>2, <2>3 DEF Authenticate
    <3>2. w = v
      BY <1>a, <2>3, <3>1 DEF WorkersInv
    <3>3. pc'[w] = "permit" /\ req'[w] = r /\ met'[w] = Arrival(r)
      BY <1>a, <3>1, <3>2 DEF WorkersInv
    <3>4. Needs(req[w])' = Needs(r)
      BY <3>3 DEF Needs
    <3>5. r.token \notin Users \ accounts
      BY <3>1, RolesAssumption
    <3>6. Services \ up \subseteq met'[w] /\ (Needs(r) \cap leaving # {} => "deletion" \in met'[w])
      BY <3>3 DEF Arrival
    <3> QED BY <2>1, <3>3, <3>4, <3>5, <3>6 DEF MetInvOf
  <2> QED BY <2>2, <2>3
<1>3. ASSUME NEW v \in Workers, Permit(v)
      PROVE  MetInv'
  <2>1. Grows /\ pc[v] = "permit"
    BY <1>3 DEF Permit, dbVars, cacheVars, Grows
  <2>2. \/ \E status : Answer(v, status)
        \/ Goto(v, "get") /\ req[v].path \in Throttled
        \/ Goto(v, "find")
    <3> DEFINE r == req[v]
    <3>1. CASE r.path \in Open
      BY <1>3, <3>1, Zenon DEF Permit
    <3>2. CASE r.path \notin Open
      BY <1>3, <3>2, Zenon DEF Permit
    <3> QED BY <3>1, <3>2
  <2>3. CASE \E status : Answer(v, status)
    BY <1>a, <2>1, <2>3, MetAnswer
  <2>4. CASE Goto(v, "get") /\ req[v].path \in Throttled
    BY <1>a, <2>1, <2>4, MetGoto
  <2>5. CASE Goto(v, "find")
    BY <1>a, <2>1, <2>5, MetGoto
  <2> QED BY <2>2, <2>3, <2>4, <2>5
<1>4. ASSUME NEW v \in Workers, ThrottleGet(v) \/ ThrottleSet(v)
      PROVE  MetInv'
  <2>1. Grows /\ pc[v] \in {"get", "set"}
    BY <1>4 DEF ThrottleGet, ThrottleSet, Answer, Goto, dbVars, cacheVars, Grows
  <2>2. (\E status : Answer(v, status)) \/ Goto(v, "set") \/ Goto(v, "find")
    BY <1>4 DEF ThrottleGet, ThrottleSet
  <2>3. req[v].path \in Throttled
    BY <2>1 DEF MetInv, MetInvOf
  <2> QED BY <1>a, <2>1, <2>2, <2>3, MetAnswer, MetGoto
<1>5. ASSUME NEW v \in Workers, Find(v)
      PROVE  MetInv'
  <2>1. Grows /\ UNCHANGED <<dbVars, up>>
    BY <1>5 DEF Find, dbVars, cacheVars, Grows
  <2> QED BY <1>a, <1>5, <2>1, FindMoves, MetAnswer, MetEnter
<1>6. ASSUME NEW v \in Workers, Handle(v)
      PROVE  MetInv'
  <2>1. CASE ~Destroy(v)
    BY <1>a, <1>6, <2>1, HandlersMove, MetMoves
  <2>2. CASE Destroys(v)
    BY <1>a, <2>2, MetDestroy
  <2>3. CASE FailsToDestroy(v)
    BY <1>a, <2>3, FailedDestroyMoves, MetMoves
  <2> QED BY <2>1, <2>2, <2>3, DestroyIs
<1>7. ASSUME NEW u \in Users, BeginDeletion(u)
      PROVE  MetInv'
  <2> SUFFICES ASSUME NEW w \in Workers PROVE MetInvOf(w)'
    BY DEF MetInv
  <2>1. /\ leaving' = leaving \cup {u} /\ UNCHANGED <<accounts, owners, up, pc, req>>
        /\ met'[w] = IF w \in Concerned(u) THEN met[w] \cup {"deletion"} ELSE met[w]
    BY <1>7 DEF BeginDeletion, Meeting, Apart, cacheVars
  <2>2. pc[w] # "idle" /\ u \in Needs(req[w]) => "deletion" \in met'[w]
    BY <2>1 DEF Concerned
  <2>3. Needs(req[w])' = Needs(req[w]) /\ (Found(req[w])' <=> Found(req[w]))
    BY <2>1 DEF Needs, Found
  <2> QED BY <2>1, <2>2, <2>3 DEF MetInv, MetInvOf
<1>8. ASSUME NEW u \in Users, DeleteAccount(u)
      PROVE  MetInv'
  BY <1>a, <1>8, MetDelete
<1>9. ASSUME NEW s \in Services, Stops(s)
      PROVE  MetInv'
  <2> SUFFICES ASSUME NEW w \in Workers PROVE MetInvOf(w)'
    BY DEF MetInv
  <2>1. /\ UNCHANGED <<accounts, owners, leaving, pc, req>> /\ up' = up \ {s}
        /\ met'[w] = IF pc[w] # "idle" THEN met[w] \cup {s} ELSE met[w]
    BY <1>9 DEF Stops, Meeting, dbVars
  <2>2. Needs(req[w])' = Needs(req[w]) /\ (Found(req[w])' <=> Found(req[w]))
    BY <2>1 DEF Needs, Found
  <2> QED BY <2>1, <2>2 DEF MetInv, MetInvOf
<1>10. CASE (\E s \in Services : Starts(s)) \/ Tick
  <2>1. Grows /\ UNCHANGED <<pc, req, met>>
    BY <1>10 DEF Starts, Tick, dbVars, cacheVars, Grows
  <2> QED BY <2>1, MetStays DEF MetInv
<1> QED
  BY <1>1, <1>2, <1>3, <1>4, <1>5, <1>6, <1>7, <1>8, <1>9, <1>10 DEF Next

(* A handler that ends in a 500 has met with what explains it. *)
LEMMA HandlerErrors ==
    ASSUME NEW w \in Workers, Handle(w), answer' = 500, MetInvOf(w), WorkersInv, PassedInv
    PROVE  Explained(w)
<1> DEFINE r == req[w]  a == req[w].about
<1>1. r.token \in Users \cup {Nobody} /\ pc[w] # "idle"
  <2>1. pc[w] # "idle"
    BY HandlersMove, DestroyIs DEF Destroys, FailsToDestroy
  <2> QED BY <2>1 DEF WorkersInv, PassedInv, Request
<1>2. r.token \in Users \ accounts => "deletion" \in met[w]
  BY <1>1 DEF MetInvOf
<1>3. ASSUME pc[w] = "serve", r.path \in {"login", "verify", "resend"}, a \notin accounts
      PROVE  "deletion" \in met[w]
  BY <1>3 DEF MetInvOf, Found
<1>4. ASSUME pc[w] = "serve", r.path \in OnEvent, a \notin owners
      PROVE  "deletion" \in met[w]
  BY <1>4 DEF MetInvOf, Found, OnEvent
<1>5. CASE Login(w)
  <2>1. r.path = "login" /\ pc[w] = "serve" /\ ~HasProfile(a)
    BY <1>5 DEF Login, Serving, Answer
  <2> QED BY <1>3, <2>1 DEF Explained, HasProfile, Reads
<1>6. CASE Verify(w)
  <2>1. r.path = "verify" /\ pc[w] = "serve" /\ (~HasProfile(a) \/ "deletion" \in met[w])
    BY <1>6 DEF Verify, Serving, Answer
  <2> QED BY <1>3, <2>1 DEF Explained, HasProfile, Reads
<1>7. CASE Signup(w)
  BY <1>7 DEF Signup, Answer, Goto
<1>8. CASE Resend(w)
  <2>1. r.path = "resend" /\ pc[w] = "serve" /\ a \notin accounts
    BY <1>8 DEF Resend, Serving, Answer, Goto
  <2> QED BY <1>3, <2>1 DEF Explained, Reads
<1>9. CASE Mail(w)
  <2>1. pc[w] = "mail" /\ (a \notin accounts \/ "mail" \notin up)
    BY <1>9 DEF Mail, Answer
  <2>2. r.path \in Mailing /\ ("mail" \in met[w] \/ "deletion" \in met[w])
    BY <2>1 DEF MetInvOf, Services
  <2> QED BY <2>2 DEF Explained, Mailing, Reads
<1>10. CASE Create(w)
  <2>1. r.path = "create" /\ pc[w] = "serve" /\ r.token \notin accounts
    BY <1>10 DEF Create, Serving, Answer
  <2>2. r.token \in Users
    BY <2>1 DEF PassedInv, Managing, Users
  <2> QED BY <1>2, <2>1, <2>2 DEF Explained, Reads
<1>11. CASE Edit(w)
  <2>1. r.path = "edit" /\ pc[w] = "serve" /\ (a \notin accounts \/ "seats" \in met[w])
    BY <1>11 DEF Edit, Serving, Answer
  <2>2. r.token \in Users /\ a = r.token
    BY <2>1 DEF PassedInv, Managing, Users
  <2> QED BY <1>2, <2>1, <2>2 DEF Explained, Reads
<1>12. CASE Enroll(w)
  <2>1. r.path = "enroll" /\ pc[w] = "serve" /\ (a \notin owners \/ r.token \notin accounts)
    BY <1>12 DEF Enroll, Serving, Answer
  <2>2. r.token \in Users
    BY <2>1 DEF PassedInv, Attending, Users
  <2> QED BY <1>2, <1>4, <2>1, <2>2 DEF Explained, Reads, OnEvent
<1>13. CASE Cancel(w)
  <2>1. /\ r.path = "cancel" /\ pc[w] = "serve"
        /\ a \notin owners \/ a \in drifted \/ met[w] \cap {"destroy", "deletion"} # {}
    BY <1>13 DEF Cancel, Serving, Answer
  <2> QED BY <1>4, <2>1 DEF Explained, Reads, OnEvent
<1>14. CASE Destroy(w)
  <2>1. FailsToDestroy(w)
    BY <1>14, DestroyIs DEF Destroys
  <2> QED BY <2>1 DEF FailsToDestroy, Explained, Reads
<1> QED
  BY <1>5, <1>6, <1>7, <1>8, <1>9, <1>10, <1>11, <1>12, <1>13, <1>14 DEF Handle

(* The steps of a worker move only it. *)
Works(v) ==
    Authenticate(v) \/ Permit(v) \/ ThrottleGet(v) \/ ThrottleSet(v) \/ Find(v) \/ Handle(v)

LEMMA OnlyItMoves ==
    ASSUME NEW v \in Workers, Works(v)
    PROVE  pc' = pc \/ \E l : pc' = [pc EXCEPT ![v] = l]
<1>1. CASE Handle(v)
  BY <1>1, HandlersMove, DestroyIs DEF Moves, Destroys, FailsToDestroy, Answer, Goto
<1>2. CASE ~Handle(v)
  BY <1>2
  DEF Works, Authenticate, Permit, ThrottleGet, ThrottleSet, Find, Enter, Answer, Goto
<1> QED BY <1>1, <1>2

(* What a request that ends in a 500 has met with. *)
LEMMA BareErrorMet ==
    ASSUME RolesInv, MetInv, Next, NEW w \in Workers,
           pc[w] # "idle", pc'[w] = "idle", answer' = 500
    PROVE  Explained(w)
<1>a. WorkersInv /\ PassedInv /\ MetInvOf(w)
  BY Types DEF RolesInv, MetInv
<1>b. req[w] \in Request
  BY <1>a DEF WorkersInv, PassedInv
<1>1. PICK v \in Workers : Works(v)
  BY DEF Next, Works, BeginDeletion, DeleteAccount, Stops, Starts, Tick
<1>2. v = w
  BY <1>a, <1>1, OnlyItMoves DEF WorkersInv
<1>3. CASE ThrottleGet(w) \/ ThrottleSet(w)
  <2>1. "redis" \notin up /\ pc[w] \in {"get", "set"}
    BY <1>3 DEF ThrottleGet, ThrottleSet, Answer, Goto
  <2>2. req[w].path \in Throttled /\ "redis" \in met[w]
    BY <1>a, <2>1 DEF MetInvOf, Services
  <2> QED BY <2>2 DEF Explained
<1>4. CASE Handle(w)
  BY <1>4, <1>a, HandlerErrors
<1>5. CASE Authenticate(w) \/ Permit(w)
  BY <1>5 DEF Authenticate, Permit, Answer, Goto
<1>6. CASE Find(w)
  <2>1. req[w].path \in DOMAIN Missing => Missing[req[w].path] # 500
    BY DEF Missing
  <2>2. ~Found(req[w]) => req[w].path \in DOMAIN Missing
    BY DEF Found, Missing, OnEvent
  <2> QED BY <1>6, <2>1, <2>2 DEF Find, Answer, Enter
<1> QED BY <1>1, <1>2, <1>3, <1>4, <1>5, <1>6 DEF Works

(* Whoever gets a bare 500 has met, since it arrived, with what explains    *)
(* it; whatever the workers, users and mixes of requests.                   *)
THEOREM BareErrorsHaveACause == Spec => BareErrorsExplained
<1>1. Init => MetInv
  BY DEF Init, MetInv, MetInvOf
<1>2. Spec => []MetInv
  BY <1>1, MetStep, RowsKeepTheirRoles, PTL DEF Spec
<1>3. RolesInv /\ MetInv /\ [Next /\ UNCHANGED mix]_vars =>
        [\A w \in Workers : pc[w] # "idle" /\ pc'[w] = "idle" /\ answer' = 500
            => Explained(w)]_vars
  BY BareErrorMet
<1> QED BY <1>2, <1>3, RowsKeepTheirRoles, PTL DEF Spec, BareErrorsExplained

-----------------------------------------------------------------------------
(* The throttle: what the cached list says about what has been admitted.    *)

(* The least element of a set of natural numbers. *)
LEMMA NatMinimum ==
    ASSUME NEW T \in SUBSET Nat, T # {}
    PROVE  \E x \in T : \A y \in T : x <= y
<1> DEFINE R == OpToRel(<, Nat)
<1>1. IsWellFoundedOn(R, Nat)
  BY NatLessThanWellFounded
<1>2. \A x, y \in Nat : y < x => <<y, x>> \in R
  BY DEF OpToRel
<1> HIDE DEF R
<1>3. PICK x \in T : \A y \in T : ~ (<<y, x>> \in R)
  BY <1>1, WFMin
<1>4. ASSUME NEW y \in T PROVE x <= y
  <2>1. x \in Nat /\ y \in Nat
    OBVIOUS
  <2>2. ~(y < x)
    BY <1>2, <1>3, <2>1, Zenon
  <2> QED BY <2>1, <2>2
<1> QED BY <1>4

LEMMA FirstNaturals ==
    ASSUME NEW n \in Nat
    PROVE  IsFiniteSet(1..n) /\ Cardinality(1..n) = n
<1>1. IsFiniteSet(1..n) /\ Cardinality(1..n) = IF 1 > n THEN 0 ELSE n - 1 + 1
  BY FS_Interval
<1> QED BY <1>1

(* What popping the old entries leaves: a prefix, whose last entry is       *)
(* recent, of a list whose other entries are old.                           *)
LEMMA RecentIs ==
    ASSUME NEW h \in Seq(Time), NEW t \in Int
    PROVE  \E n \in 0..Len(h) :
              /\ Recent(h, t) = SubSeq(h, 1, n)
              /\ n = 0 \/ h[n] > t - Duration
              /\ \A k \in (n + 1)..Len(h) : h[k] <= t - Duration
              /\ Recent(h, t) \in Seq(Time) /\ Len(Recent(h, t)) = n
              /\ \A k \in 1..n : Recent(h, t)[k] = h[k]
<1> DEFINE P(n) == /\ n = 0 \/ h[n] > t - Duration
                   /\ \A k \in (n + 1)..Len(h) : h[k] <= t - Duration
           M == {m \in Nat : m <= Len(h) /\ \A k \in (m + 1)..Len(h) : h[k] <= t - Duration}
<1>1. \A k \in 1..Len(h) : h[k] \in Int
  BY ElementOfSeq, BoundsAssumption DEF Time
<1>2. Len(h) \in M /\ t - Duration \in Int
  <2>1. Len(h) \in Nat
    BY LenProperties
  <2>2. \A k \in (Len(h) + 1)..Len(h) : FALSE
    BY <2>1
  <2> QED BY <2>1, <2>2, RateAssumption
<1>3. PICK n \in M : \A m \in M : n <= m
  BY <1>2, NatMinimum
<1>4. n = 0 \/ h[n] > t - Duration
  <2> SUFFICES ASSUME n # 0, ~(h[n] > t - Duration) PROVE FALSE
    OBVIOUS
  <2>1. n \in 1..Len(h) /\ h[n] <= t - Duration
    BY <1>1, <1>2
  <2>2. n - 1 \in M
    <3>1. n - 1 \in Nat /\ n - 1 <= Len(h)
      BY <2>1
    <3>2. ASSUME NEW k \in ((n - 1) + 1)..Len(h) PROVE h[k] <= t - Duration
      <4>1. k = n \/ k \in (n + 1)..Len(h)
        BY <2>1
      <4> QED BY <2>1, <4>1
    <3> QED BY <3>1, <3>2
  <2> QED BY <1>3, <2>1, <2>2
<1>5. n \in 0..Len(h) /\ P(n)
  BY <1>4
<1> HIDE DEF P, M
<1> DEFINE c == CHOOSE m \in 0..Len(h) : P(m)
<1>6. c \in 0..Len(h) /\ P(c)
  BY <1>5
<1>7. Recent(h, t) = SubSeq(h, 1, c)
  BY DEF Recent, P
<1> HIDE DEF c
<1>8. /\ SubSeq(h, 1, c) \in Seq(Time) /\ Len(SubSeq(h, 1, c)) = c
      /\ \A k \in 1..c : SubSeq(h, 1, c)[k] = h[k]
  <2>1. \A i \in 1..c : h[i] \in Time
    BY <1>6
  <2>2. c \in Int /\ 1 \in Int
    BY <1>6
  <2>3. /\ SubSeq(h, 1, c) \in Seq(Time)
        /\ Len(SubSeq(h, 1, c)) = IF 1 <= c THEN c - 1 + 1 ELSE 0
        /\ \A k \in 1..(c - 1 + 1) : SubSeq(h, 1, c)[k] = h[1 + k - 1]
    BY <2>1, <2>2, SubSeqProperties
  <2> QED BY <1>6, <2>3
<1> QED BY <1>6, <1>7, <1>8 DEF P

(* Which admissions the properties need to find again in the history.       *)
Standing == {p \in admitted : p[1] > forgotAt /\ p[1] > clock - Duration}

Tokens == Time \X (1..(Rate + 1))

Sorted(h) == \A i, j \in 1..Len(h) : i <= j => h[j] <= h[i]

(* Every entry of a list is an admission of its own. *)
Earned(h, A) ==
    \E g \in [1..Len(h) -> A] :
        /\ \A i, j \in 1..Len(h) : g[i] = g[j] => i = j
        /\ \A k \in 1..Len(h) : g[k][1] = h[k]

(* Every admission that was not forgotten has an entry of its own, while it *)
(* is recent.                                                               *)
Remembered ==
    \E f \in [Standing -> 1..Len(history)] :
        /\ \A p, q \in Standing : f[p] = f[q] => p = q
        /\ \A p \in Standing : history[f[p]] = p[1]

ListInv(h, t) ==
    /\ h \in Seq(Time) /\ Len(h) <= Rate /\ Sorted(h) /\ Earned(h, admitted)
    /\ \A k \in 1..Len(h) : h[k] <= t

ThrottleInv ==
    /\ admitted \subseteq Tokens /\ \A p \in admitted : p[1] <= clock
    /\ ListInv(history, clock) /\ Remembered
    /\ seen \in [Workers -> Seq(Time)]
    /\ \A w \in Workers :
        /\ ListInv(seen[w], at[w]) /\ at[w] <= clock
        /\ pc[w] = "set" => Len(Recent(seen[w], at[w])) < Rate

LEMMA EarnedMore ==
    ASSUME NEW h, NEW A, NEW B, A \subseteq B, Earned(h, A)
    PROVE  Earned(h, B)
BY DEF Earned

LEMMA EarnedEmpty == ASSUME NEW A PROVE Earned(<<>>, A)
<1>1. Len(<<>>) = 0 /\ 1..0 = {}
  BY EmptySeq
<1> DEFINE g == [k \in {} |-> 0]
<1>2. g \in [{} -> A]
  OBVIOUS
<1> QED BY <1>1, <1>2 DEF Earned

(* A stretch of an earned list is earned, and of a sorted one sorted. *)
LEMMA Stretch ==
    ASSUME NEW h \in Seq(Time), NEW m \in 1..(Len(h) + 1), NEW n \in 0..Len(h), NEW A, Earned(h, A),
           Sorted(h), NEW r \in Seq(Time),
           Len(r) = (IF m <= n THEN n - m + 1 ELSE 0), \A k \in 1..Len(r) : r[k] = h[m + k - 1]
    PROVE  Earned(r, A) /\ Sorted(r)
<1>1. PICK g \in [1..Len(h) -> A] :
        /\ \A i, j \in 1..Len(h) : g[i] = g[j] => i = j
        /\ \A k \in 1..Len(h) : g[k][1] = h[k]
  BY DEF Earned
<1>2. Len(h) \in Nat /\ Len(r) \in Nat
  BY LenProperties
<1>3. \A k \in 1..Len(r) : m + k - 1 \in 1..Len(h)
  BY <1>2
<1> DEFINE f == [k \in 1..Len(r) |-> g[m + k - 1]]
<1>4. f \in [1..Len(r) -> A] /\ \A k \in 1..Len(r) : f[k] = g[m + k - 1]
  BY <1>1, <1>3
<1> HIDE DEF f
<1>5. ASSUME NEW i \in 1..Len(r), NEW j \in 1..Len(r), f[i] = f[j] PROVE i = j
  <2>1. g[m + i - 1] = g[m + j - 1]
    BY <1>4, <1>5
  <2>2. m + i - 1 = m + j - 1
    BY <1>1, <1>3, <2>1
  <2> QED BY <1>2, <2>2
<1>6. ASSUME NEW k \in 1..Len(r) PROVE f[k][1] = r[k]
  <2>1. f[k] = g[m + k - 1] /\ r[k] = h[m + k - 1] /\ m + k - 1 \in 1..Len(h)
    BY <1>3, <1>4
  <2> QED BY <1>1, <2>1
<1>7. Earned(r, A)
  BY <1>4, <1>5, <1>6 DEF Earned
<1>8. Sorted(r)
  <2> SUFFICES ASSUME NEW i \in 1..Len(r), NEW j \in 1..Len(r), i <= j PROVE r[j] <= r[i]
    BY DEF Sorted
  <2>1. m + i - 1 <= m + j - 1
    BY <1>2
  <2> QED BY <1>3, <2>1 DEF Sorted
<1> QED BY <1>7, <1>8

(* There is always an admission left for one more entry: lists are shorter  *)
(* than the numbers of one time.                                            *)
LEMMA OneMore ==
    ASSUME NEW h, Len(h) \in 0..(Rate - 1), NEW t \in Time, NEW A \in SUBSET Tokens,
           NEW g \in [1..Len(h) -> A], A = admitted
    PROVE  \E p \in A \cup Admission(t) : p[1] = t /\ \A k \in 1..Len(h) : g[k] # p
<1> DEFINE free == ({t} \X (1..(Rate + 1))) \ A
<1>1. CASE free = {}
  <2> SUFFICES ASSUME \A j \in 1..(Rate + 1) : \E k \in 1..Len(h) : g[k] = <<t, j>>
               PROVE  FALSE
    <3>1. PICK j \in 1..(Rate + 1) : ~ \E k \in 1..Len(h) : g[k] = <<t, j>>
      OBVIOUS
    <3>2. <<t, j>> \in A /\ <<t, j>>[1] = t
      BY <1>1
    <3> QED BY <3>1, <3>2
  <2> DEFINE f == [j \in 1..(Rate + 1) |-> CHOOSE k \in 1..Len(h) : g[k] = <<t, j>>]
  <2>1. \A j \in 1..(Rate + 1) : f[j] \in 1..Len(h) /\ g[f[j]] = <<t, j>>
    OBVIOUS
  <2>2. f \in [1..(Rate + 1) -> 1..Len(h)]
    BY <2>1
  <2> HIDE DEF f
  <2>3. /\ IsFiniteSet(1..(Rate + 1)) /\ Cardinality(1..(Rate + 1)) = Rate + 1
        /\ IsFiniteSet(1..Len(h)) /\ Cardinality(1..Len(h)) = Len(h)
    <3>1. Rate + 1 \in Nat /\ Len(h) \in Nat
      BY RateAssumption
    <3> QED BY <3>1, FirstNaturals
  <2>4. f \in Injection(1..(Rate + 1), 1..Len(h))
    <3>1. \A x, y \in 1..(Rate + 1) : f[x] = f[y] => x = y
      BY <2>1
    <3> QED BY <2>2, <3>1, Fun_IsInj
  <2>5. Cardinality(1..(Rate + 1)) <= Cardinality(1..Len(h))
    BY <2>3, <2>4, FS_Injection
  <2> QED BY <2>3, <2>5, RateAssumption
<1>2. CASE free # {}
  <2>1. Admission(t) = {CHOOSE p \in free : TRUE}
    BY <1>2 DEF Admission
  <2>2. PICK p \in free : Admission(t) = {p}
    BY <1>2, <2>1
  <2> QED BY <2>2
<1> QED BY <1>1, <1>2

(* The list a worker writes back is earned and sorted like the one it read. *)
LEMMA EarnedAdd ==
    ASSUME NEW h \in Seq(Time), Len(h) < Rate, NEW t \in Time, admitted \subseteq Tokens,
           Earned(h, admitted), Sorted(h), \A k \in 1..Len(h) : h[k] <= t
    PROVE  /\ <<t>> \o h \in Seq(Time) /\ Len(<<t>> \o h) = Len(h) + 1
           /\ \A k \in 1..(Len(h) + 1) : (<<t>> \o h)[k] = IF k = 1 THEN t ELSE h[k - 1]
           /\ Earned(<<t>> \o h, admitted \cup Admission(t))
           /\ Sorted(<<t>> \o h)
<1>1. PICK g \in [1..Len(h) -> admitted] :
        /\ \A i, j \in 1..Len(h) : g[i] = g[j] => i = j
        /\ \A k \in 1..Len(h) : g[k][1] = h[k]
  BY DEF Earned
<1>2. Len(h) \in Nat
  BY LenProperties
<1>3. PICK p \in admitted \cup Admission(t) : p[1] = t /\ \A k \in 1..Len(h) : g[k] # p
  BY <1>2, OneMore, RateAssumption
<1>4. PICK r : r = <<t>> \o h
  OBVIOUS
<1>5. /\ r \in Seq(Time) /\ Len(r) = Len(h) + 1
      /\ \A k \in 1..(Len(h) + 1) : r[k] = IF k = 1 THEN t ELSE h[k - 1]
  BY <1>2, <1>4
<1> DEFINE f == [k \in 1..(Len(h) + 1) |-> IF k = 1 THEN p ELSE g[k - 1]]
<1>6. \A k \in 1..(Len(h) + 1) : k = 1 \/ k - 1 \in 1..Len(h)
  BY <1>2
<1>7. /\ f \in [1..Len(r) -> admitted \cup Admission(t)]
      /\ \A k \in 1..Len(r) : f[k] = IF k = 1 THEN p ELSE g[k - 1]
  BY <1>5, <1>6
<1> HIDE DEF f
<1>8. ASSUME NEW i \in 1..Len(r), NEW j \in 1..Len(r), f[i] = f[j] PROVE i = j
  <2>1. /\ i = 1 \/ (i # 1 /\ i - 1 \in 1..Len(h) /\ f[i] = g[i - 1])
        /\ j = 1 \/ (j # 1 /\ j - 1 \in 1..Len(h) /\ f[j] = g[j - 1])
    BY <1>5, <1>6, <1>7
  <2>2. i = 1 => f[i] = p
    BY <1>7
  <2>3. j = 1 => f[j] = p
    BY <1>7
  <2>4. i # 1 /\ j # 1 => i - 1 = j - 1
    BY <1>1, <1>8, <2>1
  <2> QED BY <1>3, <1>8, <2>1, <2>2, <2>3, <2>4
<1>9. ASSUME NEW k \in 1..Len(r) PROVE f[k][1] = r[k]
  <2>1. CASE k = 1
    BY <1>3, <1>5, <1>7, <2>1
  <2>2. CASE k # 1
    <3>1. k - 1 \in 1..Len(h) /\ f[k] = g[k - 1] /\ r[k] = h[k - 1]
      BY <1>5, <1>6, <1>7, <2>2
    <3> QED BY <1>1, <3>1
  <2> QED BY <2>1, <2>2
<1>10. Earned(r, admitted \cup Admission(t))
  BY <1>7, <1>8, <1>9 DEF Earned
<1>11. Sorted(r)
  <2> SUFFICES ASSUME NEW i \in 1..Len(r), NEW j \in 1..Len(r), i <= j PROVE r[j] <= r[i]
    BY DEF Sorted
  <2>1. CASE j = 1
    BY <1>5, <2>1 DEF Time
  <2>2. CASE j # 1 /\ i = 1
    BY <1>5, <1>6, <2>2
  <2>3. CASE j # 1 /\ i # 1
    <3>1. i - 1 \in 1..Len(h) /\ j - 1 \in 1..Len(h) /\ i - 1 <= j - 1
      BY <1>5, <1>6, <2>3
    <3>2. h[j - 1] <= h[i - 1]
      BY <3>1 DEF Sorted
    <3> QED BY <1>5, <2>3, <3>2
  <2> QED BY <2>1, <2>2, <2>3
<1> QED BY <1>4, <1>5, <1>10, <1>11

LEMMA ThrottleInit == Init => ThrottleInv
<1> SUFFICES ASSUME Init PROVE ThrottleInv
  OBVIOUS
<1>1. history = <<>> /\ admitted = {} /\ \A w \in Workers : seen[w] = <<>> /\ at[w] = 0
  BY DEF Init
<1>2. <<>> \in Seq(Time) /\ Len(<<>>) = 0 /\ 1..0 = {}
  BY EmptySeq
<1>3. Earned(<<>>, {})
  BY EarnedEmpty
<1>4. \A t \in Int : ListInv(<<>>, t)
  BY <1>1, <1>2, <1>3, RateAssumption DEF ListInv, Sorted
<1>5. Remembered
  <2>1. Standing = {}
    BY <1>1 DEF Standing
  <2> DEFINE f == [k \in {} |-> 0]
  <2>2. f \in [{} -> 1..Len(history)]
    OBVIOUS
  <2> QED BY <2>1, <2>2 DEF Remembered
<1>6. clock = 0 /\ \A w \in Workers : pc[w] = "idle" /\ at[w] = 0
  BY DEF Init
<1>7. seen \in [Workers -> Seq(Time)]
  BY <1>2 DEF Init
<1> QED BY <1>1, <1>4, <1>5, <1>6, <1>7 DEF ThrottleInv

(* Steps that leave the throttle alone. *)
LEMMA ThrottleRests ==
    ASSUME ThrottleInv, UNCHANGED <<history, seen, at, admitted, forgotAt, clock>>,
           \A w \in Workers : pc'[w] = "set" => pc[w] = "set"
    PROVE  ThrottleInv'
<1>1. Remembered'
  <2>1. Standing' = Standing
    BY DEF Standing
  <2> QED BY <2>1 DEF ThrottleInv, Remembered
<1>2. \A h, t : ListInv(h, t) => ListInv(h, t)'
  BY DEF ListInv
<1> QED BY <1>1, <1>2 DEF ThrottleInv

(* Time only makes admissions old. *)
LEMMA TickKeeps == ASSUME ThrottleInv, DataInv, Tick PROVE ThrottleInv'
<1>1. /\ clock' = clock + 1 /\ clock \in Int
      /\ UNCHANGED <<history, seen, at, admitted, forgotAt, pc>>
  BY DEF Tick, cacheVars, DataInv, Time
<1>2. admitted \subseteq Tokens /\ \A p \in admitted : p[1] \in Int /\ p[1] <= clock
  BY BoundsAssumption DEF ThrottleInv, Tokens, Time
<1>3. Standing' \subseteq Standing
  BY <1>1, <1>2, RateAssumption DEF Standing
<1>4. Remembered'
  <2>1. PICK f \in [Standing -> 1..Len(history)] :
          /\ \A p, q \in Standing : f[p] = f[q] => p = q
          /\ \A p \in Standing : history[f[p]] = p[1]
    BY DEF ThrottleInv, Remembered
  <2> DEFINE g == [p \in Standing' |-> f[p]]
  <2>2. g \in [Standing' -> 1..Len(history)] /\ \A p \in Standing' : g[p] = f[p]
    BY <1>3, <2>1
  <2> HIDE DEF g
  <2> QED BY <1>1, <1>3, <2>1, <2>2 DEF Remembered
<1>5. \A h, t : ListInv(h, t) => ListInv(h, t)'
  BY <1>1 DEF ListInv
<1>6. ListInv(history, clock + 1)
  <2>1. history \in Seq(Time) /\ ListInv(history, clock)
    BY DEF ThrottleInv, ListInv
  <2>2. \A k \in 1..Len(history) : history[k] \in Int
    BY <2>1, ElementOfSeq, BoundsAssumption DEF Time
  <2>3. \A k \in 1..Len(history) : history[k] <= clock + 1
    BY <1>1, <2>1, <2>2 DEF ListInv
  <2> QED BY <2>1, <2>3 DEF ListInv
<1>7. \A w \in Workers : at[w] \in Int
  BY BoundsAssumption DEF DataInv, Time
<1> QED BY <1>1, <1>2, <1>4, <1>5, <1>6, <1>7 DEF ThrottleInv

(* After a snapshot, the history is a stretch of what it was; if anything   *)
(* is missing, all that was admitted so far counts as forgotten.            *)
LEMMA NothingStands ==
    ASSUME ThrottleInv, forgotAt' = clock, clock' = clock, DataInv,
           \A p \in admitted' : p[1] \in Int /\ p[1] <= clock
    PROVE  Remembered'
<1>1. Standing' = {}
  BY BoundsAssumption DEF Standing, DataInv, Time
<1> DEFINE f == [k \in {} |-> 0]
<1>2. f \in [{} -> 1..Len(history')]
  OBVIOUS
<1> QED BY <1>1, <1>2 DEF Remembered

LEMMA RestartKeeps == ASSUME ThrottleInv, DataInv, Starts("redis") PROVE ThrottleInv'
<1>1. PICK k \in 1..(Len(history) + 1) : history' = SubSeq(history, k, Len(history))
  BY DEF Starts
<1>2. /\ UNCHANGED <<clock, seen, at, admitted, pc>>
      /\ forgotAt' = IF history' = history THEN forgotAt ELSE clock
  BY DEF Starts
<1>3. ListInv(history, clock) /\ history \in Seq(Time) /\ Len(history) \in Nat
  BY LenProperties DEF ThrottleInv, ListInv
<1>4. /\ history' \in Seq(Time)
      /\ Len(history') = IF k <= Len(history) THEN Len(history) - k + 1 ELSE 0
      /\ \A i \in 1..Len(history') : history'[i] = history[k + i - 1]
  <2>1. \A i \in k..Len(history) : history[i] \in Time
    BY <1>3, ElementOfSeq
  <2>2. k \in Int /\ Len(history) \in Int
    BY <1>3
  <2>3. /\ SubSeq(history, k, Len(history)) \in Seq(Time)
        /\ Len(SubSeq(history, k, Len(history))) =
              IF k <= Len(history) THEN Len(history) - k + 1 ELSE 0
        /\ \A i \in 1..(Len(history) - k + 1) :
              SubSeq(history, k, Len(history))[i] = history[k + i - 1]
    BY <2>1, <2>2, SubSeqProperties
  <2> QED BY <1>1, <1>3, <2>3
<1>5. Earned(history', admitted) /\ Sorted(history')
  <2>1. Len(history) \in 0..Len(history)
    BY <1>3
  <2> QED BY <1>3, <1>4, <2>1, Stretch DEF ListInv
<1>6. \A i \in 1..Len(history') : k + i - 1 \in 1..Len(history)
  BY <1>3, <1>4
<1>7. ListInv(history, clock)'
  <2>1. Len(history') <= Rate
    BY <1>3, <1>4, RateAssumption DEF ListInv
  <2>2. \A j \in 1..Len(history') : history'[j] <= clock'
    BY <1>2, <1>3, <1>4, <1>6 DEF ListInv
  <2>3. history' \in Seq(Time)
    BY <1>4
  <2>4. Earned(history', admitted')
    BY <1>2, <1>5
  <2> QED BY <1>5, <2>1, <2>2, <2>3, <2>4 DEF ListInv
<1>8. Remembered'
  <2>1. CASE history' = history
    <3>1. Standing' = Standing
      BY <1>2, <2>1 DEF Standing
    <3>2. Remembered
      BY DEF ThrottleInv
    <3> QED BY <2>1, <3>1, <3>2 DEF Remembered
  <2>2. CASE history' # history
    <3>1. \A p \in admitted' : p[1] \in Int /\ p[1] <= clock
      BY <1>2, BoundsAssumption DEF ThrottleInv, Tokens, Time
    <3> QED BY <1>2, <2>2, <3>1, NothingStands
  <2> QED BY <2>1, <2>2
<1>9. \A h, t : ListInv(h, t) => ListInv(h, t)'
  BY <1>2 DEF ListInv
<1> QED BY <1>2, <1>7, <1>8, <1>9 DEF ThrottleInv

(* The throttle has read a list that has room for one more entry. *)
LEMMA GetKeeps ==
    ASSUME ThrottleInv, DataInv, WorkersInv, NEW v \in Workers, ThrottleGet(v)
    PROVE  ThrottleInv'
<1>1. UNCHANGED <<history, admitted, forgotAt, clock>>
  BY DEF ThrottleGet, Answer, Goto, cacheVars
<1>2. CASE UNCHANGED <<seen, at>> /\ \E status : Answer(v, status)
  BY <1>1, <1>2, ThrottleRests DEF Answer, WorkersInv
<1>3. CASE ~Exhausted(Recent(history, clock)) /\ seen' = [seen EXCEPT ![v] = history]
           /\ at' = [at EXCEPT ![v] = clock] /\ Goto(v, "set")
  <2>1. \A w \in Workers : IF w = v THEN seen'[w] = history /\ at'[w] = clock
                           ELSE seen'[w] = seen[w] /\ at'[w] = at[w] /\ pc'[w] = pc[w]
    BY <1>3 DEF ThrottleInv, DataInv, WorkersInv, Goto
  <2>2. \E n \in 0..Len(history) : Len(Recent(history, clock)) = n
    <3>1. history \in Seq(Time) /\ clock \in Int
      BY BoundsAssumption DEF ThrottleInv, ListInv, DataInv, Time
    <3> QED BY <3>1, RecentIs
  <2>3. Len(Recent(history, clock)) < Rate
    <3>1. Len(history) \in Nat
      BY LenProperties DEF ThrottleInv, ListInv
    <3> QED BY <1>3, <2>2, <3>1, RateAssumption DEF Exhausted
  <2>4. Remembered'
    <3>1. Standing' = Standing /\ history' = history
      BY <1>1 DEF Standing
    <3>2. Remembered
      BY DEF ThrottleInv
    <3> QED BY <3>1, <3>2 DEF Remembered
  <2>5. \A h, t : ListInv(h, t) => ListInv(h, t)'
    BY <1>1 DEF ListInv
  <2>6. seen' \in [Workers -> Seq(Time)]
    BY <1>3 DEF ThrottleInv, ListInv
  <2>7. clock \in Int
    BY BoundsAssumption DEF DataInv, Time
  <2>8. ASSUME NEW w \in Workers
        PROVE  /\ ListInv(seen[w], at[w])' /\ at'[w] <= clock'
               /\ pc'[w] = "set" => Len(Recent(seen'[w], at'[w])) < Rate
    <3>1. CASE w = v
      BY <1>1, <2>1, <2>3, <2>5, <2>7, <3>1 DEF ThrottleInv
    <3>2. CASE w # v
      BY <1>1, <2>1, <2>5, <3>2 DEF ThrottleInv
    <3> QED BY <3>1, <3>2
  <2> QED BY <1>1, <2>4, <2>5, <2>6, <2>8 DEF ThrottleInv
<1> QED BY <1>2, <1>3 DEF ThrottleGet

LEMMA AdmissionIs ==
    ASSUME NEW t \in Time
    PROVE  /\ Admission(t) \subseteq Tokens
           /\ \A p \in Admission(t) : p[1] = t /\ p \notin admitted
           /\ \A p, q \in Admission(t) : p = q
<1> DEFINE free == ({t} \X (1..(Rate + 1))) \ admitted
<1>1. CASE free = {}
  BY <1>1 DEF Admission
<1>2. CASE free # {}
  <2>1. PICK p \in free : Admission(t) = {p}
    BY <1>2 DEF Admission
  <2> QED BY <2>1 DEF Tokens
<1> QED BY <1>1, <1>2

(* The list a worker writes back: its own admission in front of what it     *)
(* read.  If that is what the cache still holds, everything that stands     *)
(* keeps its entry; if not, what others have put there is forgotten.        *)
LEMMA SetKeeps ==
    ASSUME ThrottleInv, DataInv, WorkersInv, NEW v \in Workers, ThrottleSet(v)
    PROVE  ThrottleInv'
<1> DEFINE t == at[v]  h == seen[v]  r == Recent(h, t)
<1>1. /\ pc[v] = "set" /\ clock' = clock
      /\ seen' = [seen EXCEPT ![v] = <<>>] /\ at' = [at EXCEPT ![v] = 0]
      /\ \E l \in {"idle", "find"} : pc' = [pc EXCEPT ![v] = l]
  BY DEF ThrottleSet, Answer, Goto
<1>2. \A w \in Workers : IF w = v THEN seen'[w] = <<>> /\ at'[w] = 0 /\ pc'[w] # "set"
                         ELSE seen'[w] = seen[w] /\ at'[w] = at[w] /\ pc'[w] = pc[w]
  BY <1>1 DEF ThrottleInv, DataInv, WorkersInv
<1>3. /\ t \in Time /\ t \in Int /\ clock \in Int /\ t <= clock
      /\ h \in Seq(Time) /\ Earned(h, admitted) /\ Sorted(h)
      /\ \A k \in 1..Len(h) : h[k] \in Int /\ h[k] <= t
  <2>1. t \in Time /\ t \in Int /\ clock \in Int
    BY BoundsAssumption DEF DataInv, Time
  <2>2. ListInv(h, t) /\ t <= clock
    BY DEF ThrottleInv
  <2>3. \A k \in 1..Len(h) : h[k] \in Int
    BY <2>2, ElementOfSeq, BoundsAssumption DEF ListInv, Time
  <2> QED BY <2>1, <2>2, <2>3 DEF ListInv
<1>4. PICK n \in 0..Len(h) :
        /\ \A k \in (n + 1)..Len(h) : h[k] <= t - Duration
        /\ r \in Seq(Time) /\ Len(r) = n /\ \A k \in 1..n : r[k] = h[k]
  BY <1>3, RecentIs
<1>5. n < Rate /\ Len(h) \in Nat
  BY <1>1, <1>3, <1>4, LenProperties DEF ThrottleInv
<1>6. Earned(r, admitted) /\ Sorted(r)
  <2>1. 1 \in 1..(Len(h) + 1) /\ Len(r) = (IF 1 <= n THEN n - 1 + 1 ELSE 0)
    BY <1>4, <1>5
  <2>2. \A k \in 1..Len(r) : r[k] = h[1 + k - 1]
    <3>1. \A k \in 1..n : r[k] = h[k] /\ 1 + k - 1 = k
      BY <1>4, <1>5
    <3> QED BY <1>4, <3>1
  <2>3. h \in Seq(Time) /\ r \in Seq(Time) /\ n \in 0..Len(h)
    BY <1>3, <1>4
  <2> QED BY <1>3, <2>1, <2>2, <2>3, Stretch
<1>7. \A k \in 1..n : r[k] <= t
  BY <1>3, <1>4, <1>5
<1>8. admitted \subseteq Tokens /\ \A p \in admitted : p[1] \in Int /\ p[1] <= clock
  BY BoundsAssumption DEF ThrottleInv, Tokens, Time
<1> HIDE DEF h, r
<1>9. PICK s : s = <<t>> \o r
  OBVIOUS
<1>10. /\ s \in Seq(Time) /\ Len(s) = n + 1
       /\ \A k \in 1..(n + 1) : s[k] = IF k = 1 THEN t ELSE r[k - 1]
       /\ Earned(s, admitted \cup Admission(t)) /\ Sorted(s)
  BY <1>3, <1>4, <1>5, <1>6, <1>7, <1>8, <1>9, EarnedAdd
<1>11. ASSUME NEW k \in 1..(n + 1) PROVE s[k] <= t
  <2>1. s[k] = IF k = 1 THEN t ELSE r[k - 1]
    BY <1>10
  <2>2. CASE k = 1
    BY <1>3, <2>1, <2>2
  <2>3. CASE k # 1
    <3>1. k - 1 \in 1..n
      BY <1>4, <1>5, <2>3
    <3>2. r[k - 1] <= t
      BY <1>7, <3>1
    <3> QED BY <2>1, <2>3, <3>2
  <2> QED BY <2>2, <2>3
<1>12. ListInv(<<>>, 0)'
  <2>1. <<>> \in Seq(Time) /\ Len(<<>>) = 0 /\ 1..0 = {}
    BY EmptySeq
  <2>2. Earned(<<>>, admitted')
    BY EarnedEmpty
  <2>3. Sorted(<<>>) /\ Len(<<>>) <= Rate
    BY <2>1, RateAssumption DEF Sorted
  <2> QED BY <2>1, <2>2, <2>3 DEF ListInv
<1>13. ASSUME admitted \subseteq admitted', ListInv(history, clock)', Remembered',
              \A p \in admitted' : p \in Tokens /\ p[1] <= clock
       PROVE  ThrottleInv'
  <2>1. \A g, u : ListInv(g, u) => ListInv(g, u)'
    BY <1>13, EarnedMore DEF ListInv
  <2>2. ASSUME NEW w \in Workers
        PROVE  /\ ListInv(seen[w], at[w])' /\ at'[w] <= clock'
               /\ pc'[w] = "set" => Len(Recent(seen'[w], at'[w])) < Rate
    <3>1. CASE w = v
      <4>1. 0 <= clock
        BY BoundsAssumption DEF DataInv, Time
      <4> QED BY <1>1, <1>2, <1>12, <3>1, <4>1
    <3>2. CASE w # v
      BY <1>1, <1>2, <2>1, <3>2 DEF ThrottleInv
    <3> QED BY <3>1, <3>2
  <2>3. seen' \in [Workers -> Seq(Time)]
    BY <1>1, EmptySeq DEF ThrottleInv
  <2> QED BY <1>1, <1>13, <2>2, <2>3 DEF ThrottleInv
<1>14. CASE UNCHANGED <<history, admitted, forgotAt>>
  <2>1. Standing' = Standing
    BY <1>1, <1>14 DEF Standing
  <2>2. Remembered'
    BY <1>14, <2>1 DEF ThrottleInv, Remembered
  <2>3. ListInv(history, clock)'
    BY <1>1, <1>14 DEF ThrottleInv, ListInv
  <2> QED BY <1>8, <1>13, <1>14, <2>2, <2>3
<1>15. CASE /\ history' = s /\ admitted' = admitted \cup Admission(t)
            /\ forgotAt' = IF history # h THEN clock ELSE forgotAt
  <2>1. /\ Admission(t) \subseteq Tokens
        /\ \A p \in Admission(t) : p[1] = t /\ p \notin admitted
        /\ \A p, q \in Admission(t) : p = q
    BY <1>3, AdmissionIs
  <2>2. \A p \in admitted' : p \in Tokens /\ p[1] \in Int /\ p[1] <= clock
    BY <1>3, <1>8, <1>15, <2>1
  <2>3. ListInv(history, clock)'
    <3>1. \A k \in 1..(n + 1) : s[k] \in Int
      BY <1>10, ElementOfSeq, BoundsAssumption DEF Time
    <3>2. \A k \in 1..(n + 1) : s[k] <= clock
      BY <1>3, <1>11, <3>1
    <3> QED BY <1>1, <1>5, <1>10, <1>15, <3>2, RateAssumption DEF ListInv
  <2>4. CASE history # h
    <3>1. Remembered'
      BY <1>1, <1>15, <2>2, <2>4, NothingStands
    <3> QED BY <1>13, <1>15, <2>2, <2>3, <3>1
  <2>5. CASE history = h
    <3>1. PICK f \in [Standing -> 1..Len(h)] :
            /\ \A p, q \in Standing : f[p] = f[q] => p = q
            /\ \A p \in Standing : h[f[p]] = p[1]
      BY <2>5 DEF ThrottleInv, Remembered
    <3>2. Standing' \subseteq Standing \cup Admission(t)
      BY <1>1, <1>15, <2>5 DEF Standing
    <3>3. ASSUME NEW p \in Standing PROVE f[p] \in 1..n
      <4>1. h[f[p]] > t - Duration
        <5>1. p[1] \in Int /\ p[1] > clock - Duration
          BY <1>8 DEF Standing
        <5> QED BY <1>3, <3>1, <5>1, RateAssumption
      <4>2. f[p] \in 1..Len(h) /\ h[f[p]] \in Int
        BY <1>3, <3>1
      <4>3. f[p] \notin (n + 1)..Len(h)
        BY <1>3, <1>4, <4>1, <4>2, RateAssumption
      <4> QED BY <1>4, <1>5, <4>2, <4>3
    <3> DEFINE g == [p \in Standing' |-> IF p \in Standing THEN f[p] + 1 ELSE 1]
    <3>4. g \in [Standing' -> 1..(n + 1)]
      BY <1>4, <1>5, <3>3
    <3>5. ASSUME NEW p \in Standing', NEW q \in Standing', g[p] = g[q] PROVE p = q
      <4>1. p \in Standing => f[p] + 1 > 1 /\ g[p] = f[p] + 1
        BY <3>3
      <4>2. q \in Standing => f[q] + 1 > 1 /\ g[q] = f[q] + 1
        BY <3>3
      <4>3. CASE p \in Standing /\ q \in Standing
        BY <3>1, <3>3, <3>5, <4>1, <4>2, <4>3
      <4>4. CASE p \notin Standing /\ q \notin Standing
        BY <2>1, <3>2, <4>4
      <4>5. CASE (p \in Standing) # (q \in Standing)
        BY <3>5, <4>1, <4>2, <4>5
      <4> QED BY <4>3, <4>4, <4>5
    <3>6. ASSUME NEW p \in Standing' PROVE s[g[p]] = p[1]
      <4>1. CASE p \in Standing
        <5>1. g[p] = f[p] + 1 /\ f[p] \in 1..n /\ f[p] + 1 \in 1..(n + 1) /\ f[p] + 1 # 1
          BY <1>5, <3>3, <4>1
        <5>2. s[f[p] + 1] = r[f[p]]
          BY <1>10, <5>1
        <5> QED BY <1>4, <3>1, <4>1, <5>1, <5>2
      <4>2. CASE p \notin Standing
        <5>1. g[p] = 1 /\ p[1] = t
          BY <2>1, <3>2, <4>2
        <5> QED BY <1>5, <1>10, <5>1
      <4> QED BY <4>1, <4>2
    <3> HIDE DEF g
    <3>7. Remembered'
      <4>1. Len(history') = n + 1 /\ history' = s
        BY <1>10, <1>15
      <4> QED BY <3>4, <3>5, <3>6, <4>1 DEF Remembered
    <3> QED BY <1>13, <1>15, <2>2, <2>3, <3>7
  <2> QED BY <2>4, <2>5
<1> QED BY <1>9, <1>14, <1>15 DEF ThrottleSet, h, r

LEMMA ThrottleStep ==
    RolesInv /\ ThrottleInv /\ [Next /\ UNCHANGED mix]_vars => ThrottleInv'
<1> SUFFICES ASSUME RolesInv, ThrottleInv, [Next /\ UNCHANGED mix]_vars
             PROVE  ThrottleInv'
  OBVIOUS
<1>a. WorkersInv /\ DataInv
  BY Types DEF RolesInv
<1>1. CASE UNCHANGED vars
  BY <1>1, ThrottleRests DEF vars, cacheVars
<1>2. ASSUME NEW v \in Workers, Authenticate(v) \/ Permit(v) \/ Find(v)
      PROVE  ThrottleInv'
  <2>1. UNCHANGED <<history, seen, at, admitted, forgotAt, clock>>
    BY <1>2 DEF Authenticate, Permit, Find, cacheVars
  <2>2. pc' = pc \/ \E l \in Steps \ {"set"} : pc' = [pc EXCEPT ![v] = l]
    BY <1>2 DEF Authenticate, Permit, Find, Enter, Goto, Answer, Steps
  <2>3. \A w \in Workers : pc'[w] = "set" => pc[w] = "set"
    BY <1>a, <2>2 DEF WorkersInv
  <2> QED BY <2>1, <2>3, ThrottleRests
<1>3. ASSUME NEW v \in Workers, Handle(v)
      PROVE  ThrottleInv'
  <2>1. Moves(v) \/ Destroys(v)
    BY <1>3, HandlersMove, DestroyIs, FailedDestroyMoves
  <2>2. UNCHANGED <<history, seen, at, admitted, forgotAt, clock>>
    BY <2>1 DEF Moves, Destroys, cacheVars
  <2>3. \E l \in Steps \ {"set"} : pc' = [pc EXCEPT ![v] = l]
    BY <2>1 DEF Moves, Destroys, Goto, Answer, Steps
  <2>4. \A w \in Workers : pc'[w] = "set" => pc[w] = "set"
    BY <1>a, <2>3 DEF WorkersInv
  <2> QED BY <2>2, <2>4, ThrottleRests
<1>4. ASSUME \/ \E u \in Users : BeginDeletion(u) \/ DeleteAccount(u)
             \/ \E s \in Services : Stops(s) \/ (s # "redis" /\ Starts(s))
      PROVE  ThrottleInv'
  <2>1. UNCHANGED <<history, seen, at, admitted, forgotAt, clock, pc>>
    BY <1>4 DEF BeginDeletion, DeleteAccount, Stops, Starts, Apart, cacheVars
  <2> QED BY <2>1, ThrottleRests
<1> QED
  BY <1>a, <1>1, <1>2, <1>3, <1>4, GetKeeps, SetKeeps, RestartKeeps, TickKeeps DEF Next

(* The admissions of the last Duration, and the finite set they are from. *)
LEMMA AdmittedIs ==
    ASSUME ThrottleInv, NEW t \in Int
    PROVE  /\ Admitted(t) \in Nat
           /\ IsFiniteSet({p \in admitted : p[1] > t - Duration /\ p[1] <= t})
<1>1. IsFiniteSet(Tokens)
  <2>1. IsFiniteSet(Time)
    BY FS_Interval, BoundsAssumption DEF Time
  <2>2. IsFiniteSet(1..(Rate + 1))
    BY FirstNaturals, RateAssumption
  <2> QED BY <2>1, <2>2, FS_Product DEF Tokens
<1>2. {p \in admitted : p[1] > t - Duration /\ p[1] <= t} \subseteq Tokens
  BY DEF ThrottleInv
<1> QED BY <1>1, <1>2, FS_Subset, FS_CardinalityType DEF Admitted

(* No more than Rate requests are admitted in any Duration in which no      *)
(* admission was forgotten, for any Rate, Duration and number of workers.   *)
THEOREM RateIsKept == Spec => []RateKept
<1>1. Spec => []ThrottleInv
  BY ThrottleInit, ThrottleStep, RowsKeepTheirRoles, PTL DEF Spec
<1>2. RolesInv /\ ThrottleInv => RateKept
  <2> SUFFICES ASSUME RolesInv, ThrottleInv, forgotAt <= clock - Duration
               PROVE  Admitted(clock) <= Rate
    BY DEF RateKept
  <2> DEFINE W == {p \in admitted : p[1] > clock - Duration /\ p[1] <= clock}
  <2>1. clock \in Int /\ forgotAt \in Int /\ \A p \in admitted : p[1] \in Int
    BY BoundsAssumption, RateAssumption
    DEF RolesInv, TypeOK, ThrottleInv, Tokens, Time
  <2>2. W \subseteq Standing
    BY <2>1, RateAssumption DEF Standing
  <2>3. PICK f \in [Standing -> 1..Len(history)] :
          \A p, q \in Standing : f[p] = f[q] => p = q
    BY DEF ThrottleInv, Remembered
  <2> DEFINE g == [p \in W |-> f[p]]
  <2> HIDE DEF W
  <2>4. g \in Injection(W, 1..Len(history))
    BY <2>2, <2>3, Fun_IsInj
  <2>5. Len(history) \in Nat /\ Len(history) <= Rate
    BY LenProperties DEF ThrottleInv, ListInv
  <2>6. IsFiniteSet(1..Len(history)) /\ Cardinality(1..Len(history)) = Len(history)
    BY <2>5, FirstNaturals
  <2>7. Cardinality(W) <= Len(history) /\ IsFiniteSet(W)
    BY <2>4, <2>6, FS_Injection
  <2>8. Cardinality(W) \in Nat
    BY <2>7, FS_CardinalityType
  <2> QED BY <2>5, <2>7, <2>8, RateAssumption DEF Admitted, W
<1> QED BY <1>1, <1>2, RowsKeepTheirRoles, PTL

(* Whoever is refused was preceded by Rate admissions within the Duration:  *)
(* every entry a worker counts is an admission of its own.                  *)
THEOREM RefusalIsEarned == Spec => RefusedOnlyWhenFull
<1>1. Spec => []ThrottleInv
  BY ThrottleInit, ThrottleStep, RowsKeepTheirRoles, PTL DEF Spec
<1>2. ASSUME RolesInv, ThrottleInv, Next,
             NEW w \in Workers, pc[w] = "get", pc'[w] = "idle", answer' = 429
      PROVE  Admitted(clock) >= Rate
  <2>1. Exhausted(Recent(history, clock))
    <3>1. WorkersInv
      BY <1>2, Types DEF RolesInv
    <3>2. PICK v \in Workers : Works(v)
      BY <1>2 DEF Next, Works, BeginDeletion, DeleteAccount, Stops, Starts, Tick
    <3>3. v = w
      BY <1>2, <3>1, <3>2, OnlyItMoves DEF WorkersInv
    <3>4. pc[v] \in {"idle", "permit", "set", "find", "serve", "mail"} \/ ThrottleGet(v)
      BY <3>2, HandlersMove, DestroyIs
      DEF Works, Authenticate, Permit, ThrottleSet, Find, Destroys, FailsToDestroy
    <3>5. ThrottleGet(w)
      BY <1>2, <3>3, <3>4
    <3> QED BY <1>2, <3>5 DEF ThrottleGet, Answer, Goto
  <2>2. clock \in Int /\ ListInv(history, clock)
    BY <1>2, BoundsAssumption DEF RolesInv, TypeOK, ThrottleInv, Time
  <2>3. history \in Seq(Time) /\ Earned(history, admitted) /\ Sorted(history)
        /\ \A k \in 1..Len(history) : history[k] \in Int /\ history[k] <= clock
    BY <2>2, ElementOfSeq, BoundsAssumption DEF ListInv, Time
  <2>4. PICK n \in 0..Len(history) :
          /\ n = 0 \/ history[n] > clock - Duration
          /\ Len(Recent(history, clock)) = n
    BY <2>2, <2>3, RecentIs
  <2>5. Rate <= n /\ Rate \in Nat \ {0} /\ n \in 1..Len(history)
    BY <2>1, <2>4, RateAssumption DEF Exhausted
  <2>6. \A k \in 1..Rate : k \in 1..Len(history) /\ history[k] > clock - Duration
    <3> SUFFICES ASSUME NEW k \in 1..Rate
                 PROVE  k \in 1..Len(history) /\ history[k] > clock - Duration
      OBVIOUS
    <3>1. k \in 1..Len(history) /\ k <= n
      BY <2>5
    <3>2. history[n] <= history[k]
      BY <2>3, <2>5, <3>1 DEF Sorted
    <3> QED BY <2>2, <2>3, <2>4, <2>5, <3>1, <3>2, RateAssumption
  <2> DEFINE W == {p \in admitted : p[1] > clock - Duration /\ p[1] <= clock}
  <2>7. PICK g \in [1..Len(history) -> admitted] :
          /\ \A i, j \in 1..Len(history) : g[i] = g[j] => i = j
          /\ \A k \in 1..Len(history) : g[k][1] = history[k]
    BY <2>3 DEF Earned
  <2> DEFINE f == [k \in 1..Rate |-> g[k]]
  <2>8. \A k \in 1..Rate : g[k] \in W
    BY <2>3, <2>6, <2>7
  <2>9. IsFiniteSet(W) /\ Cardinality(W) = Admitted(clock)
    BY <1>2, <2>2, AdmittedIs DEF Admitted
  <2> HIDE DEF W
  <2>10. f \in Injection(1..Rate, W)
    BY <2>6, <2>7, <2>8, Fun_IsInj
  <2> HIDE DEF f
  <2>11. Cardinality(1..Rate) <= Cardinality(W)
    BY <2>9, <2>10, FS_Injection
  <2> QED BY <1>2, <2>2, <2>5, <2>9, <2>11, FirstNaturals, AdmittedIs
<1>3. RolesInv /\ ThrottleInv /\ [Next /\ UNCHANGED mix]_vars =>
        [(\E w \in Workers : pc[w] = "get" /\ pc'[w] = "idle" /\ answer' = 429)
           => Admitted(clock) >= Rate]_vars
  BY <1>2
<1> QED BY <1>1, <1>3, RowsKeepTheirRoles, PTL DEF Spec, RefusedOnlyWhenFull
=============================================================================
