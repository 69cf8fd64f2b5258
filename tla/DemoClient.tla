----------------------------- MODULE DemoClient ------------------------------
(***************************************************************************)
(* The demo page (apps/common/static/demo/index.html): its session, its     *)
(* fetch wrapper `api` with one retry through /api/auth/refresh/, and the   *)
(* enrollment list, with several calls in flight and answers in any order.  *)
(*                                                                         *)
(* An access token lives 15 minutes, so any use of one may find it expired; *)
(* what matters of a token is whose it is, and it is modelled as its owner. *)
(* `access`, `refresh` and `email` are both `state` and its copy in         *)
(* localStorage, which every assignment updates with it.                    *)
(***************************************************************************)
EXTENDS FiniteSets

CONSTANTS
    Seekers, Facilitators,   \* the accounts used in this browser
    Slots,                   \* bound: calls in flight at one time
    None                     \* null

Users == Seekers \cup Facilitators
Token == Users \cup {None}
Scopes == {"upcoming", "past"}

(* kind, which of api's fetches it is at, the token that fetch carries, who *)
(* was shown as logged in at the click, the scope asked for, the server's   *)
(* answer; crossed: history, the session changed hands since the click.     *)
Call == [kind : {"login", "load", "enroll"}, leg : {"first", "refresh", "retry"},
         token : Token, user : Users, scope : Scopes \cup {None},
         answer : {"none", "ok", "401", "failed"}, crossed : BOOLEAN]

ASSUME AccountsAssumption ==
    Seekers \cap Facilitators = {} /\ None \notin Users /\ None \notin Call

VARIABLES
    access, refresh, email, \* state and localStorage
    app,        \* whether the page shows the app or the login forms
    scope,      \* state.enrollScope
    list,       \* what #enrollmentsBody shows: whose enrollments of which scope
    calls,      \* the call in each slot, or None
    doubt,      \* history: since it last began alone, a load has overlapped
                \* another one or has failed
    mixed       \* history: the session changed hands under a token refresh

session == <<access, refresh, email, app>>
vars == <<session, scope, list, calls, doubt, mixed>>

InFlight == {c \in Slots : calls[c] # None}
Loading == {c \in InFlight : calls[c].kind = "load"}

-----------------------------------------------------------------------------
(* Faulty variants, one plausible bug each; not part of the specification.  *)

SetTokens_KeepsRefresh(a, r, e) ==
    /\ access' = a /\ app' = (a # None)
    /\ refresh' = IF r = None THEN refresh ELSE r
    /\ email' = IF e = None THEN email ELSE e

SetTokens_KeepsEmail(a, r, e) ==
    /\ access' = a /\ refresh' = r /\ app' = (a # None)
    /\ email' = IF email = None THEN e ELSE email

(* opts without isRetry *)
RetryLeg_Forgotten == "first"

(* render() shows the app and loads nothing. *)
Rendered_NoLoad(c, u) == [calls EXCEPT ![c] = None]

-----------------------------------------------------------------------------
Init ==
    /\ access = None /\ refresh = None /\ email = None /\ app = FALSE
    /\ scope = "upcoming" /\ list = None /\ calls = [c \in Slots |-> None]
    /\ doubt = FALSE /\ mixed = FALSE

NewCall(kind, token, user, s) ==
    [kind |-> kind, leg |-> "first", token |-> token, user |-> user, scope |-> s,
     answer |-> "none", crossed |-> kind = "enroll" /\ mixed]

(* setTokens and the render() it ends with. *)
SetTokens(a, r, e) ==
    /\ access' = a /\ refresh' = r /\ app' = (a # None)
    /\ email' = IF e = None THEN email ELSE e

(* The session changes hands while enrollments are in flight. *)
Crossed(cs) ==
    [c \in Slots |-> IF cs[c] # None /\ cs[c].kind = "enroll"
                    THEN [cs[c] EXCEPT !.crossed = TRUE] ELSE cs[c]]
Refreshing(cs) == \E c \in Slots : cs[c] # None /\ cs[c].leg = "refresh"

(* What the user does: submit the login form, ... *)
Login(c) ==
    /\ ~app /\ calls[c] = None
    /\ \A d \in InFlight : calls[d].kind # "login"     \* the button is busy
    /\ \E u \in Users : calls' = [calls EXCEPT ![c] = NewCall("login", None, u, None)]
    /\ UNCHANGED <<session, scope, list, doubt, mixed>>

(* ... click Enroll on an event, ... *)
Enroll(c) ==
    /\ app /\ calls[c] = None
    /\ calls' = [calls EXCEPT ![c] = NewCall("enroll", access, email, None)]
    /\ UNCHANGED <<session, scope, list, doubt, mixed>>

(* ... choose a scope, ... *)
Choose(c, s) ==
    /\ app /\ calls[c] = None
    /\ scope' = s
    /\ calls' = [calls EXCEPT ![c] = NewCall("load", access, email, s)]
    /\ doubt' = (Loading # {})
    /\ UNCHANGED <<session, list, mixed>>

(* ... log out, ... *)
Logout ==
    /\ app /\ SetTokens(None, None, None)
    /\ calls' = Crossed(calls) /\ mixed' = (mixed \/ Refreshing(calls))
    /\ UNCHANGED <<scope, list, doubt>>

(* ... or reload the page, which forgets the calls in flight and, with a    *)
(* token in the storage, loads the list anew.                               *)
Reload(c) ==
    /\ calls[c] = None
    /\ calls' = [d \in Slots |-> IF d = c /\ access # None
                                THEN NewCall("load", access, email, "upcoming") ELSE None]
    /\ app' = (access # None)
    /\ scope' = "upcoming" /\ list' = None /\ doubt' = FALSE
    /\ UNCHANGED <<access, refresh, email, mixed>>

-----------------------------------------------------------------------------
(* The server answers the fetch a call is at.  `user` is who submits the    *)
(* login form; an enrollment is made for the owner of the token.            *)
Serve(c) ==
    /\ calls[c] # None /\ calls[c].answer = "none"
    /\ LET k == calls[c]
           Answered(a) == calls' = [calls EXCEPT ![c].answer = a]
       IN \/ k.kind = "login" /\ k.leg # "refresh" /\ Answered("ok")
          \/ k.kind # "login" /\ k.leg # "refresh" /\ Answered("401")
          \/ k.leg = "refresh" /\ k.token # None /\ Answered("ok")
          \/ k.kind # "login" /\ k.leg # "refresh" /\ k.token \in Seekers /\ Answered("ok")
          \/ Answered("failed")
    /\ UNCHANGED <<session, scope, list, doubt, mixed>>

(* The connection fails, before or after the server has acted. *)
Lose(c) ==
    /\ calls[c] # None /\ calls[c].answer # "failed"
    /\ calls' = [calls EXCEPT ![c].answer = "failed"]
    /\ UNCHANGED <<session, scope, list, doubt, mixed>>

Ended(c) == calls' = [calls EXCEPT ![c] = None]
Doubted(c) == doubt' = (doubt \/ calls[c].kind = "load")

(* api: a first 401 goes to /api/auth/refresh/ with the refresh token of    *)
(* the moment, ...                                                          *)
Refresh(c) ==
    /\ calls[c] # None /\ calls[c].leg = "first" /\ calls[c].answer = "401" /\ refresh # None
    /\ calls' = [calls EXCEPT ![c].leg = "refresh", ![c].token = refresh, ![c].answer = "none"]
    /\ UNCHANGED <<session, scope, list, doubt, mixed>>

(* ... whose answer becomes the access token of whatever session there is   *)
(* now, and the request is sent again, the last time, ...                   *)
RetryLeg == "retry"

Retry(c) ==
    /\ calls[c] # None /\ calls[c].leg = "refresh" /\ calls[c].answer = "ok"
    /\ access' = calls[c].token
    /\ calls' = [calls EXCEPT ![c].leg = RetryLeg, ![c].token = access', ![c].answer = "none"]
    /\ UNCHANGED <<refresh, email, app, scope, list, doubt, mixed>>

(* ... or which logs out whoever is logged in now. *)
GiveUp(c) ==
    /\ calls[c] # None /\ calls[c].leg = "refresh" /\ calls[c].answer = "failed"
    /\ SetTokens(None, None, None)
    /\ LET rest == [calls EXCEPT ![c] = None]
       IN calls' = Crossed(rest) /\ mixed' = (mixed \/ Refreshing(rest))
    /\ Doubted(c)
    /\ UNCHANGED <<scope, list>>

(* Any other failure ends the call; on the retry, a 401 as well. *)
Fail(c) ==
    /\ calls[c] # None /\ calls[c].leg # "refresh"
    /\ \/ calls[c].answer = "failed"
       \/ calls[c].answer = "401" /\ (calls[c].leg = "retry" \/ refresh = None)
    /\ Ended(c) /\ Doubted(c)
    /\ UNCHANGED <<session, scope, list, mixed>>

Succeeds(c, kind) ==
    calls[c] # None /\ calls[c].leg # "refresh" /\ calls[c].answer = "ok" /\ calls[c].kind = kind

(* render() loads the lists of whoever has logged in. *)
Rendered(c, u) == [calls EXCEPT ![c] = NewCall("load", u, u, scope)]

LoggedIn(c) ==
    /\ Succeeds(c, "login")
    /\ SetTokens(calls[c].user, calls[c].user, calls[c].user)
    /\ calls' = Crossed(Rendered(c, calls[c].user))
    /\ mixed' = Refreshing(calls')
    /\ doubt' = (Loading # {})
    /\ UNCHANGED <<scope, list>>

Enrolled(c) ==
    /\ Succeeds(c, "enroll")
    /\ calls' = [calls EXCEPT ![c] = NewCall("load", access, email, scope)]
    /\ doubt' = (Loading # {})
    /\ UNCHANGED <<session, scope, list, mixed>>

Loaded(c) ==
    /\ Succeeds(c, "load")
    /\ list' = [owner |-> calls[c].token, scope |-> calls[c].scope]
    /\ Ended(c) /\ UNCHANGED <<session, scope, doubt, mixed>>

Arrive(c) ==
    Refresh(c) \/ Retry(c) \/ GiveUp(c) \/ Fail(c) \/ LoggedIn(c) \/ Enrolled(c) \/ Loaded(c)

Next ==
    \/ Logout
    \/ \E c \in Slots :
        \/ Login(c) \/ Enroll(c) \/ \E s \in Scopes : Choose(c, s)
        \/ Reload(c)
        \/ Serve(c) \/ Lose(c) \/ Arrive(c)

(* Every fetch is answered or fails, and its callback runs; users do as     *)
(* they like.                                                               *)
Fairness == \A c \in Slots : WF_vars(Serve(c) \/ Lose(c)) /\ WF_vars(Arrive(c))

Spec == Init /\ [][Next]_vars /\ Fairness

-----------------------------------------------------------------------------
TypeOK ==
    /\ {access, refresh, email} \subseteq Token /\ app \in BOOLEAN /\ scope \in Scopes
    /\ list \in [owner : Users, scope : Scopes] \cup {None}
    /\ calls \in [Slots -> Call \cup {None}]
    /\ {doubt, mixed} \subseteq BOOLEAN

(* SessionWhole: the access token, the refresh token and the name on the    *)
(* page belong to one user, and the app is shown exactly while there is a   *)
(* token, unless the session changed hands (logout, forced logout, another  *)
(* login) while a token refresh was in flight.                              *)
SessionWhole ==
    ~mixed => /\ access = refresh /\ access \in {None, email}
              /\ app = (access # None)

(* Why it works.  Whoever uses the page has a name; while nobody's session  *)
(* is mixed, a refresh under way carries the session's refresh token, and   *)
(* an enrollment nothing has crossed carries the token of who clicked.      *)
CallInv(k) ==
    /\ k.kind = "load" => k.scope \in Scopes
    /\ k.kind # "login" \/ k.leg = "refresh" => email # None
    /\ k.answer = "ok" /\ k.kind # "login" /\ k.leg # "refresh" => k.token \in Seekers
    /\ k.leg = "refresh" /\ ~mixed => k.token = refresh
    /\ k.kind = "enroll" /\ ~k.crossed => ~mixed /\ refresh = k.user /\ k.token = k.user

CallsInv ==
    /\ email = None => access = None /\ refresh = None /\ ~app
    /\ \A c \in InFlight : CallInv(calls[c])

(* A list that is not in doubt is current, or the one load in flight will   *)
(* make it so.                                                              *)
ListInv ==
    app /\ ~doubt /\ ~mixed =>
        /\ Loading = {} /\ list # None => list = [owner |-> email, scope |-> scope]
        /\ \A c \in Loading : Loading = {c} /\ calls[c].token = email /\ calls[c].scope = scope

(* SessionInv: the types and these, which together every step keeps.        *)
SessionInv == TypeOK /\ SessionWhole /\ CallsInv /\ ListInv

(* ActsForItsUser: an enrollment is made for the user who clicked, retries  *)
(* included, unless the session changed hands while the call was in flight  *)
(* or was already mixed when it was made.                                   *)
ActsForItsUser ==
    [][\A c \in Slots :
        LET k == calls[c]
        IN /\ k # None /\ calls'[c] # None
           /\ k.kind = "enroll" /\ k.answer = "none" /\ calls'[c].answer = "ok"
           => k.leg = "refresh" \/ k.token = k.user \/ k.crossed]_vars

(* ListIsCurrent: when no load is in flight, the list on the page is that   *)
(* of the user and the scope it says it is, unless two loads overlapped,    *)
(* the latest one failed (a facilitator's is always refused, and leaves the *)
(* previous user's list where it is), or the session is mixed.              *)
ListIsCurrent ==
    app /\ Loading = {} /\ list # None /\ ~doubt /\ ~mixed
    => list = [owner |-> email, scope |-> scope]

(* EveryCallEnds: whatever is answered, lost or expired, a call comes to an *)
(* end: it never goes round between 401 and refresh.                        *)
EveryCallEnds == \A c \in Slots : calls[c] # None ~> calls[c] = None
=============================================================================
