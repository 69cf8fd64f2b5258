--------------------------- MODULE DemoClientProofs --------------------------
(* What TLAPS proves of DemoClient: its session, who an enrollment is made  *)
(* for and what the list shows, for any accounts and any number of calls in *)
(* flight.                                                                  *)
EXTENDS DemoClient, TLAPS

(* The invariant, slot by slot: what a step has to show of the call it      *)
(* leaves in a slot, and of the page beside the calls.                      *)
SlotInv(c) == calls[c] \in Call \cup {None} /\ (calls[c] # None => CallInv(calls[c]))

PageInv ==
    /\ {access, refresh, email} \subseteq Token /\ app \in BOOLEAN /\ scope \in Scopes
    /\ list \in [owner : Users, scope : Scopes] \cup {None}
    /\ {doubt, mixed} \subseteq BOOLEAN
    /\ email = None => access = None /\ refresh = None /\ ~app

SlotsInv == DOMAIN calls = Slots /\ calls = [c \in Slots |-> calls[c]] /\ \A c \in Slots : SlotInv(c)

LEMMA Split == SessionInv <=> PageInv /\ SlotsInv /\ SessionWhole /\ ListInv
<1>1. calls \in [Slots -> Call \cup {None}] /\ (\A c \in InFlight : CallInv(calls[c])) <=> SlotsInv
  BY DEF SlotsInv, SlotInv, InFlight
<1> QED BY <1>1 DEF SessionInv, TypeOK, CallsInv, PageInv

LEMMA SplitNext == SessionInv' <=> PageInv' /\ SlotsInv' /\ SessionWhole' /\ ListInv'
<1>1. (calls \in [Slots -> Call \cup {None}] /\ (\A c \in InFlight : CallInv(calls[c])) <=> SlotsInv)'
  BY DEF SlotsInv, SlotInv, InFlight
<1> QED BY <1>1 DEF SessionInv, TypeOK, CallsInv, PageInv

(* A page just opened has no session, no list and no calls. *)
LEMMA InitSession == Init => SessionInv
<1> SUFFICES ASSUME Init PROVE SessionInv
  OBVIOUS
<1>1. PageInv /\ SlotsInv /\ SessionWhole
  BY DEF Init, PageInv, SlotsInv, SlotInv, SessionWhole, Token, Scopes
<1>2. ListInv
  BY DEF Init, ListInv
<1> QED BY <1>1, <1>2, Split

(* One call moves and the session stays: the other slots keep their part,   *)
(* and the lists stay right if the call is of the same kind and, as a load, *)
(* has the same scope and user.                                             *)
LEMMA CallMoves ==
    ASSUME SessionInv, UNCHANGED <<session, scope, list, doubt, mixed>>,
           NEW c \in Slots, NEW k \in Call, calls[c] # None,
           calls' = [calls EXCEPT ![c] = k],
           k.kind = calls[c].kind, k.scope = calls[c].scope,
           k.token = calls[c].token \/ k.token = refresh,
           CallInv(k)
    PROVE  SessionInv'
<1>1. PageInv /\ SlotsInv /\ SessionWhole /\ ListInv
  BY Split
<1>2. PageInv' /\ SessionWhole'
  BY <1>1 DEF PageInv, SessionWhole, session
<1>3. SlotsInv'
  BY <1>1, AccountsAssumption DEF SlotsInv, SlotInv, CallInv, session
<1>4. k # None /\ DOMAIN calls = Slots
  BY <1>1, AccountsAssumption DEF SlotsInv
<1>5. Loading' = Loading
  BY <1>1, <1>4 DEF Loading, InFlight
<1>6. ListInv'
  <2> SUFFICES ASSUME app, ~doubt, ~mixed, NEW d \in Loading
               PROVE  Loading = {d} /\ calls'[d].token = email /\ calls'[d].scope = scope
    BY <1>1, <1>5 DEF ListInv, session
  <2>1. Loading = {d} /\ calls[d].token = email /\ calls[d].scope = scope
    BY <1>1 DEF ListInv
  <2>2. refresh = email
    BY <1>1 DEF SessionWhole, PageInv
  <2> QED BY <1>1, <1>4, <2>1, <2>2 DEF Loading, InFlight
<1> QED BY <1>2, <1>3, <1>6, SplitNext

(* The user's own actions. *)
LEMMA LoginKeeps == ASSUME SessionInv, NEW c \in Slots, Login(c) PROVE SessionInv'
<1>1. PageInv /\ SlotsInv /\ SessionWhole /\ ListInv
  BY Split
<1>2. PICK u \in Users : calls' = [calls EXCEPT ![c] = NewCall("login", None, u, None)]
  BY DEF Login
<1>3. calls[c] = None /\ UNCHANGED <<session, scope, list, doubt, mixed>>
  BY DEF Login
<1>4. NewCall("login", None, u, None) \in Call
  BY DEF NewCall, Call, Token
<1>5. SlotsInv'
  BY <1>1, <1>2, <1>3, <1>4 DEF SlotsInv, SlotInv, CallInv, NewCall, session
<1>6. Loading' = Loading
  BY <1>1, <1>2, <1>3 DEF Loading, InFlight, NewCall, SlotsInv
<1>7. ListInv'
  BY <1>1, <1>2, <1>3, <1>6 DEF ListInv, session, SlotsInv, NewCall, Loading, InFlight
<1>8. PageInv' /\ SessionWhole'
  BY <1>1, <1>3 DEF PageInv, SessionWhole, session
<1> QED BY <1>5, <1>7, <1>8, SplitNext

LEMMA EnrollKeeps == ASSUME SessionInv, NEW c \in Slots, Enroll(c) PROVE SessionInv'
<1>1. PageInv /\ SlotsInv /\ SessionWhole /\ ListInv
  BY Split
<1> DEFINE k == NewCall("enroll", access, email, None)
<1>2. /\ app /\ calls[c] = None /\ calls' = [calls EXCEPT ![c] = k]
      /\ UNCHANGED <<session, scope, list, doubt, mixed>>
  BY DEF Enroll
<1>3. k \in Call /\ CallInv(k)
  BY <1>1, <1>2 DEF NewCall, Call, Token, PageInv, SessionWhole, CallInv
<1>4. SlotsInv'
  BY <1>1, <1>2, <1>3 DEF SlotsInv, SlotInv, CallInv, session
<1>5. k.kind = "enroll"
  BY DEF NewCall
<1>6. Loading' = Loading /\ \A d \in Loading : calls'[d] = calls[d]
  BY <1>1, <1>2, <1>5 DEF Loading, InFlight, SlotsInv
<1>7. ListInv'
  BY <1>1, <1>2, <1>6 DEF ListInv, session
<1>8. PageInv' /\ SessionWhole'
  BY <1>1, <1>2 DEF PageInv, SessionWhole, session
<1> QED BY <1>4, <1>7, <1>8, SplitNext

(* A load that starts for whoever is on the page. *)
LEMMA LoadStarts ==
    ASSUME SessionInv, NEW c \in Slots, app \/ email # None, c \notin Loading,
           scope' \in Scopes, UNCHANGED <<session, list, mixed>>,
           calls' = [calls EXCEPT ![c] = NewCall("load", access, email, scope')],
           doubt' = (Loading # {})
    PROVE  SessionInv'
<1>1. PageInv /\ SlotsInv /\ SessionWhole /\ ListInv
  BY Split
<1> DEFINE k == NewCall("load", access, email, scope')
<1>2. k \in Call /\ CallInv(k) /\ k.kind = "load"
  BY <1>1 DEF NewCall, Call, Token, PageInv, CallInv
<1>3. SlotsInv'
  BY <1>1, <1>2 DEF SlotsInv, SlotInv, CallInv, session
<1>4. k # None /\ k.token = access /\ k.scope = scope'
  BY <1>2, AccountsAssumption DEF NewCall
<1>5. Loading' = Loading \cup {c} /\ calls'[c] = k
  BY <1>1, <1>2, <1>4 DEF Loading, InFlight, SlotsInv
<1>6. ListInv'
  BY <1>1, <1>4, <1>5 DEF ListInv, SessionWhole, PageInv, session
<1>7. PageInv' /\ SessionWhole'
  BY <1>1 DEF PageInv, SessionWhole, session
<1> QED BY <1>3, <1>6, <1>7, SplitNext

LEMMA ChooseKeeps ==
    ASSUME SessionInv, NEW c \in Slots, NEW s \in Scopes, Choose(c, s)
    PROVE  SessionInv'
<1>1. c \notin Loading
  BY DEF Choose, Loading, InFlight
<1> QED BY <1>1, LoadStarts DEF Choose

LEMMA EnrolledKeeps == ASSUME SessionInv, NEW c \in Slots, Enrolled(c) PROVE SessionInv'
<1>1. c \notin Loading
  BY DEF Enrolled, Succeeds, Loading, InFlight
<1>2. email # None
  BY Split DEF Enrolled, Succeeds, SlotsInv, SlotInv, CallInv
<1>3. scope' \in Scopes
  BY Split DEF Enrolled, PageInv
<1> QED BY <1>1, <1>2, <1>3, LoadStarts DEF Enrolled

(* The session changes hands: no enrollment in flight is trusted any more,  *)
(* and a refresh in flight makes the session mixed.                         *)
LEMMA CrossedCalls ==
    ASSUME NEW cs \in [Slots -> Call \cup {None}], NEW c \in Slots
    PROVE  /\ Crossed(cs)[c] \in Call \cup {None}
           /\ cs[c] = None <=> Crossed(cs)[c] = None
           /\ cs[c] # None => /\ \A f \in {"kind", "leg", "token", "user", "scope", "answer"} :
                                     Crossed(cs)[c][f] = cs[c][f]
                              /\ cs[c].kind = "enroll" => Crossed(cs)[c].crossed
<1>1. CASE cs[c] # None /\ cs[c].kind = "enroll"
  <2>1. Crossed(cs)[c] = [cs[c] EXCEPT !.crossed = TRUE]
    BY <1>1 DEF Crossed
  <2>2. cs[c] \in Call
    BY <1>1
  <2>3. Crossed(cs)[c] \in Call
    BY <2>1, <2>2 DEF Call
  <2> QED BY <1>1, <2>1, <2>2, <2>3, AccountsAssumption DEF Call
<1>2. CASE ~(cs[c] # None /\ cs[c].kind = "enroll")
  BY <1>2 DEF Crossed
<1> QED BY <1>1, <1>2

LEMMA SessionEnds ==
    ASSUME SessionInv, SetTokens(None, None, None), UNCHANGED <<scope, list>>,
           doubt' \in BOOLEAN,
           NEW rest \in [Slots -> Call \cup {None}],
           \A c \in Slots : rest[c] \in {calls[c], None},
           calls' = Crossed(rest), mixed' = (mixed \/ Refreshing(rest))
    PROVE  SessionInv'
<1>1. PageInv /\ SlotsInv
  BY Split
<1>2. access' = None /\ refresh' = None /\ app' = FALSE /\ email' = email
  BY DEF SetTokens
<1>3. PageInv' /\ SessionWhole' /\ ListInv'
  BY <1>1, <1>2 DEF PageInv, SessionWhole, ListInv, Token
<1>4. ASSUME NEW c \in Slots PROVE SlotInv(c)'
  <2>1. /\ calls'[c] \in Call \cup {None}
        /\ rest[c] = None <=> calls'[c] = None
        /\ rest[c] # None => /\ \A f \in {"kind", "leg", "token", "user", "scope", "answer"} :
                                     calls'[c][f] = rest[c][f]
                             /\ rest[c].kind = "enroll" => calls'[c].crossed
    BY CrossedCalls
  <2>2. CASE rest[c] = None
    BY <2>1, <2>2 DEF SlotInv
  <2>3. CASE rest[c] # None
    <3>1. rest[c] = calls[c] /\ CallInv(calls[c])
      BY <1>1, <2>3 DEF SlotsInv, SlotInv
    <3>2. rest[c].leg = "refresh" => mixed'
      BY <2>3 DEF Refreshing
    <3>3. CallInv(calls[c])'
      BY <1>2, <2>1, <2>3, <3>1, <3>2 DEF CallInv
    <3> QED BY <2>1, <3>3 DEF SlotInv
  <2> QED BY <2>2, <2>3
<1>5. SlotsInv'
  BY <1>4 DEF SlotsInv, Crossed
<1> QED BY <1>3, <1>5, SplitNext

LEMMA LogoutKeeps == ASSUME SessionInv, Logout PROVE SessionInv'
<1>1. calls \in [Slots -> Call \cup {None}] /\ doubt' \in BOOLEAN
  BY DEF SessionInv, TypeOK, Logout
<1> QED BY <1>1, SessionEnds DEF Logout

LEMMA GiveUpKeeps == ASSUME SessionInv, NEW c \in Slots, GiveUp(c) PROVE SessionInv'
<1> DEFINE rest == [calls EXCEPT ![c] = None]
<1>1. calls \in [Slots -> Call \cup {None}] /\ doubt' \in BOOLEAN
  BY DEF SessionInv, TypeOK, GiveUp, Doubted
<1>2. rest \in [Slots -> Call \cup {None}] /\ \A d \in Slots : rest[d] \in {calls[d], None}
  BY <1>1
<1>3. calls' = Crossed(rest) /\ mixed' = (mixed \/ Refreshing(rest))
  BY DEF GiveUp
<1> HIDE DEF rest
<1> QED BY <1>1, <1>2, <1>3, SessionEnds DEF GiveUp

LEMMA LoggedInKeeps == ASSUME SessionInv, NEW c \in Slots, LoggedIn(c) PROVE SessionInv'
<1>1. PageInv /\ SlotsInv
  BY Split
<1> DEFINE u == calls[c].user  k == NewCall("load", u, u, scope)  cs == [calls EXCEPT ![c] = k]
<1>2. /\ calls[c] # None /\ calls[c].kind = "login"
      /\ calls' = Crossed(cs) /\ mixed' = Refreshing(calls') /\ doubt' = (Loading # {})
      /\ UNCHANGED <<scope, list>>
  BY DEF LoggedIn, Succeeds, Rendered
<1>3. u \in Users /\ u # None
  BY <1>1, <1>2, AccountsAssumption DEF SlotsInv, SlotInv, Call
<1>4. access' = u /\ refresh' = u /\ email' = u /\ app' = TRUE
  BY <1>3 DEF LoggedIn, SetTokens
<1>5. k \in Call /\ k.kind = "load" /\ k.leg = "first" /\ k.answer = "none" /\ k.token = u
      /\ k.scope = scope
  BY <1>1, <1>3 DEF NewCall, Call, Token, PageInv
<1>6. k # None /\ cs \in [Slots -> Call \cup {None}]
  BY <1>1, <1>5, AccountsAssumption DEF SlotsInv, SlotInv
<1> HIDE DEF k
<1>7. cs[c] = k /\ \A d \in Slots \ {c} : cs[d] = calls[d]
  BY <1>1 DEF SlotsInv
<1> HIDE DEF cs
<1>8. \A d \in Slots :
        /\ calls'[d] \in Call \cup {None}
        /\ cs[d] = None <=> calls'[d] = None
        /\ cs[d] # None => /\ \A f \in {"kind", "leg", "token", "user", "scope", "answer"} :
                                     calls'[d][f] = cs[d][f]
                           /\ cs[d].kind = "enroll" => calls'[d].crossed
  BY <1>2, <1>6, CrossedCalls
<1>9. ASSUME NEW d \in Slots, calls'[d] # None PROVE CallInv(calls[d])'
  <2>1. calls'[d].leg = "refresh" => mixed'
    BY <1>2, <1>9 DEF Refreshing
  <2>2. CASE d = c
    <3>1. /\ calls'[c].kind = "load" /\ calls'[c].leg = "first" /\ calls'[c].answer = "none"
          /\ calls'[c].scope = scope /\ scope' = scope
      BY <1>2, <1>5, <1>6, <1>7, <1>8
    <3> QED BY <1>1, <1>3, <1>4, <2>2, <3>1 DEF CallInv, PageInv
  <2>3. CASE d # c
    <3>1. calls[d] # None /\ CallInv(calls[d]) /\ cs[d] = calls[d]
      BY <1>1, <1>7, <1>8, <1>9, <2>3 DEF SlotsInv, SlotInv
    <3> QED BY <1>3, <1>4, <1>8, <1>9, <2>1, <3>1 DEF CallInv
  <2> QED BY <2>2, <2>3
<1>10. SlotsInv'
  BY <1>2, <1>8, <1>9 DEF SlotsInv, SlotInv, Crossed
<1>11. mixed' \in BOOLEAN /\ doubt' \in BOOLEAN
  BY <1>2 DEF Refreshing
<1>12. PageInv' /\ SessionWhole'
  BY <1>1, <1>2, <1>3, <1>4, <1>11 DEF PageInv, SessionWhole, Token
<1>13. Loading' = Loading \cup {c}
  BY <1>2, <1>5, <1>6, <1>7, <1>8 DEF Loading, InFlight
<1>14. calls'[c].token = u /\ calls'[c].scope = scope
  BY <1>5, <1>6, <1>7, <1>8
<1>15. ~doubt' => Loading' = {c}
  BY <1>2, <1>13
<1>16. ListInv'
  BY <1>2, <1>4, <1>14, <1>15 DEF ListInv
<1> QED BY <1>10, <1>12, <1>16, SplitNext

(* A reloaded page knows its tokens and nothing else. *)
LEMMA ReloadKeeps == ASSUME SessionInv, NEW c \in Slots, Reload(c) PROVE SessionInv'
<1>1. PageInv /\ SlotsInv /\ SessionWhole
  BY Split
<1> DEFINE k == NewCall("load", access, email, "upcoming")
<1>2. /\ calls' = [d \in Slots |-> IF d = c /\ access # None THEN k ELSE None]
      /\ app' = (access # None) /\ scope' = "upcoming" /\ list' = None /\ doubt' = FALSE
      /\ UNCHANGED <<access, refresh, email, mixed>>
  BY DEF Reload
<1>3. access # None => k \in Call /\ CallInv(k)
  BY <1>1 DEF NewCall, Call, Token, Scopes, PageInv, CallInv
<1>4. PageInv' /\ SessionWhole'
  BY <1>1, <1>2 DEF PageInv, SessionWhole, Scopes
<1>5. SlotsInv'
  <2>1. calls' = [d \in Slots |-> calls'[d]] /\ DOMAIN calls' = Slots
    BY <1>2
  <2>2. ASSUME NEW d \in Slots PROVE SlotInv(d)'
    <3>1. CASE d = c /\ access # None
      BY <1>2, <1>3, <3>1 DEF SlotInv, CallInv
    <3>2. CASE ~(d = c /\ access # None)
      BY <1>2, <3>2 DEF SlotInv
    <3> QED BY <3>1, <3>2
  <2> QED BY <2>1, <2>2 DEF SlotsInv
<1>6. ListInv'
  <2> SUFFICES ASSUME access # None, ~mixed, NEW d \in Loading'
               PROVE  Loading' = {d} /\ calls'[d].token = email /\ calls'[d].scope = "upcoming"
    BY <1>2 DEF ListInv
  <2>1. Loading' \subseteq {c} /\ calls'[c] = k
    BY <1>2 DEF Loading, InFlight
  <2> QED BY <1>1, <2>1 DEF NewCall, SessionWhole
<1> QED BY <1>4, <1>5, <1>6, SplitNext

(* The server's answers, and api's callbacks. *)
LEMMA AnswerKeeps ==
    ASSUME SessionInv, NEW c \in Slots, Serve(c) \/ Lose(c)
    PROVE  SessionInv'
<1>1. PageInv /\ SlotsInv
  BY Split
<1>2. PICK a \in {"ok", "401", "failed"} :
        /\ calls[c] # None /\ calls' = [calls EXCEPT ![c].answer = a]
        /\ a = "ok" /\ calls[c].kind # "login" /\ calls[c].leg # "refresh"
           => calls[c].token \in Seekers
        /\ UNCHANGED <<session, scope, list, doubt, mixed>>
  BY DEF Serve, Lose
<1> DEFINE k == [calls[c] EXCEPT !.answer = a]
<1>3. calls[c] \in Call /\ CallInv(calls[c]) /\ calls' = [calls EXCEPT ![c] = k]
  BY <1>1, <1>2 DEF SlotsInv, SlotInv
<1>4. k \in Call /\ k.kind = calls[c].kind /\ k.scope = calls[c].scope /\ k.token = calls[c].token
  BY <1>2, <1>3 DEF Call
<1>5. CallInv(k)
  BY <1>2, <1>3 DEF CallInv, Call
<1> HIDE DEF k
<1> QED BY <1>2, <1>3, <1>4, <1>5, CallMoves

LEMMA RefreshKeeps == ASSUME SessionInv, NEW c \in Slots, Refresh(c) PROVE SessionInv'
<1>1. PageInv /\ SlotsInv
  BY Split
<1> DEFINE k == [calls[c] EXCEPT !.leg = "refresh", !.token = refresh, !.answer = "none"]
<1>2. /\ calls[c] # None /\ refresh # None
      /\ UNCHANGED <<session, scope, list, doubt, mixed>>
  BY DEF Refresh
<1>3. calls[c] \in Call /\ CallInv(calls[c]) /\ calls' = [calls EXCEPT ![c] = k]
  BY <1>1, <1>2 DEF SlotsInv, SlotInv, Refresh
<1>4. k \in Call /\ k.kind = calls[c].kind /\ k.scope = calls[c].scope /\ k.token = refresh
  BY <1>1, <1>3 DEF Call, PageInv
<1>5. CallInv(k)
  BY <1>1, <1>2, <1>3 DEF CallInv, Call, PageInv
<1> HIDE DEF k
<1> QED BY <1>2, <1>3, <1>4, <1>5, CallMoves

(* The refreshed token is the session's own, unless the session is mixed.   *)
LEMMA RetryKeeps == ASSUME SessionInv, NEW c \in Slots, Retry(c) PROVE SessionInv'
<1>1. PageInv /\ SlotsInv /\ SessionWhole /\ ListInv
  BY Split
<1>2. /\ calls[c] # None /\ calls[c].leg = "refresh" /\ access' = calls[c].token
      /\ UNCHANGED <<refresh, email, app, scope, list, doubt, mixed>>
  BY DEF Retry
<1>3. calls[c] \in Call /\ CallInv(calls[c])
  BY <1>1, <1>2 DEF SlotsInv, SlotInv
<1>4. PICK k : k = [calls[c] EXCEPT !.leg = RetryLeg, !.token = access', !.answer = "none"]
  OBVIOUS
<1>5. calls' = [calls EXCEPT ![c] = k]
  BY <1>1, <1>4 DEF SlotsInv, Retry
<1>6. k \in Call /\ k.kind = calls[c].kind /\ k.scope = calls[c].scope
      /\ k.token = calls[c].token /\ k.leg = "retry" /\ k.answer = "none"
      /\ k.user = calls[c].user /\ k.crossed = calls[c].crossed
  BY <1>2, <1>3, <1>4 DEF Call, RetryLeg
<1>7. email # None /\ (~mixed => access' = access)
  BY <1>1, <1>2, <1>3 DEF CallInv, SessionWhole
<1>8. CallInv(k)'
  BY <1>2, <1>3, <1>6, <1>7 DEF CallInv
<1>9. k # None
  BY <1>6, AccountsAssumption
<1>10. SlotsInv'
  BY <1>1, <1>2, <1>5, <1>6, <1>8 DEF SlotsInv, SlotInv, CallInv
<1>11. PageInv' /\ SessionWhole'
  <2>1. access' \in Token
    BY <1>2, <1>3 DEF Call
  <2> QED BY <1>1, <1>2, <1>7, <2>1 DEF PageInv, SessionWhole
<1>12. Loading' = Loading
  BY <1>1, <1>2, <1>5, <1>6, <1>9 DEF Loading, InFlight, SlotsInv
<1>13. \A d \in Loading : calls'[d].token = calls[d].token /\ calls'[d].scope = calls[d].scope
  BY <1>1, <1>5, <1>6 DEF Loading, InFlight, SlotsInv
<1>14. ListInv'
  BY <1>1, <1>2, <1>12, <1>13 DEF ListInv
<1> QED BY <1>10, <1>11, <1>14, SplitNext

(* A call that ends leaves its slot empty; a load that fails leaves doubt. *)
LEMMA EndKeeps ==
    ASSUME SessionInv, NEW c \in Slots, Fail(c) \/ Loaded(c)
    PROVE  SessionInv'
<1>1. PageInv /\ SlotsInv /\ SessionWhole /\ ListInv
  BY Split
<1>2. calls[c] # None /\ calls' = [calls EXCEPT ![c] = None] /\ UNCHANGED <<session, scope, mixed>>
  BY DEF Fail, Loaded, Ended, Succeeds
<1>3. SlotsInv'
  BY <1>1, <1>2 DEF SlotsInv, SlotInv, CallInv, session
<1>4. Loading' = Loading \ {c} /\ \A d \in Loading \ {c} : calls'[d] = calls[d]
  BY <1>1, <1>2 DEF Loading, InFlight, SlotsInv
<1>5. CASE Fail(c)
  <2>1. list' = list /\ doubt' = (doubt \/ c \in Loading)
    BY <1>2, <1>5 DEF Fail, Doubted, Loading, InFlight
  <2>2. PageInv' /\ SessionWhole'
    BY <1>1, <1>2, <2>1 DEF PageInv, SessionWhole, session
  <2>3. ListInv'
    <3>1. CASE c \in Loading
      BY <2>1, <3>1 DEF ListInv
    <3>2. CASE c \notin Loading
      BY <1>1, <1>2, <1>4, <2>1, <3>2 DEF ListInv, session
    <3> QED BY <3>1, <3>2
  <2> QED BY <1>3, <2>2, <2>3, SplitNext
<1>6. CASE Loaded(c)
  <2>1. /\ list' = [owner |-> calls[c].token, scope |-> calls[c].scope] /\ doubt' = doubt
        /\ calls[c].kind = "load" /\ calls[c].leg # "refresh" /\ calls[c].answer = "ok"
    BY <1>6 DEF Loaded, Succeeds
  <2>2. c \in Loading
    BY <1>2, <2>1 DEF Loading, InFlight
  <2>3. calls[c] \in Call /\ calls[c].token \in Seekers
    BY <1>1, <1>2, <2>1 DEF SlotsInv, SlotInv, CallInv
  <2>4. calls[c].scope \in Scopes
    BY <1>1, <1>2, <2>1 DEF SlotsInv, SlotInv, CallInv
  <2>5. PageInv' /\ SessionWhole'
    BY <1>1, <1>2, <2>1, <2>3, <2>4 DEF PageInv, SessionWhole, session, Users
  <2>6. ListInv'
    BY <1>1, <1>2, <1>4, <2>1, <2>2 DEF ListInv, session
  <2> QED BY <1>3, <2>5, <2>6, SplitNext
<1> QED BY <1>5, <1>6

LEMMA SessionStep == SessionInv /\ [Next]_vars => SessionInv'
<1> SUFFICES ASSUME SessionInv, [Next]_vars PROVE SessionInv'
  OBVIOUS
<1>1. CASE UNCHANGED vars
  BY <1>1 DEF vars, session, SessionInv, TypeOK, SessionWhole, CallsInv, CallInv, ListInv,
              InFlight, Loading
<1>2. CASE \E c \in Slots : Arrive(c)
  BY <1>2, RefreshKeeps, RetryKeeps, GiveUpKeeps, EndKeeps, LoggedInKeeps, EnrolledKeeps
     DEF Arrive
<1> QED BY <1>1, <1>2, LogoutKeeps, ReloadKeeps, LoginKeeps, EnrollKeeps, ChooseKeeps,
           AnswerKeeps DEF Next

(* The tokens and the name on the page belong to one user and the app is    *)
(* shown exactly while there is a token, unless the session changed hands   *)
(* under a refresh; for any accounts, and any number of calls in flight.    *)
THEOREM SessionInvariant == Spec => []SessionInv
BY InitSession, SessionStep, PTL DEF Spec

(* An enrollment is made for the user who clicked, retries included, unless *)
(* the session changed hands meanwhile or was mixed already.                *)
THEOREM ActsForWhoClicked == Spec => ActsForItsUser
<1>1. SessionInv => \A c \in Slots :
         calls[c] # None /\ calls[c].kind = "enroll"
         => calls[c].token = calls[c].user \/ calls[c].crossed
  BY DEF SessionInv, CallsInv, CallInv, InFlight
<1>2. SessionInv /\ [Next]_vars =>
        [\A c \in Slots :
           LET k == calls[c]
           IN /\ k # None /\ calls'[c] # None
              /\ k.kind = "enroll" /\ k.answer = "none" /\ calls'[c].answer = "ok"
              => k.leg = "refresh" \/ k.token = k.user \/ k.crossed]_vars
  BY <1>1
<1> QED BY <1>2, SessionInvariant, PTL DEF Spec, ActsForItsUser

(* When no load is in flight, the list on the page is what it says it is,   *)
(* unless loads overlapped, the latest failed, or the session is mixed.     *)
THEOREM ListShownIsCurrent == Spec => []ListIsCurrent
<1>1. SessionInv => ListIsCurrent
  BY DEF SessionInv, ListInv, ListIsCurrent
<1> QED BY <1>1, SessionInvariant, PTL
=============================================================================
