----------------------- MODULE EmailVerificationProofs -----------------------
(* Theorems about EmailVerification, for every number of workers and every  *)
(* setting of the limits, with any interleaving of signups, guesses,        *)
(* resends and crashes.                                                     *)
EXTENDS EmailVerification, SequenceTheorems, TLAPS

(* What typing says of the rows.                                           *)
LEMMA RowFacts ==
    TypeOK => /\ otps \in Seq(Otp) /\ clock \in Nat
              /\ Len(otps) \in Nat /\ DOMAIN otps = 1..Len(otps)
              /\ \A i \in DOMAIN otps : i \in Nat /\ otps[i] \in Otp
<1> SUFFICES ASSUME TypeOK
             PROVE  /\ otps \in Seq(Otp) /\ clock \in Nat
                    /\ Len(otps) \in Nat /\ DOMAIN otps = 1..Len(otps)
                    /\ \A i \in DOMAIN otps : i \in Nat /\ otps[i] \in Otp
  OBVIOUS
<1>1. otps \in Seq(Otp) /\ clock \in Nat
  BY DEF TypeOK
<1>2. Len(otps) \in Nat /\ DOMAIN otps = 1..Len(otps)
  BY <1>1, LenProperties
<1> QED
  BY <1>1, <1>2, ElementOfSeq

(* A function on 1..n is a sequence.                                       *)
LEMMA FunctionIsSeq ==
    ASSUME NEW S, NEW n \in Nat, NEW f \in [1..n -> S]
    PROVE  f \in Seq(S)
  OBVIOUS

(* Writing a row back under its id leaves a table of as many rows, the      *)
(* others as they were.                                                    *)
LEMMA RowWritten ==
    ASSUME NEW s \in Seq(Otp), NEW i \in DOMAIN s, NEW o \in Otp
    PROVE  /\ [s EXCEPT ![i] = o] \in Seq(Otp)
           /\ DOMAIN [s EXCEPT ![i] = o] = DOMAIN s
           /\ Len([s EXCEPT ![i] = o]) = Len(s)
           /\ [s EXCEPT ![i] = o][i] = o
           /\ \A j \in DOMAIN s : j # i => [s EXCEPT ![i] = o][j] = s[j]
  BY LenProperties, ExceptSeq

(* A new row comes after the others and changes none of them.              *)
LEMMA RowAppended ==
    ASSUME NEW s \in Seq(Otp), NEW o \in Otp
    PROVE  /\ Append(s, o) \in Seq(Otp)
           /\ Len(Append(s, o)) = Len(s) + 1
           /\ DOMAIN Append(s, o) = 1..(Len(s) + 1)
           /\ Append(s, o)[Len(s) + 1] = o
           /\ \A j \in DOMAIN s : Append(s, o)[j] = s[j]
  BY LenProperties

(* One more guess on an instance gives an instance.                        *)
LEMMA GuessedFacts ==
    ASSUME NEW h \in Instance
    PROVE  /\ Guessed(h) \in Instance
           /\ Guessed(h).id = h.id
           /\ Guessed(h).attempts = h.attempts + 1
           /\ Guessed(h).active => h.attempts + 1 < MaxAttempts
<1> DEFINE n == h.attempts + 1
<1>1. n \in Nat
  BY DEF Instance
<1>2. CASE n >= MaxAttempts
  <2>1. Guessed(h) = [h EXCEPT !.attempts = n, !.active = FALSE]
    BY <1>2 DEF Guessed
  <2> HIDE DEF n
  <2>2. /\ Guessed(h) \in Instance /\ Guessed(h).id = h.id
        /\ Guessed(h).attempts = n /\ Guessed(h).active = FALSE
    BY <1>1, <2>1 DEF Instance
  <2> QED
    BY <2>2 DEF n
<1>3. CASE ~(n >= MaxAttempts)
  <2>1. Guessed(h) = [h EXCEPT !.attempts = n]
    BY <1>3, Zenon DEF Guessed, Instance
  <2>2. n < MaxAttempts
    BY <1>1, <1>3, LimitsAssumption
  <2> HIDE DEF n
  <2>3. /\ Guessed(h) \in Instance /\ Guessed(h).id = h.id
        /\ Guessed(h).attempts = n
    BY <1>1, <2>1 DEF Instance
  <2> QED
    BY <2>2, <2>3 DEF n
<1> QED
  BY <1>2, <1>3

(* The row that a wrong guess writes back.                                 *)
Saved(o, h) == [o EXCEPT !.attempts = h.attempts, !.active = h.active,
                         !.wrong = @ + 1]

(* SaveWrongGuess writes the instance's two fields over one row.           *)
LEMMA SavedFacts ==
    ASSUME TypeOK, NEW h \in Instance, h.id \in DOMAIN otps
    PROVE  /\ Saved(otps[h.id], h) \in Otp
           /\ Saved(otps[h.id], h).attempts = h.attempts
           /\ Saved(otps[h.id], h).active = h.active
           /\ Saved(otps[h.id], h).wrong = otps[h.id].wrong + 1
           /\ Saved(otps[h.id], h).consumed = otps[h.id].consumed
           /\ Saved(otps[h.id], h).by = otps[h.id].by
           /\ Saved(otps[h.id], h).created = otps[h.id].created
           /\ [otps EXCEPT ![h.id].attempts = h.attempts,
                           ![h.id].active = h.active,
                           ![h.id].wrong = @ + 1]
                  = [otps EXCEPT ![h.id] = Saved(otps[h.id], h)]
<1> DEFINE o == otps[h.id]
           n == o.wrong + 1
<1>1. o \in Otp /\ n \in Nat
  <2>1. o \in Otp
    BY RowFacts
  <2> QED
    BY <2>1 DEF Otp
<1>2. Saved(o, h) = [o EXCEPT !.attempts = h.attempts, !.active = h.active,
                              !.wrong = n]
  BY <1>1 DEF Saved, Otp
<1>3. [otps EXCEPT ![h.id].attempts = h.attempts, ![h.id].active = h.active,
                   ![h.id].wrong = @ + 1]
          = [otps EXCEPT ![h.id] = Saved(o, h)]
  BY RowFacts, <1>1 DEF Saved, Otp
<1> HIDE DEF n
<1>4. /\ Saved(o, h) \in Otp
      /\ Saved(o, h).attempts = h.attempts /\ Saved(o, h).active = h.active
      /\ Saved(o, h).wrong = n /\ Saved(o, h).consumed = o.consumed
      /\ Saved(o, h).by = o.by /\ Saved(o, h).created = o.created
  BY <1>1, <1>2 DEF Otp, Instance
<1> QED
  BY <1>3, <1>4 DEF n

(* Deactivation clears one field of every row.                             *)
LEMMA DeactivatedFacts ==
    ASSUME TypeOK
    PROVE  /\ Deactivated \in Seq(Otp) /\ DOMAIN Deactivated = DOMAIN otps
           /\ \A i \in DOMAIN otps :
                  /\ Deactivated[i].active = FALSE
                  /\ Deactivated[i].attempts = otps[i].attempts
                  /\ Deactivated[i].wrong = otps[i].wrong
                  /\ Deactivated[i].consumed = otps[i].consumed
                  /\ Deactivated[i].by = otps[i].by
                  /\ Deactivated[i].created = otps[i].created
<1>1. \A i \in DOMAIN otps :
         LET o == [otps[i] EXCEPT !.active = FALSE]
         IN  /\ o \in Otp /\ o.active = FALSE
             /\ o.attempts = otps[i].attempts /\ o.wrong = otps[i].wrong
             /\ o.consumed = otps[i].consumed /\ o.by = otps[i].by
             /\ o.created = otps[i].created
  BY RowFacts DEF Otp
<1>2. Len(otps) \in Nat /\ Deactivated \in [1..Len(otps) -> Otp]
  BY <1>1, RowFacts DEF Deactivated
<1>3. Deactivated \in Seq(Otp)
  BY <1>2, FunctionIsSeq
<1> QED
  BY <1>1, <1>3 DEF Deactivated

(* The request ends without touching the tables.                           *)
LEMMA EndType ==
    ASSUME TypeOK, NEW w \in Workers,
           NEW answer \in Replies,
           End(w, answer), account' \in {"none", "unverified", "verified"},
           otps' \in Seq(Otp), clock' \in Nat
    PROVE  TypeOK'
  BY DEF TypeOK, End, Labels

(* The request goes on to its next statement.                              *)
LEMMA GoToType ==
    ASSUME TypeOK, NEW w \in Workers,
           NEW label \in Labels,
           GoTo(w, label), account' \in {"none", "unverified", "verified"},
           otps' \in Seq(Otp), clock' \in Nat
    PROVE  TypeOK'
  BY DEF TypeOK, GoTo, request

(* Every statement keeps the types.                                        *)
LEMMA TypeStep == TypeOK /\ VerificationInv /\ [Next]_vars => TypeOK'
<1> SUFFICES ASSUME TypeOK, VerificationInv, [Next]_vars PROVE TypeOK'
  OBVIOUS
<1>1. CASE Tick
  <2>1. clock' = clock + 1 /\ clock \in Nat
    BY <1>1 DEF Tick, TypeOK
  <2>2. clock' \in Nat
    BY <2>1
  <2> QED
    BY <1>1, <2>2 DEF Tick, TypeOK
<1>2. ASSUME NEW w \in Workers, Signup(w) PROVE TypeOK'
  BY <1>2 DEF Signup, Answer, Labels, Replies, Begin, TypeOK, request
<1>3. ASSUME NEW w \in Workers, Resend(w) PROVE TypeOK'
  BY <1>3 DEF Resend, Answer, Labels, Replies, Begin, TypeOK, request
<1>4. ASSUME NEW w \in Workers, NEW c \in 0..Len(otps), Verify(w, c)
      PROVE  TypeOK'
  <2>1. c \in Nat
    BY RowFacts
  <2>2. CASE Loaded = {}
    BY <1>4, <2>2 DEF Verify, Answer, Replies, TypeOK, request
  <2>3. CASE Loaded # {}
    <3>1. PICK i \in Loaded :
            /\ Begin(w, "verify", "judge")
            /\ code' = [code EXCEPT ![w] = c]
            /\ held' = [held EXCEPT ![w] =
                   [id |-> i, expires |-> otps[i].expires,
                    attempts |-> otps[i].attempts,
                    active |-> otps[i].active]]
            /\ UNCHANGED at
      BY <1>4, <2>3 DEF Verify
    <3>2. i \in Nat /\ otps[i] \in Otp
      BY RowFacts DEF Loaded, ActiveIds
    <3>3. [id |-> i, expires |-> otps[i].expires,
           attempts |-> otps[i].attempts, active |-> otps[i].active]
            \in Instance
      BY <3>2 DEF Instance, Otp
    <3> QED
      BY <1>4, <2>1, <3>1, <3>3 DEF Verify, Begin, Labels, Replies, TypeOK
  <2> QED
    BY <2>2, <2>3
<1>5. ASSUME NEW w \in Workers, NEW goodPassword \in BOOLEAN,
             Login(w, goodPassword)
      PROVE  TypeOK'
  BY <1>5 DEF Login, Answer, Labels, Replies, TypeOK, request
<1>6. ASSUME NEW w \in Workers, CreateUser(w) PROVE TypeOK'
  <2>1. account' \in {"none", "unverified", "verified"} /\ otps' \in Seq(Otp)
        /\ clock' \in Nat
    BY <1>6 DEF CreateUser, TypeOK
  <2> QED
    BY <1>6, <2>1, EndType, GoToType DEF Labels, Replies, CreateUser
<1>7. ASSUME NEW w \in Workers, IssueOtp(w) PROVE TypeOK'
  <2>1. op[w] \in {"signup", "resend"}
    BY <1>7 DEF IssueOtp, VerificationInv, SignupInv
  <2>2. [created |-> clock, expires |-> clock + Ttl, attempts |-> 0,
         active |-> TRUE, consumed |-> FALSE, by |-> op[w], wrong |-> 0] \in Otp
    <3>1. clock \in Nat /\ clock + Ttl \in Nat
      BY RowFacts, LimitsAssumption
    <3> QED
      BY <2>1, <3>1 DEF Otp
  <2>3. otps' \in Seq(Otp)
    BY <1>7, <2>2, RowFacts, RowAppended DEF IssueOtp
  <2> QED
    BY <1>7, <2>3, GoToType DEF Labels, Replies, IssueOtp, TypeOK
<1>8. ASSUME NEW w \in Workers, SendEmail(w) PROVE TypeOK'
  BY <1>8, EndType DEF Labels, Replies, SendEmail, TypeOK
<1>9. ASSUME NEW w \in Workers, CheckCooldown(w) PROVE TypeOK'
  BY <1>9, EndType, GoToType DEF Labels, Replies, CheckCooldown, TypeOK
<1>10. ASSUME NEW w \in Workers, CheckHourly(w) PROVE TypeOK'
  BY <1>10, EndType, GoToType DEF Labels, Replies, CheckHourly, TypeOK
<1>11. ASSUME NEW w \in Workers, Deactivate(w) PROVE TypeOK'
  <2>2. otps' \in Seq(Otp)
    BY <1>11, DeactivatedFacts DEF Deactivate
  <2> QED
    BY <1>11, <2>2, GoToType DEF Labels, Replies, Deactivate, TypeOK
<1>12. ASSUME NEW w \in Workers, Judge(w) PROVE TypeOK'
  <2>1. held[w] \in Instance
    BY <1>12 DEF Judge, VerificationInv, InstanceInv, TypeOK
  <2>2. Guessed(held[w]) \in Instance
    BY <2>1, GuessedFacts
  <2>3. CASE held[w].expires <= clock
    BY <1>12, <2>3, EndType DEF Labels, Replies, Judge, TypeOK
  <2>4. CASE ~(held[w].expires <= clock) /\ code[w] = held[w].id
    BY <1>12, <2>4, GoToType DEF Labels, Replies, Judge, TypeOK
  <2>5. CASE ~(held[w].expires <= clock) /\ code[w] # held[w].id
    BY <1>12, <2>2, <2>5 DEF Judge, Labels, TypeOK
  <2> QED
    BY <2>3, <2>4, <2>5
<1>13. ASSUME NEW w \in Workers, SaveWrongGuess(w) PROVE TypeOK'
  <2>1. held[w] \in Instance /\ held[w].id \in DOMAIN otps
    BY <1>13 DEF SaveWrongGuess, VerificationInv, InstanceInv, TypeOK
  <2>2. otps' \in Seq(Otp)
    <3>1. otps' = [otps EXCEPT ![held[w].id] = Saved(otps[held[w].id], held[w])]
      BY <1>13, <2>1, SavedFacts DEF SaveWrongGuess
    <3>2. Saved(otps[held[w].id], held[w]) \in Otp
      BY <2>1, SavedFacts
    <3> QED
      BY <2>1, <3>1, <3>2, RowFacts, RowWritten
  <2> QED
    BY <1>13, <2>2, EndType DEF Labels, Replies, SaveWrongGuess, TypeOK
<1>14. ASSUME NEW w \in Workers, Consume(w) PROVE TypeOK'
  <2>1. held[w] \in Instance /\ held[w].id \in DOMAIN otps
    BY <1>14 DEF Consume, VerificationInv, InstanceInv, TypeOK
  <2>2. Consumed(otps[held[w].id]) \in Otp
    BY <2>1, RowFacts DEF Consumed, Otp
  <2>3. otps' \in Seq(Otp)
    BY <1>14, <2>1, <2>2, RowFacts, RowWritten DEF Consume
  <2> QED
    BY <1>14, <2>3, EndType DEF Labels, Replies, Consume, TypeOK
<1>15. ASSUME NEW w \in Workers, Crash(w) PROVE TypeOK'
  BY <1>15, EndType DEF Labels, Replies, Crash, TypeOK
<1>16. CASE UNCHANGED vars
  BY <1>16 DEF vars, TypeOK
<1> QED
  BY <1>1, <1>2, <1>3, <1>4, <1>5, <1>6, <1>7, <1>8, <1>9, <1>10, <1>11,
     <1>12, <1>13, <1>14, <1>15, <1>16 DEF Next, Step

-----------------------------------------------------------------------------
(* Every behaviour starts well-typed and with nothing promised.            *)
LEMMA InitInv == Init => TypeOK /\ VerificationInv
<1> SUFFICES ASSUME Init PROVE TypeOK /\ VerificationInv
  OBVIOUS
<1>1. otps = <<>> /\ DOMAIN otps = {} /\ otps \in Seq(Otp)
  <2>1. otps = <<>>
    BY DEF Init
  <2>2. <<>> \in Seq(Otp) /\ Len(<<>>) = 0
    BY EmptySeq
  <2>3. DOMAIN otps = 1..0
    BY <2>1, <2>2, LenProperties
  <2> QED
    BY <2>1, <2>2, <2>3
<1>2. TypeOK
  BY <1>1 DEF Init, TypeOK, Labels, Replies
<1>3. VerificationInv
  BY <1>1 DEF Init, VerificationInv, ActiveHasGuessesLeft, ActiveIds,
     AttemptsNeverOverstated, VerifiedByCode, OneSignup, SignupInv, InstanceInv
<1> QED
  BY <1>2, <1>3

(* The tables are as they were; only w's request has moved.                *)
OnlyMoves(w) ==
    /\ \A v \in Workers \ {w} :
           pc'[v] = pc[v] /\ op'[v] = op[v] /\ held'[v] = held[v]

(* What is left to show of a step of w that writes no table.               *)
LEMMA QuietStep ==
    ASSUME VerificationInv, NEW w \in Workers, OnlyMoves(w),
           UNCHANGED <<account, otps>>, InstanceInv(w)',
           pc'[w] # "issue",
           account = "none" => pc'[w] \in {"idle", "create"},
           pc'[w] = "create" => op'[w] = "signup",
           pc'[w] \in {"cooldown", "count", "deactivate"} => op'[w] = "resend"
    PROVE  VerificationInv'
<1>1. \A v \in Workers : InstanceInv(v)'
  BY DEF VerificationInv, InstanceInv, OnlyMoves
<1>2. SignupInv'
  BY DEF VerificationInv, SignupInv, OnlyMoves
<1> QED
  BY <1>1, <1>2 DEF VerificationInv, ActiveHasGuessesLeft, ActiveIds,
     AttemptsNeverOverstated, VerifiedByCode, OneSignup

(* A request that ends without having written.                             *)
LEMMA QuietEnd ==
    ASSUME TypeOK, VerificationInv, NEW w \in Workers, NEW answer,
           End(w, answer), UNCHANGED <<account, otps>>
    PROVE  VerificationInv'
<1>1. OnlyMoves(w) /\ pc'[w] = "idle"
  BY DEF TypeOK, OnlyMoves, End
<1> QED
  BY <1>1, QuietStep DEF InstanceInv

(* An answer after one read, or nothing at all.                            *)
LEMMA QuietAnswer ==
    ASSUME VerificationInv, UNCHANGED <<account, otps, pc, op, held>>
    PROVE  VerificationInv'
  BY DEF VerificationInv, ActiveHasGuessesLeft, ActiveIds,
     AttemptsNeverOverstated, VerifiedByCode, OneSignup, SignupInv, InstanceInv

(* The instance verify_email loads is an active row with guesses left.     *)
LEMMA VerifyStep ==
    ASSUME TypeOK, VerificationInv, NEW w \in Workers, NEW c, Verify(w, c)
    PROVE  VerificationInv'
<1>1. CASE Loaded = {}
  BY <1>1, QuietAnswer DEF Verify, Answer, request
<1>2. CASE Loaded # {}
  <2>1. PICK i \in Loaded :
          /\ Begin(w, "verify", "judge")
          /\ held' = [held EXCEPT ![w] =
                 [id |-> i, expires |-> otps[i].expires,
                  attempts |-> otps[i].attempts, active |-> otps[i].active]]
    BY <1>2 DEF Verify
  <2>2. OnlyMoves(w) /\ pc'[w] = "judge" /\ UNCHANGED <<account, otps>>
    BY <2>1 DEF Verify, Begin, TypeOK, OnlyMoves
  <2>3. /\ held'[w].id = i /\ held'[w].attempts = otps[i].attempts
        /\ held'[w] # NoOtp
    <3>1. i \in Nat /\ otps[i] \in Otp
      BY RowFacts DEF Loaded, ActiveIds
    <3>2. [id |-> i, expires |-> otps[i].expires,
           attempts |-> otps[i].attempts, active |-> otps[i].active]
              \in Instance
      BY <3>1 DEF Instance, Otp
    <3> QED
      BY <2>1, <3>2, NoOtpAssumption DEF TypeOK
  <2>4. /\ i \in DOMAIN otps /\ otps[i].attempts < MaxAttempts
        /\ otps[i].attempts <= otps[i].wrong
    BY DEF Loaded, ActiveIds, VerificationInv, ActiveHasGuessesLeft,
       AttemptsNeverOverstated
  <2>5. InstanceInv(w)'
    BY <2>2, <2>3, <2>4 DEF InstanceInv
  <2>6. account # "none"
    BY <2>4, RowFacts DEF VerificationInv, SignupInv
  <2> QED
    BY <2>2, <2>5, <2>6, QuietStep
<1> QED
  BY <1>1, <1>2

(* A wrong guess puts the instance one ahead of its row, at most.          *)
LEMMA JudgeStep ==
    ASSUME TypeOK, VerificationInv, NEW w \in Workers, Judge(w)
    PROVE  VerificationInv'
<1>1. /\ pc[w] = "judge" /\ held[w] \in Instance
      /\ held[w].id \in DOMAIN otps
      /\ held[w].attempts <= otps[held[w].id].wrong
      /\ account # "none"
  BY DEF Judge, VerificationInv, InstanceInv, SignupInv, TypeOK
<1>2. CASE held[w].expires <= clock
  BY <1>2, QuietEnd DEF Judge
<1>3. CASE ~(held[w].expires <= clock) /\ code[w] = held[w].id
  <2>1. OnlyMoves(w) /\ pc'[w] = "consume" /\ UNCHANGED <<account, otps, held>>
    BY <1>3 DEF Judge, GoTo, request, TypeOK, OnlyMoves
  <2>2. InstanceInv(w)'
    BY <1>1, <2>1, NoOtpAssumption DEF InstanceInv
  <2> QED
    BY <1>1, <2>1, <2>2, QuietStep
<1>4. CASE ~(held[w].expires <= clock) /\ code[w] # held[w].id
  <2>1. /\ OnlyMoves(w) /\ pc'[w] = "save" /\ UNCHANGED <<account, otps>>
        /\ held'[w] = Guessed(held[w])
    BY <1>4 DEF Judge, TypeOK, OnlyMoves
  <2>2. /\ held'[w] # NoOtp /\ held'[w].id = held[w].id
        /\ held'[w].attempts = held[w].attempts + 1
        /\ held'[w].active => held'[w].attempts < MaxAttempts
    BY <1>1, <2>1, GuessedFacts, NoOtpAssumption
  <2>3. held'[w].attempts <= otps[held[w].id].wrong + 1
    <3>1. held[w].attempts \in Nat /\ otps[held[w].id].wrong \in Nat
      BY <1>1, RowFacts DEF Instance, Otp
    <3> QED
      BY <1>1, <2>2, <3>1
  <2>4. InstanceInv(w)'
    BY <1>1, <2>1, <2>2, <2>3 DEF InstanceInv
  <2> QED
    BY <1>1, <2>1, <2>4, QuietStep
<1> QED
  BY <1>2, <1>3, <1>4

(* The first signup to commit makes the account; it alone issues its code. *)
LEMMA CreateUserStep ==
    ASSUME TypeOK, VerificationInv, NEW w \in Workers, CreateUser(w)
    PROVE  VerificationInv'
<1>1. CASE Taken
  BY <1>1, QuietEnd DEF CreateUser
<1>2. CASE ~Taken
  <2>1. /\ account = "none" /\ otps = <<>> /\ DOMAIN otps = {}
        /\ \A v \in Workers : pc[v] \in {"idle", "create"}
        /\ op[w] = "signup"
    BY <1>2 DEF Taken, CreateUser, VerificationInv, SignupInv
  <2>2. /\ OnlyMoves(w) /\ pc'[w] = "issue" /\ op' = op
        /\ account' = "unverified" /\ otps' = otps
    BY <1>2 DEF CreateUser, GoTo, request, TypeOK, OnlyMoves
  <2>3. SignupInv'
    BY <2>1, <2>2 DEF OnlyMoves, SignupInv, VerificationInv
  <2>4. \A v \in Workers : InstanceInv(v)'
    BY <2>1, <2>2 DEF OnlyMoves, InstanceInv
  <2> QED
    BY <2>1, <2>2, <2>3, <2>4 DEF VerificationInv, ActiveHasGuessesLeft,
       ActiveIds, AttemptsNeverOverstated, VerifiedByCode, OneSignup
<1> QED
  BY <1>1, <1>2

(* The new row has all its guesses left.                                   *)
LEMMA IssueOtpStep ==
    ASSUME TypeOK, VerificationInv, NEW w \in Workers, IssueOtp(w)
    PROVE  VerificationInv'
<1> DEFINE n == Len(otps) + 1
           o == [created |-> clock, expires |-> clock + Ttl, attempts |-> 0,
                 active |-> TRUE, consumed |-> FALSE, by |-> op[w], wrong |-> 0]
<1>1. /\ pc[w] = "issue" /\ op[w] \in {"signup", "resend"}
      /\ account # "none" /\ account' = account
      /\ OnlyMoves(w) /\ pc'[w] = "mail" /\ op' = op
  BY DEF IssueOtp, GoTo, request, TypeOK, OnlyMoves, VerificationInv, SignupInv
<1>2. o \in Otp
  <2>1. clock \in Nat /\ clock + Ttl \in Nat
    BY RowFacts, LimitsAssumption
  <2> QED
    BY <1>1, <2>1 DEF Otp
<1>3. /\ otps' = Append(otps, o)
      /\ n \notin DOMAIN otps
      /\ DOMAIN otps' = DOMAIN otps \cup {n} /\ otps'[n] = o
      /\ \A i \in DOMAIN otps : otps'[i] = otps[i]
  BY <1>2, RowFacts, RowAppended DEF IssueOtp
<1>4. /\ o.attempts = 0 /\ o.wrong = 0 /\ o.consumed = FALSE /\ o.by = op[w]
      /\ 0 < MaxAttempts
  BY LimitsAssumption
<1> HIDE DEF n, o
<1>5. ActiveHasGuessesLeft' /\ AttemptsNeverOverstated' /\ VerifiedByCode'
  BY <1>1, <1>3, <1>4 DEF VerificationInv, ActiveHasGuessesLeft, ActiveIds,
     AttemptsNeverOverstated, VerifiedByCode
<1>6. OneSignup'
  BY <1>1, <1>3, <1>4 DEF VerificationInv, OneSignup, SignupInv
<1>7. SignupInv'
  BY <1>1, <1>3, <1>4 DEF VerificationInv, SignupInv, OnlyMoves
<1>8. \A v \in Workers : InstanceInv(v)'
  BY <1>1, <1>3 DEF VerificationInv, InstanceInv, OnlyMoves
<1> QED
  BY <1>5, <1>6, <1>7, <1>8 DEF VerificationInv

(* Deactivation leaves no active row to be wrong about.                    *)
LEMMA DeactivateStep ==
    ASSUME TypeOK, VerificationInv, NEW w \in Workers, Deactivate(w)
    PROVE  VerificationInv'
<1>1. /\ pc[w] = "deactivate" /\ op[w] = "resend" /\ account # "none"
      /\ OnlyMoves(w) /\ pc'[w] = "issue" /\ op' = op /\ account' = account
  BY DEF Deactivate, GoTo, request, TypeOK, OnlyMoves, VerificationInv,
     SignupInv
<1>2. /\ DOMAIN otps' = DOMAIN otps
      /\ \A i \in DOMAIN otps :
             /\ otps'[i].active = FALSE
             /\ otps'[i].attempts = otps[i].attempts
             /\ otps'[i].wrong = otps[i].wrong
             /\ otps'[i].consumed = otps[i].consumed
             /\ otps'[i].by = otps[i].by
  BY DeactivatedFacts DEF Deactivate
<1>3. ActiveHasGuessesLeft' /\ AttemptsNeverOverstated' /\ VerifiedByCode'
  BY <1>1, <1>2 DEF VerificationInv, ActiveHasGuessesLeft, ActiveIds,
     AttemptsNeverOverstated, VerifiedByCode
<1>4. OneSignup'
  BY <1>1, <1>2 DEF VerificationInv, OneSignup
<1>5. SignupInv'
  BY <1>1, <1>2 DEF VerificationInv, SignupInv, OnlyMoves
<1>6. \A v \in Workers : InstanceInv(v)'
  BY <1>1, <1>2 DEF VerificationInv, InstanceInv, OnlyMoves
<1> QED
  BY <1>3, <1>4, <1>5, <1>6 DEF VerificationInv

(* However stale the instance, the row it overwrites gets no more attempts *)
(* than guesses, and stays active only below the limit.                    *)
LEMMA SaveWrongGuessStep ==
    ASSUME TypeOK, VerificationInv, NEW w \in Workers, SaveWrongGuess(w)
    PROVE  VerificationInv'
<1> DEFINE h == held[w]
           o == Saved(otps[h.id], h)
<1>1. /\ pc[w] = "save" /\ h \in Instance /\ h.id \in DOMAIN otps
      /\ h.active => h.attempts < MaxAttempts
      /\ h.attempts <= otps[h.id].wrong + 1
      /\ account # "none" /\ account' = account
  BY DEF SaveWrongGuess, VerificationInv, InstanceInv, SignupInv, TypeOK
<1>2. OnlyMoves(w) /\ pc'[w] = "idle"
  BY DEF SaveWrongGuess, End, TypeOK, OnlyMoves
<1>3. /\ o \in Otp /\ o.attempts = h.attempts /\ o.active = h.active
      /\ o.wrong = otps[h.id].wrong + 1
      /\ o.consumed = otps[h.id].consumed /\ o.by = otps[h.id].by
      /\ otps' = [otps EXCEPT ![h.id] = o]
  BY <1>1, SavedFacts DEF SaveWrongGuess
<1>4. /\ DOMAIN otps' = DOMAIN otps /\ otps'[h.id] = o
      /\ \A i \in DOMAIN otps : i # h.id => otps'[i] = otps[i]
  BY <1>1, <1>3, RowFacts, RowWritten
<1>5. \A i \in DOMAIN otps :
        /\ otps'[i].consumed = otps[i].consumed /\ otps'[i].by = otps[i].by
        /\ otps[i].wrong \in Nat
        /\ otps'[i].wrong \in {otps[i].wrong, otps[i].wrong + 1}
  <2>1. \A i \in DOMAIN otps : otps[i].wrong \in Nat
    BY RowFacts DEF Otp
  <2> QED
    BY <1>3, <1>4, <2>1
<1> HIDE DEF h, o
<1>6. ActiveHasGuessesLeft'
  BY <1>1, <1>3, <1>4 DEF VerificationInv, ActiveHasGuessesLeft, ActiveIds
<1>7. AttemptsNeverOverstated'
  BY <1>1, <1>3, <1>4 DEF VerificationInv, AttemptsNeverOverstated
<1>8. VerifiedByCode' /\ OneSignup'
  BY <1>1, <1>4, <1>5 DEF VerificationInv, VerifiedByCode, OneSignup
<1>9. SignupInv'
  BY <1>1, <1>2, <1>4, <1>5 DEF VerificationInv, SignupInv, OnlyMoves
<1>10. ASSUME NEW v \in Workers PROVE InstanceInv(v)'
  <2>1. CASE v = w
    BY <1>2, <2>1 DEF InstanceInv
  <2>2. CASE v # w
    <3>1. /\ InstanceInv(v)
          /\ pc'[v] = pc[v] /\ held'[v] = held[v]
      BY <1>2, <2>2 DEF VerificationInv, OnlyMoves
    <3>2. pc[v] \in {"judge", "save"} =>
              held[v].attempts \in Nat /\ held[v].id \in DOMAIN otps
      BY <3>1 DEF InstanceInv, TypeOK, Instance
    <3> QED
      BY <1>4, <1>5, <3>1, <3>2 DEF InstanceInv
  <2> QED
    BY <2>1, <2>2
<1> QED
  BY <1>6, <1>7, <1>8, <1>9, <1>10 DEF VerificationInv

(* Consuming the code and verifying the address are one transaction.       *)
LEMMA ConsumeStep ==
    ASSUME TypeOK, VerificationInv, NEW w \in Workers, Consume(w)
    PROVE  VerificationInv'
<1> DEFINE i == held[w].id
           o == Consumed(otps[i])
<1>1. /\ pc[w] = "consume" /\ i \in DOMAIN otps /\ account' = "verified"
  BY DEF Consume, VerificationInv, InstanceInv
<1>2. OnlyMoves(w) /\ pc'[w] = "idle"
  BY DEF Consume, End, TypeOK, OnlyMoves
<1>3. /\ o \in Otp /\ o.active = FALSE /\ o.consumed = TRUE
      /\ o.attempts = otps[i].attempts /\ o.wrong = otps[i].wrong
      /\ o.by = otps[i].by
  <2>1. otps[i] \in Otp
    BY <1>1, RowFacts
  <2> QED
    BY <2>1 DEF Consumed, Otp
<1>4. /\ DOMAIN otps' = DOMAIN otps /\ otps'[i] = o
      /\ \A j \in DOMAIN otps : j # i => otps'[j] = otps[j]
  BY <1>1, <1>3, RowFacts, RowWritten DEF Consume
<1> HIDE DEF i, o
<1>5. ActiveHasGuessesLeft' /\ AttemptsNeverOverstated' /\ OneSignup'
  BY <1>1, <1>3, <1>4 DEF VerificationInv, ActiveHasGuessesLeft, ActiveIds,
     AttemptsNeverOverstated, OneSignup
<1>6. VerifiedByCode'
  BY <1>1, <1>3, <1>4 DEF VerifiedByCode
<1>7. SignupInv'
  BY <1>1, <1>2, <1>3, <1>4 DEF VerificationInv, SignupInv, OnlyMoves
<1>8. \A v \in Workers : InstanceInv(v)'
  BY <1>1, <1>2, <1>3, <1>4 DEF VerificationInv, InstanceInv, OnlyMoves
<1> QED
  BY <1>5, <1>6, <1>7, <1>8 DEF VerificationInv

(* VerificationInv is inductive.                                           *)
LEMMA VerificationStep ==
    TypeOK /\ VerificationInv /\ [Next]_vars => VerificationInv'
<1> SUFFICES ASSUME TypeOK, VerificationInv, [Next]_vars PROVE VerificationInv'
  OBVIOUS
<1>1. CASE Tick \/ UNCHANGED vars
  BY <1>1, QuietAnswer DEF Tick, vars
<1>2. ASSUME NEW w \in Workers, Signup(w) PROVE VerificationInv'
  <2>1. CASE account # "none"
    BY <1>2, <2>1, QuietAnswer DEF Signup, Answer, request
  <2>2. CASE account = "none"
    <3>1. /\ OnlyMoves(w) /\ pc'[w] = "create" /\ op'[w] = "signup"
          /\ UNCHANGED <<account, otps>>
      BY <1>2, <2>2 DEF Signup, Begin, TypeOK, OnlyMoves
    <3> QED
      BY <3>1, QuietStep DEF InstanceInv
  <2> QED
    BY <2>1, <2>2
<1>3. ASSUME NEW w \in Workers, Resend(w) PROVE VerificationInv'
  <2>1. CASE account = "none"
    BY <1>3, <2>1, QuietAnswer DEF Resend, Answer, request
  <2>2. CASE account # "none"
    <3>1. /\ OnlyMoves(w) /\ pc'[w] = "cooldown" /\ op'[w] = "resend"
          /\ UNCHANGED <<account, otps>>
      BY <1>3, <2>2 DEF Resend, Begin, TypeOK, OnlyMoves
    <3> QED
      BY <2>2, <3>1, QuietStep DEF InstanceInv
  <2> QED
    BY <2>1, <2>2
<1>4. ASSUME NEW w \in Workers, NEW goodPassword \in BOOLEAN,
             Login(w, goodPassword)
      PROVE  VerificationInv'
  BY <1>4, QuietAnswer DEF Login, Answer, request
<1>5. ASSUME NEW w \in Workers,
             SendEmail(w) \/ Crash(w) \/ CheckCooldown(w) \/ CheckHourly(w)
      PROVE  VerificationInv'
  <2>1. ASSUME NEW answer, End(w, answer), UNCHANGED <<account, otps>>
        PROVE  VerificationInv'
    BY <2>1, QuietEnd
  <2>2. ASSUME NEW label \in {"count", "deactivate"}, GoTo(w, label),
               pc[w] \in {"cooldown", "count"}, UNCHANGED <<account, otps>>
        PROVE  VerificationInv'
    <3>1. /\ OnlyMoves(w) /\ pc'[w] = label /\ op' = op
          /\ account # "none" /\ op[w] = "resend"
      BY <2>2 DEF GoTo, request, TypeOK, OnlyMoves, VerificationInv, SignupInv
    <3> QED
      BY <2>2, <3>1, QuietStep DEF InstanceInv
  <2> QED
    BY <1>5, <2>1, <2>2 DEF SendEmail, Crash, CheckCooldown, CheckHourly
<1> QED
  BY <1>1, <1>2, <1>3, <1>4, <1>5, VerifyStep, JudgeStep, CreateUserStep,
     IssueOtpStep, DeactivateStep, SaveWrongGuessStep, ConsumeStep
     DEF Next, Step

(* Every state of every behaviour is well-typed and keeps the promises of   *)
(* signup, verify and resend to each other.                                *)
THEOREM VerificationInvariant == Spec => [](TypeOK /\ VerificationInv)
<1>1. Init => TypeOK /\ VerificationInv
  BY InitInv
<1>2. (TypeOK /\ VerificationInv) /\ [Next]_vars
          => (TypeOK /\ VerificationInv)'
  BY TypeStep, VerificationStep
<1> QED
  BY <1>1, <1>2, PTL DEF Spec

(* No stale save ever leaves a code active that has no guesses left, and   *)
(* none counts guesses that were not made, whoever interleaves with whom.  *)
THEOREM GuessCountsAreSound ==
    Spec => [](ActiveHasGuessesLeft /\ AttemptsNeverOverstated)
<1>1. TypeOK /\ VerificationInv
          => ActiveHasGuessesLeft /\ AttemptsNeverOverstated
  BY DEF VerificationInv
<1> QED
  BY <1>1, VerificationInvariant, PTL

(* An address counts as verified exactly when one of its codes has been    *)
(* consumed, and racing signups share one account and one code.            *)
THEOREM AccountsAreSound == Spec => [](VerifiedByCode /\ OneSignup)
<1>1. TypeOK /\ VerificationInv => VerifiedByCode /\ OneSignup
  BY DEF VerificationInv
<1> QED
  BY <1>1, VerificationInvariant, PTL
=============================================================================
