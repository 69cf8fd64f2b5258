---------------------------- MODULE OtpPolicyProofs ----------------------------
(* The one-time-code policies of apps/accounts/otp.py, for every setting of *)
(* their limits, where one worker serves all requests.  Two workers break   *)
(* them: each reads rows that the other is about to write.                  *)
EXTENDS EmailVerificationProofs, FiniteSetTheorems

OneWorker == \A v, w \in Workers : v = w

LEMMA SameInterval == ASSUME NEW m \in Nat, NEW n \in Nat, 1..m = 1..n PROVE m = n
<1>1. ~(m < n)
  <2> SUFFICES ASSUME m < n PROVE FALSE
    OBVIOUS
  <2>1. n \in 1..n /\ n \notin 1..m
    OBVIOUS
  <2> QED BY <2>1
<1>2. ~(n < m)
  <2> SUFFICES ASSUME n < m PROVE FALSE
    OBVIOUS
  <2>1. m \in 1..m /\ m \notin 1..n
    OBVIOUS
  <2> QED BY <2>1
<1> QED BY <1>1, <1>2

(* Rows whose ages and origins stand keep their spacing, and every request  *)
(* would pass or fail the same tests of it.                                 *)
LEMMA SpacingStands ==
    ASSUME TypeOK, CooldownKept, HourlyCapKept,
           DOMAIN otps' = DOMAIN otps, Len(otps') = Len(otps), otps' \in Seq(Otp),
           \A i \in DOMAIN otps :
               otps'[i].created = otps[i].created /\ otps'[i].by = otps[i].by
    PROVE  /\ CooldownKept' /\ HourlyCapKept'
           /\ \A w \in Workers : at'[w] = at[w] =>
                 (~TooSoon(w) => ~TooSoon(w)') /\ (~TooMany(w) => ~TooMany(w)')
<1>1. CooldownKept'
  <2> SUFFICES ASSUME NEW i \in DOMAIN otps, i > 1, otps[i].by = "resend"
               PROVE  otps'[i].created - otps'[i - 1].created >= Cooldown
    BY DEF CooldownKept
  <2>1. i - 1 \in DOMAIN otps
    BY RowFacts
  <2> QED BY <2>1 DEF CooldownKept
<1>2. HourlyCapKept'
  <2> SUFFICES ASSUME NEW i \in DOMAIN otps
               PROVE  Cardinality({j \in 1..i : otps'[j].created >= otps'[i].created - Hour})
                        <= HourlyLimit
    BY DEF HourlyCapKept
  <2>1. \A j \in 1..i : j \in DOMAIN otps
    BY RowFacts
  <2>2. {j \in 1..i : otps'[j].created >= otps'[i].created - Hour}
          = {j \in 1..i : otps[j].created >= otps[i].created - Hour}
    BY <2>1
  <2> QED BY <2>2 DEF HourlyCapKept
<1>3. ASSUME NEW w \in Workers, at'[w] = at[w], ~TooSoon(w)
      PROVE  ~TooSoon(w)'
  <2>1. otps' # <<>> => otps # <<>> /\ Len(otps) \in DOMAIN otps
    BY RowFacts, EmptySeq
  <2> QED BY <1>3, <2>1 DEF TooSoon
<1>4. ASSUME NEW w \in Workers, at'[w] = at[w], ~TooMany(w)
      PROVE  ~TooMany(w)'
  <2>1. {i \in DOMAIN otps' : otps'[i].created >= at'[w] - Hour}
          = {i \in DOMAIN otps : otps[i].created >= at[w] - Hour}
    BY <1>4
  <2> QED BY <1>4, <2>1 DEF TooMany
<1> QED BY <1>1, <1>2, <1>3, <1>4

(* Time alone disturbs nothing. *)
LEMMA RowsStand ==
    ASSUME TypeOK, PolicyRows, otps' = otps, clock' \in Nat, clock <= clock'
    PROVE  PolicyRows'
<1>1. \A i \in DOMAIN otps : otps[i].created <= clock'
  <2> SUFFICES ASSUME NEW i \in DOMAIN otps PROVE otps[i].created <= clock'
    OBVIOUS
  <2>1. otps[i].created \in Nat /\ clock \in Nat /\ otps[i].created <= clock
    BY RowFacts DEF PolicyRows, Otp
  <2> QED BY <2>1
<1>2. CooldownKept' /\ HourlyCapKept'
  BY DEF PolicyRows, CooldownKept, HourlyCapKept
<1>3. OnlyNewestActive' /\ ConsumedStaysConsumed' /\ AttemptsLimited'
  BY DEF PolicyRows, OnlyNewestActive, ConsumedStaysConsumed, AttemptsLimited, ActiveIds
<1> QED BY <1>1, <1>2, <1>3 DEF PolicyRows

(* A request that has ended, with whatever it wrote. *)
LEMMA PolicyEnd ==
    ASSUME OneWorker, TypeOK, NEW w \in Workers, NEW answer, End(w, answer),
           clock' = clock, PolicyRows'
    PROVE  PolicyInv'
<1>1. pc'[w] = "idle" /\ at'[w] = 0 /\ clock' \in Nat
  BY DEF End, TypeOK
<1>2. PolicyRequest(w)'
  BY <1>1 DEF PolicyRequest
<1> QED BY <1>2 DEF PolicyInv, OneWorker

(* A request that has only been answered. *)
LEMMA PolicyAnswer ==
    ASSUME TypeOK, PolicyInv, UNCHANGED <<otps, clock, pc, op, held, at>>
    PROVE  PolicyInv'
<1>1. PolicyRows'
  <2>1. clock' \in Nat /\ clock <= clock'
    BY RowFacts
  <2> QED BY <2>1, RowsStand DEF PolicyInv
<1>2. ASSUME NEW w \in Workers PROVE PolicyRequest(w)'
  BY DEF PolicyInv, PolicyRequest, ActiveIds, TooSoon, TooMany
<1> QED BY <1>1, <1>2 DEF PolicyInv

(* The statement after a read: nothing is written but the request moves on. *)
LEMMA PolicyGoTo ==
    ASSUME OneWorker, TypeOK, PolicyInv, NEW w \in Workers, NEW label, GoTo(w, label),
           UNCHANGED <<otps, clock>>,
           label \in {"judge", "save", "consume"} => pc[w] \in {"judge", "consume"},
           label # "save",
           label = "issue" => op[w] = "signup" /\ otps = <<>>,
           label \in {"count", "deactivate"} => ~TooSoon(w),
           label = "deactivate" => ~TooMany(w)
    PROVE  PolicyInv'
<1>1. UNCHANGED <<op, code, held, at>> /\ pc'[w] = label
  BY DEF GoTo, request, TypeOK
<1>2. PolicyRows'
  <2>1. clock' \in Nat /\ clock <= clock'
    BY RowFacts
  <2> QED BY <2>1, RowsStand DEF PolicyInv
<1>3. TooSoon(w)' = TooSoon(w) /\ TooMany(w)' = TooMany(w) /\ ActiveIds' = ActiveIds
  BY <1>1 DEF TooSoon, TooMany, ActiveIds
<1>4. otps = <<>> => ActiveIds = {}
  <2>1. otps = <<>> => Len(otps) = 0 /\ DOMAIN otps = 1..0
    BY RowFacts, EmptySeq
  <2> QED BY <2>1 DEF ActiveIds
<1>5. at[w] <= clock
  BY DEF PolicyInv, PolicyRequest
<1>6. label \in {"judge", "save", "consume"} =>
        /\ held[w].id = Len(otps) /\ otps[held[w].id].active
        /\ held[w].attempts = otps[held[w].id].attempts + 0
  BY DEF PolicyInv, PolicyRequest
<1>7. PolicyRequest(w)'
  BY <1>1, <1>3, <1>4, <1>5, <1>6 DEF PolicyRequest
<1> QED BY <1>2, <1>7 DEF PolicyInv, OneWorker

(* verify_email loads the newest row, as it is. *)
LEMMA PolicyVerify ==
    ASSUME OneWorker, TypeOK, PolicyInv, NEW w \in Workers, NEW c, Verify(w, c)
    PROVE  PolicyInv'
<1>1. CASE Loaded = {}
  BY <1>1, PolicyAnswer DEF Verify, Answer, request
<1>2. CASE Loaded # {}
  <2>1. PICK i \in Loaded :
          /\ Begin(w, "verify", "judge")
          /\ held' = [held EXCEPT ![w] =
                 [id |-> i, expires |-> otps[i].expires,
                  attempts |-> otps[i].attempts, active |-> otps[i].active]]
          /\ UNCHANGED at
    BY <1>2 DEF Verify
  <2>2. UNCHANGED <<otps, clock>> /\ pc'[w] = "judge" /\ op'[w] = "verify"
    BY <2>1 DEF Verify, Begin, TypeOK
  <2>3. i = Len(otps) /\ i \in DOMAIN otps /\ otps[i].active
    BY DEF Loaded, ActiveIds, PolicyInv, PolicyRows, OnlyNewestActive
  <2>4. held'[w].id = i /\ held'[w].attempts = otps[i].attempts
    BY <2>1 DEF TypeOK
  <2>5. PolicyRows'
    <3>1. clock' \in Nat /\ clock <= clock'
      BY <2>2, RowFacts
    <3> QED BY <2>2, <3>1, RowsStand DEF PolicyInv
  <2>6. otps[i].attempts = otps[i].attempts + 0
    BY <2>3, RowFacts DEF Otp
  <2>7. at'[w] <= clock'
    BY <2>1, <2>2 DEF PolicyInv, PolicyRequest
  <2>8. PolicyRequest(w)'
    BY <2>2, <2>3, <2>4, <2>6, <2>7 DEF PolicyRequest
  <2> QED BY <2>5, <2>8 DEF PolicyInv, OneWorker
<1> QED BY <1>1, <1>2

(* One guess more than the row has. *)
LEMMA PolicyJudge ==
    ASSUME OneWorker, TypeOK, VerificationInv, PolicyInv, NEW w \in Workers, Judge(w)
    PROVE  PolicyInv'
<1>1. PolicyRows' /\ UNCHANGED <<otps, clock>>
  <2>1. UNCHANGED <<otps, clock>> /\ clock' \in Nat /\ clock <= clock'
    BY RowFacts DEF Judge
  <2> QED BY <2>1, RowsStand DEF PolicyInv
<1>2. CASE held[w].expires <= clock
  BY <1>1, <1>2, PolicyEnd DEF Judge
<1>3. CASE ~(held[w].expires <= clock) /\ code[w] = held[w].id
  <2>1. pc[w] = "judge" /\ GoTo(w, "consume")
    BY <1>3 DEF Judge
  <2> QED BY <1>1, <2>1, PolicyGoTo
<1>4. CASE ~(held[w].expires <= clock) /\ code[w] # held[w].id
  <2>1. /\ pc[w] = "judge" /\ pc'[w] = "save" /\ UNCHANGED <<op, at>>
        /\ held'[w] = Guessed(held[w])
    BY <1>4 DEF Judge, TypeOK
  <2>2. /\ held[w] \in Instance /\ held[w].id \in DOMAIN otps
        /\ held[w].id = Len(otps) /\ otps[held[w].id].active
        /\ held[w].attempts = otps[held[w].id].attempts + 0
        /\ at[w] <= clock
    BY <2>1 DEF VerificationInv, InstanceInv, TypeOK, PolicyInv, PolicyRequest
  <2>3. held'[w].id = held[w].id /\ held'[w].attempts = held[w].attempts + 1
    BY <2>1, <2>2, GuessedFacts
  <2>4. held'[w].attempts = otps[held[w].id].attempts + 1
    <3>1. otps[held[w].id].attempts \in Nat
      BY <2>2, RowFacts DEF Otp
    <3> QED BY <2>2, <2>3, <3>1
  <2>5. PolicyRequest(w)'
    BY <1>1, <2>1, <2>2, <2>3, <2>4 DEF PolicyRequest
  <2> QED BY <1>1, <2>5 DEF PolicyInv, OneWorker
<1> QED BY <1>2, <1>3, <1>4

(* The newest row written back, with its count and its guesses equal. *)
LEMMA NewestWritten ==
    ASSUME TypeOK, PolicyRows, NEW n \in DOMAIN otps, n = Len(otps), NEW o \in Otp,
           otps' = [otps EXCEPT ![n] = o], clock' = clock,
           o.created = otps[n].created, o.by = otps[n].by,
           o.attempts = o.wrong, o.wrong <= MaxAttempts, o.consumed => ~o.active
    PROVE  PolicyRows'
<1>1. /\ otps' \in Seq(Otp) /\ DOMAIN otps' = DOMAIN otps /\ Len(otps') = Len(otps)
      /\ otps'[n] = o /\ \A j \in DOMAIN otps : j # n => otps'[j] = otps[j]
  BY RowFacts, RowWritten
<1>2. \A i \in DOMAIN otps : otps'[i].created = otps[i].created /\ otps'[i].by = otps[i].by
  BY <1>1
<1>3. CooldownKept' /\ HourlyCapKept'
  BY <1>1, <1>2, SpacingStands DEF PolicyRows
<1>4. OnlyNewestActive'
  BY <1>1 DEF PolicyRows, OnlyNewestActive, ActiveIds
<1>5. ConsumedStaysConsumed' /\ AttemptsLimited'
  BY <1>1 DEF PolicyRows, ConsumedStaysConsumed, AttemptsLimited
<1>6. \A i \in DOMAIN otps' : otps'[i].attempts = otps'[i].wrong /\ otps'[i].created <= clock'
  BY <1>1, <1>2 DEF PolicyRows
<1> QED BY <1>3, <1>4, <1>5, <1>6 DEF PolicyRows

(* The wrong guess is counted on the row it was made at. *)
LEMMA PolicySave ==
    ASSUME OneWorker, TypeOK, VerificationInv, PolicyInv, NEW w \in Workers, SaveWrongGuess(w)
    PROVE  PolicyInv'
<1> DEFINE h == held[w]
           o == Saved(otps[h.id], h)
<1>1. /\ pc[w] = "save" /\ h \in Instance /\ h.id \in DOMAIN otps /\ clock' = clock
      /\ h.id = Len(otps) /\ otps[h.id].active
      /\ h.attempts = otps[h.id].attempts + 1
      /\ otps[h.id].attempts = otps[h.id].wrong
  BY DEF SaveWrongGuess, VerificationInv, InstanceInv, TypeOK, PolicyInv, PolicyRequest,
         PolicyRows
<1>2. /\ o \in Otp /\ o.attempts = h.attempts /\ o.wrong = otps[h.id].wrong + 1
      /\ o.consumed = otps[h.id].consumed /\ o.by = otps[h.id].by
      /\ o.created = otps[h.id].created
      /\ otps' = [otps EXCEPT ![h.id] = o]
  BY <1>1, SavedFacts DEF SaveWrongGuess
<1>3. o.attempts = o.wrong /\ o.wrong <= MaxAttempts
  <2>1. otps[h.id].attempts \in Nat /\ otps[h.id].attempts < MaxAttempts
    BY <1>1, RowFacts DEF Otp, VerificationInv, ActiveHasGuessesLeft, ActiveIds
  <2> QED BY <1>1, <1>2, <2>1, LimitsAssumption
<1>4. ~o.consumed
  BY <1>1, <1>2 DEF PolicyInv, PolicyRows, ConsumedStaysConsumed
<1>5. \E answer : End(w, answer)
  BY DEF SaveWrongGuess
<1> HIDE DEF h, o
<1>6. PolicyRows'
  BY <1>1, <1>2, <1>3, <1>4, NewestWritten DEF PolicyInv
<1> QED BY <1>1, <1>5, <1>6, PolicyEnd

LEMMA PolicyConsume ==
    ASSUME OneWorker, TypeOK, VerificationInv, PolicyInv, NEW w \in Workers, Consume(w)
    PROVE  PolicyInv'
<1> DEFINE i == held[w].id
           o == Consumed(otps[i])
<1>1. /\ pc[w] = "consume" /\ i \in DOMAIN otps /\ i = Len(otps) /\ clock' = clock
      /\ otps[i].attempts = otps[i].wrong /\ otps[i].wrong <= MaxAttempts
      /\ End(w, "verified")
  BY DEF Consume, VerificationInv, InstanceInv, PolicyInv, PolicyRequest, PolicyRows,
         AttemptsLimited
<1>2. /\ o \in Otp /\ o.active = FALSE /\ o.attempts = otps[i].attempts
      /\ o.wrong = otps[i].wrong /\ o.by = otps[i].by /\ o.created = otps[i].created
  <2>1. otps[i] \in Otp
    BY <1>1, RowFacts
  <2> QED BY <2>1 DEF Consumed, Otp
<1>3. otps' = [otps EXCEPT ![i] = o]
  BY DEF Consume
<1> HIDE DEF i, o
<1>4. PolicyRows'
  BY <1>1, <1>2, <1>3, NewestWritten DEF PolicyInv
<1> QED BY <1>1, <1>4, PolicyEnd

(* resend_otp withdraws what there is; what it has checked still holds.     *)
LEMMA PolicyDeactivate ==
    ASSUME OneWorker, TypeOK, VerificationInv, PolicyInv, NEW w \in Workers, Deactivate(w)
    PROVE  PolicyInv'
<1>1. /\ pc[w] = "deactivate" /\ op[w] = "resend" /\ pc'[w] = "issue"
      /\ UNCHANGED <<op, at, clock>> /\ otps' = Deactivated
      /\ at[w] <= clock /\ ~TooSoon(w) /\ ~TooMany(w)
  BY DEF Deactivate, GoTo, request, TypeOK, VerificationInv, SignupInv, PolicyInv, PolicyRequest
<1>2. /\ otps' \in Seq(Otp) /\ DOMAIN otps' = DOMAIN otps
      /\ \A i \in DOMAIN otps :
            /\ otps'[i].active = FALSE /\ otps'[i].attempts = otps[i].attempts
            /\ otps'[i].wrong = otps[i].wrong /\ otps'[i].by = otps[i].by
            /\ otps'[i].created = otps[i].created
  BY <1>1, DeactivatedFacts
<1>3. Len(otps') = Len(otps)
  <2>1. Len(otps') \in Nat /\ DOMAIN otps' = 1..Len(otps')
    BY <1>2, LenProperties
  <2>2. Len(otps) \in Nat /\ DOMAIN otps = 1..Len(otps)
    BY RowFacts
  <2> QED BY <1>2, <2>1, <2>2, SameInterval
<1>4. CooldownKept' /\ HourlyCapKept' /\ ~TooSoon(w)' /\ ~TooMany(w)'
  BY <1>1, <1>2, <1>3, SpacingStands DEF PolicyInv, PolicyRows
<1>5. ActiveIds' = {} /\ OnlyNewestActive'
  BY <1>2 DEF ActiveIds, OnlyNewestActive
<1>6. ConsumedStaysConsumed' /\ AttemptsLimited'
      /\ \A i \in DOMAIN otps' : otps'[i].attempts = otps'[i].wrong /\ otps'[i].created <= clock'
  BY <1>1, <1>2 DEF PolicyInv, PolicyRows, ConsumedStaysConsumed, AttemptsLimited
<1>7. PolicyRequest(w)'
  BY <1>1, <1>4, <1>5 DEF PolicyRequest
<1>8. PolicyRows'
  BY <1>4, <1>5, <1>6 DEF PolicyRows
<1> QED BY <1>7, <1>8 DEF PolicyInv, OneWorker

(* A new row is paced by the tests that were passed before it. *)
LEMMA PolicyIssue ==
    ASSUME OneWorker, TypeOK, VerificationInv, PolicyInv, NEW w \in Workers, IssueOtp(w)
    PROVE  PolicyInv'
<1> DEFINE n == Len(otps) + 1
           o == [created |-> clock, expires |-> clock + Ttl, attempts |-> 0,
                 active |-> TRUE, consumed |-> FALSE, by |-> op[w], wrong |-> 0]
<1>1. /\ pc[w] = "issue" /\ op[w] \in {"signup", "resend"} /\ pc'[w] = "mail"
      /\ UNCHANGED <<op, at, clock>> /\ at[w] <= clock /\ at[w] \in Nat /\ clock \in Nat
      /\ ActiveIds = {} /\ (op[w] = "signup" => otps = <<>>)
      /\ op[w] = "resend" => ~TooSoon(w) /\ ~TooMany(w)
  BY DEF IssueOtp, GoTo, request, TypeOK, VerificationInv, SignupInv, PolicyInv, PolicyRequest
<1>2. o \in Otp
  <2>1. clock + Ttl \in Nat
    BY <1>1, LimitsAssumption
  <2> QED BY <1>1, <2>1 DEF Otp
<1>3. /\ Len(otps) \in Nat /\ DOMAIN otps = 1..Len(otps)
      /\ Len(otps') = n /\ DOMAIN otps' = 1..n /\ otps'[n] = o
      /\ \A i \in DOMAIN otps : otps'[i] = otps[i]
  BY <1>2, RowFacts, RowAppended DEF IssueOtp
<1>4. \A i \in DOMAIN otps' : i = n \/ (i # n /\ i \in DOMAIN otps)
  BY <1>3
<1>5. \A i \in DOMAIN otps : otps[i].created \in Nat /\ otps[i].created <= clock
  BY RowFacts DEF Otp, PolicyInv, PolicyRows
<1>6. /\ o.created = clock /\ o.attempts = 0 /\ o.wrong = 0 /\ o.consumed = FALSE
      /\ o.by = op[w]
  OBVIOUS
<1> HIDE DEF o
<1>7. OnlyNewestActive'
  BY <1>1, <1>3, <1>4 DEF OnlyNewestActive, ActiveIds
<1>8. ConsumedStaysConsumed' /\ AttemptsLimited'
  BY <1>3, <1>4, <1>6, LimitsAssumption
     DEF PolicyInv, PolicyRows, ConsumedStaysConsumed, AttemptsLimited
<1>9. \A i \in DOMAIN otps' : otps'[i].attempts = otps'[i].wrong /\ otps'[i].created <= clock'
  BY <1>1, <1>3, <1>4, <1>6 DEF PolicyInv, PolicyRows
<1>10. CooldownKept'
  <2> SUFFICES ASSUME NEW i \in DOMAIN otps', i > 1, otps'[i].by = "resend"
               PROVE  otps'[i].created - otps'[i - 1].created >= Cooldown
    BY DEF CooldownKept
  <2>1. i - 1 \in DOMAIN otps /\ otps'[i - 1] = otps[i - 1]
    BY <1>3
  <2>2. CASE i = n
    <3>1. otps # <<>> /\ i - 1 = Len(otps) /\ op[w] = "resend"
      BY <1>3, <1>6, <2>1, <2>2, EmptySeq
    <3>2. ~(at[w] - otps[i - 1].created < Cooldown)
      BY <1>1, <3>1 DEF TooSoon
    <3>3. otps'[i].created = clock /\ otps[i - 1].created \in Nat
      BY <1>3, <1>5, <1>6, <2>1, <2>2
    <3> QED BY <1>1, <2>1, <3>2, <3>3, LimitsAssumption
  <2>3. CASE i # n
    BY <1>3, <1>4, <2>1, <2>3 DEF PolicyInv, PolicyRows, CooldownKept
  <2> QED BY <2>2, <2>3
<1>11. HourlyCapKept'
  <2> SUFFICES ASSUME NEW i \in DOMAIN otps'
               PROVE  Cardinality({j \in 1..i : otps'[j].created >= otps'[i].created - Hour})
                        <= HourlyLimit
    BY DEF HourlyCapKept
  <2>1. CASE i # n
    <3>1. i \in DOMAIN otps /\ \A j \in 1..i : j \in DOMAIN otps
      BY <1>3, <1>4, <2>1
    <3>2. {j \in 1..i : otps'[j].created >= otps'[i].created - Hour}
            = {j \in 1..i : otps[j].created >= otps[i].created - Hour}
      BY <1>3, <3>1
    <3> QED BY <3>1, <3>2 DEF PolicyInv, PolicyRows, HourlyCapKept
  <2>2. CASE i = n
    <3> DEFINE T == {j \in 1..i : otps'[j].created >= otps'[i].created - Hour}
               S == IF op[w] = "signup" THEN {}
                    ELSE {j \in DOMAIN otps : otps[j].created >= at[w] - Hour}
    <3>1. S \in SUBSET (1..Len(otps)) /\ IsFiniteSet(1..Len(otps))
      BY <1>3, FS_Interval
    <3>2. IsFiniteSet(S) /\ Cardinality(S) \in Nat
      BY <3>1, FS_Subset, FS_CardinalityType
    <3>3. Cardinality(S) < HourlyLimit
      <4>1. CASE op[w] = "signup"
        BY <4>1, FS_EmptySet, LimitsAssumption
      <4>2. CASE op[w] = "resend"
        <5>1. ~(Cardinality(S) >= HourlyLimit)
          BY <1>1, <4>2 DEF TooMany
        <5> QED BY <3>2, <5>1, LimitsAssumption
      <4> QED BY <1>1, <4>1, <4>2
    <3>4. T \in SUBSET (S \cup {n})
      <4> SUFFICES ASSUME NEW j \in T, j # n PROVE j \in S
        OBVIOUS
      <4>1. j \in DOMAIN otps /\ otps[j].created >= clock - Hour
        BY <1>3, <1>6, <2>2
      <4>2. op[w] # "signup"
        BY <1>1, <1>3, <4>1, EmptySeq
      <4>3. otps[j].created >= at[w] - Hour
        BY <1>1, <1>5, <4>1, LimitsAssumption
      <4> QED BY <4>1, <4>2, <4>3
    <3> HIDE DEF S
    <3>5. IsFiniteSet(S \cup {n}) /\ Cardinality(S \cup {n}) <= Cardinality(S) + 1
      <4>1. IsFiniteSet(S \cup {n}) /\ Cardinality(S \cup {n}) =
              IF n \in S THEN Cardinality(S) ELSE Cardinality(S) + 1
        BY <3>2, FS_AddElement
      <4> QED BY <3>2, <4>1
    <3>6. IsFiniteSet(T) /\ Cardinality(T) <= Cardinality(S \cup {n})
      BY <3>4, <3>5, FS_Subset
    <3>7. Cardinality(T) \in Nat /\ Cardinality(S \cup {n}) \in Nat
      BY <3>5, <3>6, FS_CardinalityType
    <3> QED BY <3>2, <3>3, <3>5, <3>6, <3>7, LimitsAssumption
  <2> QED BY <2>1, <2>2
<1>12. PolicyRows'
  BY <1>7, <1>8, <1>9, <1>10, <1>11 DEF PolicyRows
<1>13. PolicyRequest(w)'
  BY <1>1 DEF PolicyRequest
<1> QED BY <1>12, <1>13 DEF PolicyInv, OneWorker

LEMMA PolicyInit == Init => PolicyInv
<1> SUFFICES ASSUME Init PROVE PolicyInv
  OBVIOUS
<1>1. otps = <<>> /\ DOMAIN otps = {}
  <2>1. otps = <<>> /\ <<>> \in Seq(Otp) /\ Len(<<>>) = 0
    BY EmptySeq DEF Init
  <2>2. DOMAIN otps = 1..0
    BY <2>1, LenProperties
  <2> QED BY <2>1, <2>2
<1>2. PolicyRows
  BY <1>1 DEF PolicyRows, OnlyNewestActive, ConsumedStaysConsumed, AttemptsLimited,
     CooldownKept, HourlyCapKept, ActiveIds
<1>3. \A w \in Workers : PolicyRequest(w)
  <2>1. \A w \in Workers : at[w] = 0 /\ pc[w] = "idle" /\ clock = 0
    BY DEF Init
  <2> QED BY <2>1 DEF PolicyRequest
<1> QED BY <1>2, <1>3 DEF PolicyInv

-----------------------------------------------------------------------------
LEMMA PolicyStep ==
    ASSUME OneWorker, TypeOK, VerificationInv, PolicyInv, [Next]_vars
    PROVE  PolicyInv'
<1>1. CASE Tick
  <2>1. clock' = clock + 1 /\ clock \in Nat /\ UNCHANGED <<otps, pc, op, held, at>>
    BY <1>1, RowFacts DEF Tick
  <2>2. PolicyRows'
    BY <2>1, RowsStand DEF PolicyInv
  <2>3. ASSUME NEW w \in Workers PROVE PolicyRequest(w)'
    <3>1. at'[w] <= clock'
      <4>1. at[w] \in Nat /\ at[w] <= clock
        BY DEF TypeOK, PolicyInv, PolicyRequest
      <4> QED BY <2>1, <4>1
    <3> QED BY <2>1, <3>1 DEF PolicyInv, PolicyRequest, ActiveIds, TooSoon, TooMany
  <2> QED BY <2>2, <2>3 DEF PolicyInv
<1>2. CASE UNCHANGED vars
  BY <1>2, PolicyAnswer DEF vars
<1>3. ASSUME NEW w \in Workers, NEW answer, Answer(w, answer), UNCHANGED <<otps, clock>>
      PROVE  PolicyInv'
  BY <1>3, PolicyAnswer DEF Answer, request
<1>4. ASSUME NEW w \in Workers, NEW answer, End(w, answer), UNCHANGED <<otps, clock>>
      PROVE  PolicyInv'
  <2>1. PolicyRows'
    <3>1. clock' \in Nat /\ clock <= clock'
      BY <1>4, RowFacts
    <3> QED BY <1>4, <3>1, RowsStand DEF PolicyInv
  <2> QED BY <1>4, <2>1, PolicyEnd
<1>5. ASSUME NEW w \in Workers, NEW l, pc'[w] = l, l \in {"create", "cooldown"},
             at'[w] \in {at[w], clock}, UNCHANGED <<otps, clock>>
      PROVE  PolicyInv'
  <2>1. clock' \in Nat /\ clock <= clock'
    BY <1>5, RowFacts
  <2>2. PolicyRows'
    BY <1>5, <2>1, RowsStand DEF PolicyInv
  <2>3. at'[w] <= clock'
    BY <1>5, <2>1 DEF PolicyInv, PolicyRequest
  <2>4. PolicyRequest(w)'
    BY <1>5, <2>3 DEF PolicyRequest
  <2> QED BY <2>2, <2>4 DEF PolicyInv, OneWorker
<1>6. ASSUME NEW w \in Workers, Signup(w) \/ Resend(w) PROVE PolicyInv'
  <2>1. UNCHANGED <<otps, clock>>
    BY <1>6 DEF Signup, Resend
  <2>2. \/ \E answer : Answer(w, answer)
        \/ \E l \in {"create", "cooldown"} : pc'[w] = l /\ at'[w] \in {at[w], clock}
    BY <1>6 DEF Signup, Resend, Begin, TypeOK
  <2> QED BY <1>3, <1>5, <2>1, <2>2
<1>7. ASSUME NEW w \in Workers, NEW goodPassword, Login(w, goodPassword) PROVE PolicyInv'
  BY <1>3, <1>7 DEF Login
<1>8. ASSUME NEW w \in Workers, SendEmail(w) \/ Crash(w) PROVE PolicyInv'
  BY <1>4, <1>8 DEF SendEmail, Crash
<1>9. ASSUME NEW w \in Workers, CreateUser(w) PROVE PolicyInv'
  <2>1. CASE Taken
    BY <1>4, <1>9, <2>1 DEF CreateUser
  <2>2. CASE ~Taken
    <3>1. otps = <<>> /\ op[w] = "signup"
      BY <1>9, <2>2 DEF CreateUser, Taken, VerificationInv, SignupInv
    <3>2. GoTo(w, "issue") /\ UNCHANGED <<otps, clock>>
      BY <1>9, <2>2 DEF CreateUser
    <3> QED BY <3>1, <3>2, PolicyGoTo
  <2> QED BY <2>1, <2>2
<1>10. ASSUME NEW w \in Workers, CheckCooldown(w) PROVE PolicyInv'
  <2>1. UNCHANGED <<otps, clock>> /\ IF TooSoon(w) THEN End(w, "otp_resend_cooldown") ELSE GoTo(w, "count")
    BY <1>10 DEF CheckCooldown
  <2>2. CASE TooSoon(w)
    BY <1>4, <2>1, <2>2
  <2>3. CASE ~TooSoon(w)
    BY <2>1, <2>3, PolicyGoTo
  <2> QED BY <2>2, <2>3
<1>11. ASSUME NEW w \in Workers, CheckHourly(w) PROVE PolicyInv'
  <2>1. /\ UNCHANGED <<otps, clock>> /\ pc[w] = "count"
        /\ IF TooMany(w) THEN End(w, "otp_resend_cooldown") ELSE GoTo(w, "deactivate")
    BY <1>11 DEF CheckHourly
  <2>2. CASE TooMany(w)
    BY <1>4, <2>1, <2>2
  <2>3. CASE ~TooMany(w)
    <3>1. ~TooSoon(w)
      BY <2>1 DEF VerificationInv, SignupInv, PolicyInv, PolicyRequest
    <3> QED BY <2>1, <2>3, <3>1, PolicyGoTo
  <2> QED BY <2>2, <2>3
<1> QED
  BY <1>1, <1>2, <1>6, <1>7, <1>8, <1>9, <1>10, <1>11, PolicyVerify, PolicyIssue,
     PolicyDeactivate, PolicyJudge, PolicySave, PolicyConsume DEF Next, Step

(* One worker alone: the rows, and the request between its statements.      *)
THEOREM PoliciesHold == ASSUME OneWorker PROVE Spec => []PolicyInv
<1>1. TypeOK /\ VerificationInv /\ PolicyInv /\ [Next]_vars => PolicyInv'
  BY PolicyStep
<1> QED BY <1>1, PolicyInit, VerificationInvariant, PTL DEF Spec

(* One worker alone: only the newest code is valid, and a consumed code     *)
(* never again.                                                             *)
THEOREM CodesAreSpent == ASSUME OneWorker PROVE Spec => [](OnlyNewestActive /\ ConsumedStaysConsumed)
<1>1. PolicyInv => OnlyNewestActive /\ ConsumedStaysConsumed
  BY DEF PolicyInv, PolicyRows
<1> QED BY <1>1, PoliciesHold, PTL

(* One worker alone: verify_email answers at most MaxAttempts wrong guesses *)
(* of a code.                                                               *)
THEOREM GuessesAreLimited == ASSUME OneWorker PROVE Spec => []AttemptsLimited
<1>1. PolicyInv => AttemptsLimited
  BY DEF PolicyInv, PolicyRows
<1> QED BY <1>1, PoliciesHold, PTL

(* One worker alone: a resend never issues a code within the cooldown of    *)
(* the one before.                                                          *)
THEOREM CooldownIsKept == ASSUME OneWorker PROVE Spec => []CooldownKept
<1>1. PolicyInv => CooldownKept
  BY DEF PolicyInv, PolicyRows
<1> QED BY <1>1, PoliciesHold, PTL

(* One worker alone: the hour before any code holds no more codes than the  *)
(* hourly cap.                                                              *)
THEOREM HourlyCapIsKept == ASSUME OneWorker PROVE Spec => []HourlyCapKept
<1>1. PolicyInv => HourlyCapKept
  BY DEF PolicyInv, PolicyRows
<1> QED BY <1>1, PoliciesHold, PTL

-----------------------------------------------------------------------------
(* Any number of workers. *)

(* Tokens are only given once a code has been consumed: nothing takes the   *)
(* verification back.                                                       *)
THEOREM TokensAreEarned == Spec => []TokensNeedCode
<1> DEFINE Inv == (\E w \in Workers : reply[w] = "tokens") => account = "verified"
<1>1. Init => Inv
  BY DEF Init
<1>2. ASSUME TypeOK, Inv, [Next]_vars PROVE Inv'
  <2>1. account = "verified" => account' = "verified"
    BY <1>2 DEF Next, Step, vars, Tick, Signup, Resend, Verify, Login, Crash, CreateUser,
       Taken, IssueOtp, SendEmail, CheckCooldown, CheckHourly, Deactivate, Judge,
       SaveWrongGuess, Consume
  <2>2. ASSUME NEW w \in Workers, reply'[w] = "tokens"
        PROVE  reply[w] = "tokens" \/ account = "verified"
    <3>1. reply \in [Workers -> Replies]
      BY <1>2 DEF TypeOK
    <3>2. ASSUME NEW v \in Workers, NEW answer, reply' = [reply EXCEPT ![v] = answer],
                 answer # "tokens"
          PROVE  reply[w] = "tokens"
      BY <2>2, <3>1, <3>2
    <3>3. ASSUME NEW v \in Workers, NEW goodPassword, Login(v, goodPassword)
          PROVE  reply[w] = "tokens" \/ account = "verified"
      BY <2>2, <3>1, <3>3 DEF Login, Answer, Verified
    <3>4. CASE Tick \/ UNCHANGED vars
      BY <2>2, <3>4 DEF Tick, vars
    <3>5. ASSUME NEW v \in Workers, NEW c, Signup(v) \/ Resend(v) \/ Verify(v, c) \/ Crash(v)
          PROVE  reply[w] = "tokens"
      BY <3>2, <3>5 DEF Signup, Resend, Verify, Crash, Answer, Begin, End
    <3>6. ASSUME NEW v \in Workers, Step(v) PROVE reply[w] = "tokens"
      <4>1. reply' = reply \/ \E answer : answer # "tokens" /\ reply' = [reply EXCEPT ![v] = answer]
        BY <3>6 DEF Step, CreateUser, IssueOtp, SendEmail, CheckCooldown, CheckHourly,
           Deactivate, Judge, SaveWrongGuess, Consume, End, GoTo
      <4> QED BY <2>2, <3>2, <4>1
    <3> QED BY <1>2, <3>3, <3>4, <3>5, <3>6 DEF Next
  <2> QED BY <1>2, <2>1, <2>2
<1>3. TypeOK /\ VerificationInv /\ Inv => TokensNeedCode
  BY DEF VerificationInv, VerifiedByCode, TokensNeedCode
<1> QED BY <1>1, <1>2, <1>3, VerificationInvariant, PTL DEF Spec

(* Every variable always has its type. *)
THEOREM RowsAreWellTyped == Spec => []TypeOK
BY VerificationInvariant, PTL
=============================================================================
