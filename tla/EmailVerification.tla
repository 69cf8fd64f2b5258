--------------------------- MODULE EmailVerification ---------------------------
(***************************************************************************)
(* One email address through signup, verify-email, resend-otp and login     *)
(* (apps/accounts): its account, its EmailOTP rows and the requests that    *)
(* read and write them.  Every query of these services filters by one user, *)
(* so addresses do not interact and one is enough.                          *)
(*                                                                         *)
(* Statements autocommit (only account creation and consumption are         *)
(* transactions, one action each), so another worker can run between any    *)
(* two of them.  A row's index in `otps` is its id and its rank by          *)
(* created_at.  The code of row i is the number i; 0 is a wrong guess.      *)
(***************************************************************************)
EXTENDS Integers, Sequences, FiniteSets

CONSTANTS
    Workers,      \* gunicorn workers
    MaxAttempts,  \* OTP_MAX_ATTEMPTS
    Ttl,          \* OTP_TTL_MINUTES
    Cooldown,     \* OTP_RESEND_COOLDOWN_SECONDS
    Hour,         \* the trailing window of the resend cap
    HourlyLimit,  \* OTP_RESEND_HOURLY_LIMIT
    MaxOtps,      \* bound: how many codes are ever issued
    MaxTime,      \* bound: when the clock stops
    NoOtp         \* no EmailOTP instance

ASSUME LimitsAssumption ==
    /\ MaxAttempts \in Nat \ {0} /\ HourlyLimit \in Nat \ {0}
    /\ Ttl \in Nat \ {0} /\ Cooldown \in Nat \ {0} /\ Hour \in Nat \ {0}
    /\ MaxOtps \in Nat /\ MaxTime \in Nat

VARIABLES
    account,  \* the user of this address and its profile's is_email_verified
    otps,     \* the user's EmailOTP rows, oldest first
    clock,    \* timezone.now()
    pc,       \* the statement each worker executes next
    op,       \* the endpoint it serves
    code,     \* the code a verify-email request carries
    held,     \* the EmailOTP instance verify_email holds
    at,       \* `now` as resend_otp read it
    reply     \* the last answer each worker gave

vars == <<account, otps, clock, pc, op, code, held, at, reply>>
request == <<op, code, held, at>>

(* An EmailOTP row; `by` and `wrong` are history, not columns: the endpoint *)
(* that issued it and the wrong guesses at it that have been answered.     *)
Otp == [created : Nat, expires : Nat, attempts : Nat, active : BOOLEAN,
        consumed : BOOLEAN, by : {"signup", "resend"}, wrong : Nat]
Instance == [id : Nat, expires : Nat, attempts : Nat, active : BOOLEAN]

ASSUME NoOtpAssumption == NoOtp \notin Instance

ActiveIds == {i \in DOMAIN otps : otps[i].active}

-----------------------------------------------------------------------------
(* Faulty variants of definitions below, one plausible bug each; none is    *)
(* part of the specification.                                              *)

(* The cooldown is not enforced, or the cap is off by one.                 *)
TooSoon_Never(w) == FALSE
TooMany_Above(w) ==
    Cardinality({i \in DOMAIN otps : otps[i].created >= at[w] - Hour})
        > HourlyLimit

(* One guess too many before the code is withdrawn; attempts counts down   *)
(* instead of up.                                                          *)
Guessed_OneMore(h) ==
    [h EXCEPT !.attempts = @ + 1, !.active = h.attempts < MaxAttempts]
Guessed_Down(h) ==
    [h EXCEPT !.attempts = @ - 1, !.active = @ /\ h.attempts # 1]

(* A resend leaves the older codes alone.                                  *)
Deactivated_None == otps

(* A consumed code stays active.                                           *)
Consumed_StillActive(o) == [o EXCEPT !.consumed = TRUE]

(* The unique index on the address is missing.                             *)
Taken_Never == FALSE

(* Login forgets to look at the profile.                                   *)
Verified_Ignored == account # "none"

-----------------------------------------------------------------------------
Init ==
    /\ account = "none"
    /\ otps = <<>>
    /\ clock = 0
    /\ pc = [w \in Workers |-> "idle"]
    /\ op = [w \in Workers |-> ""]
    /\ code = [w \in Workers |-> 0]
    /\ held = [w \in Workers |-> NoOtp]
    /\ at = [w \in Workers |-> 0]
    /\ reply = [w \in Workers |-> ""]

GoTo(w, label) ==
    /\ pc' = [pc EXCEPT ![w] = label]
    /\ UNCHANGED <<request, reply>>

(* The request ends, with an answer or with an exception's code.           *)
End(w, answer) ==
    /\ pc' = [pc EXCEPT ![w] = "idle"]
    /\ op' = [op EXCEPT ![w] = ""]
    /\ code' = [code EXCEPT ![w] = 0]
    /\ held' = [held EXCEPT ![w] = NoOtp]
    /\ at' = [at EXCEPT ![w] = 0]
    /\ reply' = [reply EXCEPT ![w] = answer]

Begin(w, endpoint, label) ==
    /\ pc' = [pc EXCEPT ![w] = label]
    /\ op' = [op EXCEPT ![w] = endpoint]
    /\ reply' = [reply EXCEPT ![w] = ""]

(* Answered after one read.                                                *)
Answer(w, answer) ==
    /\ reply' = [reply EXCEPT ![w] = answer]
    /\ UNCHANGED <<pc, request>>

(* Bound: the codes being issued still fit in MaxOtps rows.                *)
RoomForOtps ==
    Len(otps) + Cardinality({w \in Workers : pc[w] \notin {"idle", "mail"}
                                             /\ op[w] \in {"signup", "resend"}})
        < MaxOtps

Tick ==
    /\ clock < MaxTime
    /\ clock' = clock + 1
    /\ UNCHANGED <<account, otps, pc, op, code, held, at, reply>>

(* gunicorn kills the worker; what it has written is committed.            *)
Crash(w) ==
    /\ pc[w] # "idle"
    /\ End(w, "")
    /\ UNCHANGED <<account, otps, clock>>

-----------------------------------------------------------------------------
(* signup                                                                  *)

(* The unique index on LOWER(email).                                       *)
Taken == account # "none"

(* validate_email's pre-check.                                             *)
Signup(w) ==
    /\ pc[w] = "idle"
    /\ RoomForOtps
    /\ IF account # "none"
       THEN Answer(w, "email_taken")
       ELSE Begin(w, "signup", "create") /\ UNCHANGED <<code, held, at>>
    /\ UNCHANGED <<account, otps, clock>>

(* transaction.atomic(): user and profile together, or a validation error. *)
CreateUser(w) ==
    /\ pc[w] = "create"
    /\ IF Taken
       THEN End(w, "email_taken") /\ UNCHANGED account
       ELSE GoTo(w, "issue") /\ account' = "unverified"
    /\ UNCHANGED <<otps, clock>>

-----------------------------------------------------------------------------
(* issue_and_email_otp, for signup and for resend                          *)

IssueOtp(w) ==
    /\ pc[w] = "issue"
    /\ otps' = Append(otps, [created |-> clock, expires |-> clock + Ttl,
                             attempts |-> 0, active |-> TRUE,
                             consumed |-> FALSE, by |-> op[w], wrong |-> 0])
    /\ GoTo(w, "mail")
    /\ UNCHANGED <<account, clock>>

(* send_mail may raise, and nothing takes the row back.                    *)
SendEmail(w) ==
    /\ pc[w] = "mail"
    /\ \E answer \in {"sent", "server_error"} : End(w, answer)
    /\ UNCHANGED <<account, otps, clock>>

-----------------------------------------------------------------------------
(* resend_otp                                                              *)

Resend(w) ==
    /\ pc[w] = "idle"
    /\ RoomForOtps
    /\ IF account = "none"
       THEN Answer(w, "no_account")
       ELSE /\ Begin(w, "resend", "cooldown")
            /\ at' = [at EXCEPT ![w] = clock]
            /\ UNCHANGED <<code, held>>
    /\ UNCHANGED <<account, otps, clock>>

TooSoon(w) ==
    otps # <<>> /\ at[w] - otps[Len(otps)].created < Cooldown

CheckCooldown(w) ==
    /\ pc[w] = "cooldown"
    /\ IF TooSoon(w)
       THEN End(w, "otp_resend_cooldown")
       ELSE GoTo(w, "count")
    /\ UNCHANGED <<account, otps, clock>>

TooMany(w) ==
    Cardinality({i \in DOMAIN otps : otps[i].created >= at[w] - Hour})
        >= HourlyLimit

CheckHourly(w) ==
    /\ pc[w] = "count"
    /\ IF TooMany(w)
       THEN End(w, "otp_resend_cooldown")
       ELSE GoTo(w, "deactivate")
    /\ UNCHANGED <<account, otps, clock>>

Deactivated == [i \in DOMAIN otps |-> [otps[i] EXCEPT !.active = FALSE]]

(* One UPDATE over the user's active rows.                                 *)
Deactivate(w) ==
    /\ pc[w] = "deactivate"
    /\ otps' = Deactivated
    /\ GoTo(w, "issue")
    /\ UNCHANGED <<account, clock>>

-----------------------------------------------------------------------------
(* verify_email                                                            *)

(* _latest_active_otp's candidates; the newest of them is loaded.          *)
Loaded == ActiveIds

(* The user and the latest active row are read; an unknown address and an  *)
(* address without an active code get the same answer.                     *)
Verify(w, c) ==
    /\ pc[w] = "idle"
    /\ IF Loaded = {}
       THEN Answer(w, "otp_invalid")
       ELSE \E i \in Loaded :
                /\ \A j \in Loaded : j <= i
                /\ Begin(w, "verify", "judge")
                /\ code' = [code EXCEPT ![w] = c]
                /\ held' = [held EXCEPT ![w] =
                       [id |-> i, expires |-> otps[i].expires,
                        attempts |-> otps[i].attempts,
                        active |-> otps[i].active]]
                /\ UNCHANGED at
    /\ UNCHANGED <<account, otps, clock>>

(* What a wrong guess does to the instance in memory.                      *)
Guessed(h) ==
    [h EXCEPT !.attempts = @ + 1,
              !.active = IF h.attempts + 1 >= MaxAttempts THEN FALSE ELSE @]

Judge(w) ==
    /\ pc[w] = "judge"
    /\ IF held[w].expires <= clock
       THEN End(w, "otp_expired")
       ELSE IF code[w] = held[w].id
            THEN GoTo(w, "consume")
            ELSE /\ held' = [held EXCEPT ![w] = Guessed(@)]
                 /\ pc' = [pc EXCEPT ![w] = "save"]
                 /\ UNCHANGED <<op, code, at, reply>>
    /\ UNCHANGED <<account, otps, clock>>

(* save(update_fields=["attempts", "is_active"]), from the instance.       *)
SaveWrongGuess(w) ==
    LET h == held[w]
    IN  /\ pc[w] = "save"
        /\ otps' = [otps EXCEPT ![h.id].attempts = h.attempts,
                                ![h.id].active = h.active,
                                ![h.id].wrong = @ + 1]
        /\ End(w, IF h.attempts >= MaxAttempts
                  THEN "otp_attempts_exceeded" ELSE "otp_invalid")
        /\ UNCHANGED <<account, clock>>

Consumed(o) == [o EXCEPT !.active = FALSE, !.consumed = TRUE]

(* transaction.atomic(): the code is consumed and the profile verified.    *)
Consume(w) ==
    /\ pc[w] = "consume"
    /\ otps' = [otps EXCEPT ![held[w].id] = Consumed(@)]
    /\ account' = "verified"
    /\ End(w, "verified")
    /\ UNCHANGED <<clock>>

-----------------------------------------------------------------------------
(* authenticate_and_issue_tokens: reads only.                              *)
Verified == account = "verified"

Login(w, goodPassword) ==
    /\ pc[w] = "idle"
    /\ Answer(w, IF account = "none" \/ ~goodPassword
                 THEN "authentication_failed"
                 ELSE IF Verified THEN "tokens" ELSE "email_not_verified")
    /\ UNCHANGED <<account, otps, clock>>

-----------------------------------------------------------------------------
Step(w) ==
    \/ CreateUser(w) \/ IssueOtp(w) \/ SendEmail(w)
    \/ CheckCooldown(w) \/ CheckHourly(w) \/ Deactivate(w)
    \/ Judge(w) \/ SaveWrongGuess(w) \/ Consume(w)

Next ==
    \/ Tick
    \/ \E w \in Workers :
        \/ Signup(w) \/ Resend(w)
        \/ \E c \in 0..Len(otps) : Verify(w, c)
        \/ \E goodPassword \in BOOLEAN : Login(w, goodPassword)
        \/ Step(w)
        \/ Crash(w)

Spec == Init /\ [][Next]_vars

-----------------------------------------------------------------------------
(* Properties                                                              *)

Labels == {"idle", "create", "issue", "mail", "cooldown", "count",
           "deactivate", "judge", "save", "consume"}

Replies == {"", "sent", "verified", "tokens", "email_taken", "no_account",
            "authentication_failed", "email_not_verified", "otp_invalid",
            "otp_expired", "otp_attempts_exceeded", "otp_resend_cooldown",
            "server_error"}

(* Every variable has the type the code gives it.                          *)
TypeOK ==
    /\ account \in {"none", "unverified", "verified"}
    /\ otps \in Seq(Otp)
    /\ clock \in Nat
    /\ pc \in [Workers -> Labels]
    /\ op \in [Workers -> {"", "signup", "resend", "verify"}]
    /\ code \in [Workers -> Nat]
    /\ held \in [Workers -> Instance \cup {NoOtp}]
    /\ at \in [Workers -> Nat]
    /\ reply \in [Workers -> Replies]

(* Only the newest code is ever valid: no older row is active.             *)
OnlyNewestActive == \A i \in ActiveIds : i = Len(otps)

(* A code that has verified the address can never be used again.           *)
ConsumedStaysConsumed == \A i \in DOMAIN otps : otps[i].consumed => ~otps[i].active

(* No code outlives MaxAttempts wrong guesses: once that many have been    *)
(* answered, no further guess at it is.                                    *)
AttemptsLimited == \A i \in DOMAIN otps : otps[i].wrong <= MaxAttempts

(* Consecutive codes are at least the cooldown apart.                      *)
CooldownKept ==
    \A i \in DOMAIN otps :
        i > 1 /\ otps[i].by = "resend"
            => otps[i].created - otps[i - 1].created >= Cooldown

(* No window of an hour holds more codes than the cap, signup's included.  *)
HourlyCapKept ==
    \A i \in DOMAIN otps :
        Cardinality({j \in 1..i : otps[j].created >= otps[i].created - Hour})
            <= HourlyLimit

(* An active code has guesses left, however stale the save that set it.    *)
ActiveHasGuessesLeft == \A i \in ActiveIds : otps[i].attempts < MaxAttempts

(* Nobody is locked out for guesses that were not made.                    *)
AttemptsNeverOverstated == \A i \in DOMAIN otps : otps[i].attempts <= otps[i].wrong

(* An address is verified exactly when one of its codes was consumed.      *)
VerifiedByCode ==
    account = "verified" <=> \E i \in DOMAIN otps : otps[i].consumed

(* Concurrent signups for one address make one account and one code.       *)
OneSignup ==
    \A i, j \in DOMAIN otps :
        otps[i].by = "signup" /\ otps[j].by = "signup" => i = j

(* PolicyInv: what one worker alone keeps, made inductive.  The instance it *)
(* holds is the newest row, still active and as it was loaded; the row it   *)
(* is about to issue replaces none that is active; and what resend_otp has  *)
(* checked is still so when it issues.                                      *)
PolicyRows ==
    /\ OnlyNewestActive /\ ConsumedStaysConsumed /\ AttemptsLimited
    /\ CooldownKept /\ HourlyCapKept
    /\ \A i \in DOMAIN otps : otps[i].attempts = otps[i].wrong /\ otps[i].created <= clock

PolicyRequest(w) ==
    /\ at[w] <= clock
    /\ pc[w] \in {"judge", "save", "consume"} =>
           LET o == otps[held[w].id]
           IN  /\ held[w].id = Len(otps) /\ o.active
               /\ held[w].attempts = o.attempts + IF pc[w] = "save" THEN 1 ELSE 0
    /\ pc[w] = "issue" => ActiveIds = {} /\ (op[w] = "signup" => otps = <<>>)
    /\ op[w] = "resend" /\ pc[w] \in {"count", "deactivate", "issue"} => ~TooSoon(w)
    /\ op[w] = "resend" /\ pc[w] \in {"deactivate", "issue"} => ~TooMany(w)

PolicyInv == PolicyRows /\ \A w \in Workers : PolicyRequest(w)

(* Why it works: an instance in memory is a copy of a row that still        *)
(* exists, and its count is never ahead of the guesses at that row.        *)
InstanceInv(w) ==
    /\ pc[w] \in {"judge", "save", "consume"} =>
           held[w] # NoOtp /\ held[w].id \in DOMAIN otps
    /\ pc[w] = "judge" =>
           /\ held[w].attempts < MaxAttempts
           /\ held[w].attempts <= otps[held[w].id].wrong
    /\ pc[w] = "save" =>
           /\ held[w].active => held[w].attempts < MaxAttempts
           /\ held[w].attempts <= otps[held[w].id].wrong + 1

(* An account exists before its codes; signup's is issued by the one worker *)
(* that created the account, and only once.                                *)
SignupInv ==
    /\ account = "none" =>
           /\ otps = <<>>
           /\ \A w \in Workers : pc[w] \in {"idle", "create"}
    /\ \A w \in Workers :
           /\ pc[w] = "create" => op[w] = "signup"
           /\ pc[w] \in {"cooldown", "count", "deactivate"} => op[w] = "resend"
           /\ pc[w] = "issue" => op[w] \in {"signup", "resend"}
    /\ \A v, w \in Workers :
           /\ pc[v] = "issue" /\ op[v] = "signup"
           /\ pc[w] = "issue" /\ op[w] = "signup"
           => v = w
    /\ (\E w \in Workers : pc[w] = "issue" /\ op[w] = "signup") =>
           \A i \in DOMAIN otps : otps[i].by # "signup"

VerificationInv ==
    /\ ActiveHasGuessesLeft
    /\ AttemptsNeverOverstated
    /\ VerifiedByCode
    /\ OneSignup
    /\ SignupInv
    /\ \A w \in Workers : InstanceInv(w)

(* Tokens are only ever given to the owner of a consumed code.             *)
TokensNeedCode ==
    (\E w \in Workers : reply[w] = "tokens")
        => \E i \in DOMAIN otps : otps[i].consumed
=============================================================================
