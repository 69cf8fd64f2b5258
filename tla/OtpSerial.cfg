SPECIFICATION Spec
CONSTANTS
    w1 = w1
    w2 = w2
    NoOtp = NoOtp
    Workers <- OneWorker
    MaxAttempts = 2
    Ttl = 2
    Cooldown = 1
    Hour = 4
    HourlyLimit = 3
    MaxOtps = 4
    MaxTime = 6
INVARIANTS
    OnlyNewestActive
    PolicyInv
    AttemptsLimited
    CooldownKept
    HourlyCapKept
