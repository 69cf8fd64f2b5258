SPECIFICATION Spec
CONSTANTS
    e1 = e1
    s1 = s1
    s2 = s2
    s3 = s3
    w1 = w1
    w2 = w2
    w3 = w3
    Unlimited = Unlimited
    NoRow = NoRow
    Clean = Clean
    NoReq = NoReq
    NoWorker = NoWorker
    Events <- OneEvent
    Seekers <- ThreeSeekers
    Workers <- ThreeWorkers
    Capacities <- TwoSeats
    Ops <- BookingOps
    MaxRows = 3
SYMMETRY Symmetry
INVARIANTS
    SeatsAccurate
    NeverOverbooked
    BackstopsStayQuiet
PROPERTIES
    ImplementsLedger
