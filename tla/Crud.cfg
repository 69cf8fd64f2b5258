SPECIFICATION ApartSpec
CONSTANTS
    e1 = e1
    s1 = s1
    s2 = s2
    s3 = s3
    w1 = w1
    w2 = w2
    w3 = w3
    Unlimited = Unlimited
    NoRow = NoRow
    Clean = Clean
    NoReq = NoReq
    NoWorker = NoWorker
    Events <- OneEvent
    Seekers <- TwoSeekers
    Workers <- ThreeWorkers
    Capacities <- LastSeat
    Ops <- AllOps
    MaxRows = 3
SYMMETRY Symmetry
INVARIANTS
    BookingInv
PROPERTIES
    ImplementsLedger
