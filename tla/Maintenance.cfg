SPECIFICATION Spec
CONSTANTS
    real = real
    conc = conc
    life = life
    ria = ria
    rob = rob
    d1 = d1
    d2 = d2
    OtherEvents = {real}
    Concurrency = conc
    Lifecycle = life
    RealSeekers = {ria, rob}
    FirstSeekers = {d1}
    LifecycleSeeker = d2
    SpareSeekers = {}
    Capacity <- SmallCapacities
    MaxCancels = 4
INVARIANTS
    LedgerInv
    NeverOverbooked
PROPERTIES
    ReseedIsExact
    ComesUp
