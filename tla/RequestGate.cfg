SPECIFICATION Spec
CONSTANTS
    w1 = w1
    w2 = w2
    sam = sam
    new = new
    fay = fay
    root = root
    Nobody = Nobody
    Workers <- TwoWorkers
    Seekers <- TwoSeekers
    Newcomers = {new}
    Facilitators = {fay}
    Strangers = {root}
    Mixes <- SampleMixes
    Rate = 2
    Duration = 2
    MaxTime = 2
    MaxOutages = 1
SYMMETRY Symmetry
INVARIANTS
    RolesInv
    RateKept
PROPERTIES
    RefusedOnlyWhenFull
    BareErrorsExplained
