SPECIFICATION Spec
CONSTANTS
    here = here
    elsewhere = elsewhere
    i1 = i1
    i2 = i2
    i3 = i3
    i4 = i4
    Absent = Absent
    Marks <- TwoMarks
    Plans <- ReaderPlans
    PageSize = 1
    MaxRows = 3
    MaxChanges = 2
    Ids <- FourIds
    MaxTime = 1
CHECK_DEADLOCK FALSE
SYMMETRY Symmetry
INVARIANTS
    NothingMissed
    NothingRepeated
    NextLeadsSomewhere
