SPECIFICATION Spec
CONSTANTS
    sam = sam
    fay = fay
    c1 = c1
    c2 = c2
    None = None
    Seekers = {sam}
    Facilitators = {fay}
    Slots <- TwoSlots
INVARIANTS
    SessionInv
    ListIsCurrent
PROPERTIES
    ActsForItsUser
    EveryCallEnds
