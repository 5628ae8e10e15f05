SPECIFICATION Spec
CONSTANTS
    Caller = {c1, c2, c3}
    NSlot = 2
    Ind = {i1, i2}
    None = None
    MaxCalls = 1
    Spurious = FALSE
SYMMETRY Sym
INVARIANTS
    SlotOwnership InUseTracksSlots PayloadOwned
    IndicationsKept SuccessMeansAnswered
CHECK_DEADLOCK FALSE
