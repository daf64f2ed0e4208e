SPECIFICATION FairSpec
CONSTANTS
    Writers = {w1, w2}
    Data = {d1, d2}
    None = None
    Entries = 2
    MaxInterrupts = 1
INVARIANTS OnePermitPerInterruption  TableSound
PROPERTIES ImplementsFifo ReadReturns
