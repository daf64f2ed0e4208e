SPECIFICATION Spec
CONSTANTS
    Writers = {w1, w2, w3}
    Data = {d1, d2}
    None = None
    Entries = 2
    MaxInterrupts = 1
INVARIANT Atomic
