SPECIFICATION Spec
CONSTANTS
    w1 = w1
    w2 = w2
    w3 = w3
    Writers = {w1, w2, w3}
    Owner <- TwoProcesses
    End = End
    Data = {m1, m2, End}
    None = None
    Garbage = Garbage
    Capacity = 2
    MaxSignals = 2
CHECK_DEADLOCK FALSE
INVARIANT EndReceived
