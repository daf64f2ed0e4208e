SPECIFICATION FairSpec
CONSTANTS
    Producers = {p1, p2}
    Consumers = {c1}
    Data = {d1, d2}
    None = None
    QueueSize = 3
INVARIANTS TypeOK NoLostWakeup PeekedIsNext
PROPERTIES ImplementsFifo CallsReturn
