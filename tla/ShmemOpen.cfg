SPECIFICATION FairSpec
CONSTANTS
    Openers = {map, a1, a2, a3}
    Owner = map
    MaxFailures = 2
    MaxInterrupts = 1
INVARIANTS TableReady OneTable
PROPERTY OpenReturns
CHECK_DEADLOCK FALSE
