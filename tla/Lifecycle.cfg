SPECIFICATION FairSpec
CONSTANTS
    NumAirlines = 2
    Signals = {"SIGINT", "SIGTERM"}
    WaitBuilds = {TRUE, FALSE}
    MaxTurns = 2
    MaxFaults = 3
INVARIANTS SameChannel CleanEnd
 
CHECK_DEADLOCK FALSE
