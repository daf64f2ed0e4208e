SPECIFICATION Spec
CONSTANTS
    NumAirlines = 2
    Signals = {"SIGINT", "SIGTERM"}
    WaitBuilds = {FALSE}
    MaxTurns = 2
    MaxFaults = 3
INVARIANT NotAtOnce
