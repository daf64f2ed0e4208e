SPECIFICATION FairSpec
CONSTANTS
    NumAirlines = 2
    TurnsNeeded = 4
    QueueCapacity = 3
INVARIANTS TurnsAhead FullScreen NothingUnshown
 
