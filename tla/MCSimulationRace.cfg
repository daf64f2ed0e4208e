SPECIFICATION FairSpec
CONSTANTS
    NumAirlines = 2
    NumPlanes = 4
    AirlineOf <- RaceAirlineOf
    CityStock <- RaceCityStock
    PlaneStock <- RacePlaneStock
    StartCity <- RaceStartCity
    Distance <- RaceDistance
    MaxDestinations = 10
    MaxTurns = 6
    IpcCapacity = 1
    QueueCapacity = 9
INVARIANTS TypeOK NoErrorLine QuietBetweenTurns LockOwned CountExact MailboxNeverFull
    StatusStillTrue StockConserved DoneIsUseless CleanExit
PROPERTIES Termination ImplementsTurnBarrier
