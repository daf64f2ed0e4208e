SPECIFICATION Spec
CONSTANTS
    NumAirlines = 1
    NumPlanes = 1
    AirlineOf <- EnoughAirlineOf
    CityStock <- EnoughCityStock
    PlaneStock <- EnoughPlaneStock
    StartCity <- EnoughStartCity
    Distance <- EnoughDistance
    MaxDestinations = 10
    MaxTurns = 5
    IpcCapacity = 1
    QueueCapacity = 9
INVARIANT AllServed
