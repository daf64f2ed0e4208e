SPECIFICATION Spec
CONSTANTS
    Worlds <- AllWorlds
    CityNames <- Names
    MaxDestinations = 2
PROPERTIES ReadsBack ShortestWays UnloadLeavesNothing BestDestination
