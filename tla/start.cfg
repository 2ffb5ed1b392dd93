SPECIFICATION HistoryFairSpec
CONSTANTS
    Players = {p1, p2, p3}
    StartupTimeoutSeconds = 4
    ConnectivityTimeoutSeconds = 4
    PollIntervalSeconds = 2
    Registered = TRUE
    Nobody = Nobody
INVARIANTS TypeOK SingleFlight WaitersHaveLeader StartedMeansAccepting
PROPERTIES EveryoneAnswered StartIsSharedCall
