SPECIFICATION HistorySpec
CONSTANTS
    Players = {p1, p2}
    StartupTimeoutSeconds = 60
    ConnectivityTimeoutSeconds = 0
    PollIntervalSeconds = 0
    Registered = TRUE
    Nobody = Nobody
INVARIANT NoHandlerPanics
