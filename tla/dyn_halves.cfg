SPECIFICATION FairSpec
CONSTANTS
    Players = {p1}
    StartupTimeoutSeconds = 2
    ConnectivityTimeoutSeconds = 2
    PollIntervalSeconds = 2
    Registered = TRUE
    Nobody = Nobody
    Timers = {t1}
    NoTimer = NoTimer
    Admins = {a1}
    ZeroIdleDelay = FALSE
PROPERTIES HandlersAreSurroundings IdleCheckIsSurroundings
