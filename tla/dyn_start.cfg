SPECIFICATION Spec
CONSTANTS
    Players = {p1}
    StartupTimeoutSeconds = 2
    ConnectivityTimeoutSeconds = 4
    PollIntervalSeconds = 2
    Registered = TRUE
    Nobody = Nobody
    Timers = {t1}
    NoTimer = NoTimer
    Admins = {}
    ZeroIdleDelay = FALSE
PROPERTY StartNotInterrupted
