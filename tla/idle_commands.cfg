SPECIFICATION HistorySpec
CONSTANTS
    Players = {p1}
    Registered = TRUE
    Timers = {t1, t2}
    NoTimer = NoTimer
    Admins = {a1}
    ZeroIdleDelay = FALSE
SYMMETRY Symmetry
PROPERTY CommandsPreventShutdown
