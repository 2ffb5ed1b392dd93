SPECIFICATION HistoryFairSpec
CONSTANTS
    Players = {p1}
    Registered = TRUE
    Timers = {t1, t2}
    NoTimer = NoTimer
    Admins = {a1}
    ZeroIdleDelay = FALSE
INVARIANTS ShieldHolds EntryIsPending
PROPERTY IdleServerStopped
