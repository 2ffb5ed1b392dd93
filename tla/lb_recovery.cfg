SPECIFICATION RecoveryFairSpec
CONSTANTS
    NumBackends = 1
    Players = {p1, p2}
    Conns = {c1, c2}
    MaxConnections <- Unlimited
    UnhealthyAfterFailures = 2
    HealthyAfterSuccesses = 2
    CounterSlack = 1
    TrustStep = 50
    MaxDialing = 2
    OneConnPerPlayer = TRUE
    NoBackend = NoBackend
    NoPlayer = NoPlayer
INVARIANT TrackingExact
PROPERTIES RecoveryEarnedOrRacing DeadBackendDetected LiveBackendRecovers
