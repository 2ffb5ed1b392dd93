SPECIFICATION FairSpec
CONSTANTS
    NumBackends = 1
    Players = {p1}
    Conns = {c1}
    MaxConnections <- Unlimited
    UnhealthyAfterFailures = 2
    HealthyAfterSuccesses = 1
    CounterSlack = 1
    TrustStep = 50
    MaxDialing = 1
    OneConnPerPlayer = TRUE
    NoBackend = NoBackend
    NoPlayer = NoPlayer
PROPERTY HungBackendDetected
