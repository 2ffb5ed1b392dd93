SPECIFICATION Spec
CONSTANTS
    NumBackends = 2
    Players = {p1}
    Conns = {c1, c2}
    MaxConnections <- OnePerBackend
    UnhealthyAfterFailures = 1
    HealthyAfterSuccesses = 0
    CounterSlack = 0
    TrustStep = 50
    MaxDialing = 2
    OneConnPerPlayer = FALSE
    NoBackend = NoBackend
    NoPlayer = NoPlayer
SYMMETRY Symmetry
INVARIANTS TypeOK NeverUndercount OvershootBounded
