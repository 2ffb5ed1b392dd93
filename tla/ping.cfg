SPECIFICATION FairSpec
CONSTANTS
    GroupBits = 2
    IntBits = 5
    MaxPacket = 4
    Timeout = 2
INVARIANTS TypeOK EndsInTime HonestAnswerAccepted
PROPERTIES PingEnds
