SPECIFICATION FairSpec
CONSTANTS
    IsServer = TRUE
    TimeoutAfter = 120
    PulseCooldown = 10
    Pulses = {1, 5, 10}
    FirstPulse = 10
    Latencies = {49, 50, 200, 201}
    MaxStall = 3
CHECK_DEADLOCK FALSE
INVARIANTS
    TimeoutUnreachable
    CancelsOnlyClosed
PROPERTIES
    NoPingSpam
    PingsGoOn
    NoticesClose
