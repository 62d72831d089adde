SPECIFICATION Spec
CONSTANT ForeignLength = 4
INVARIANTS
    RoundTrip
    DamageIsRefused
    ForeignIsStable
    NdarrayFilled
CHECK_DEADLOCK FALSE
