SPECIFICATION Spec
CONSTANTS
    ada = ada
    kivan = kivan
    App <- Apps
    MaxThreads = 4
SYMMETRY Symmetry
CHECK_DEADLOCK FALSE
INVARIANTS
    TypeOK
    MeetsInviter
    OneGuest
    HeaderIsPartner
