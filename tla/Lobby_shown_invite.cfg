SPECIFICATION Spec
CONSTANTS
    ada = ada
    kivan = kivan
    App <- Apps
    MaxThreads = 3
CHECK_DEADLOCK FALSE
INVARIANTS
    ShownInviteIsServed
