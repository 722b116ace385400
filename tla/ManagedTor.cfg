SPECIFICATION FairSpec
CONSTANTS
    ada = ada
    kivan = kivan
    App <- Apps
    Port = {9150, 9151, 9152}
    Squatted = {9151}
    MaxTor = 2
CHECK_DEADLOCK FALSE
INVARIANTS
    TypeOK
    CleanExit
    OneTor
    DirKept
    OwnTorAnswers
PROPERTIES
    ReadyAtSuccess
    ClickReturns
