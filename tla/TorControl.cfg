SPECIFICATION FairSpec
CONSTANTS
    ours = ours
    foreign = foreign
    Cookie <- Cookies
    Files = 2
    Window = 2
CHECK_DEADLOCK FALSE
INVARIANTS
    TypeOK
    ProofOnlyToKnower
    AsksTrusted
    AnswersMatch
PROPERTIES
    ControlEnds
