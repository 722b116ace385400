SPECIFICATION Spec
CONSTANTS
    alice = alice
    bob = bob
    carol = carol
    Identity <- Identities
    MaxLines = 2
    SocketCap = 2
SYMMETRY Symmetry
CHECK_DEADLOCK FALSE
INVARIANTS
    TypeOK
    PrintsNoStranger
    SomebodyMustInterrupt
PROPERTIES
    KeepsPromise
