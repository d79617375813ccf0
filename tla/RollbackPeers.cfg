SPECIFICATION Spec
CONSTANTS
    Half = 1000
    Remotes = {p1, p2}
    Inputs = {idle, fire}
    DefaultInput = idle
    Disconnected = disconnected
    MaxPrediction = 3
    CheckDistance = 1
    InputDelay = 1
    CatchUp = 1
    Kinds = {"P2P"}
    MaxSessions = 1
    MaxFrame = 4
INVARIANTS WorldFollowsSession FramesAgree LoadsAreStored
PROPERTY ConfirmedStaysConfirmed
SYMMETRY Symmetry
CHECK_DEADLOCK FALSE
