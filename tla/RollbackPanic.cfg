SPECIFICATION Spec
CONSTANTS
    Half = 1000
    Remotes = {p1}
    Inputs = {idle, fire}
    DefaultInput = idle
    Disconnected = disconnected
    MaxPrediction = 2
    CheckDistance = 1
    InputDelay = 0
    CatchUp = 1
    Kinds = {"P2P"}
    MaxSessions = 1
    MaxFrame = 4
INVARIANT NeverPanics
CHECK_DEADLOCK FALSE
