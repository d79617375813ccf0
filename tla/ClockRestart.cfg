SPECIFICATION Spec
CONSTANTS
    Half = 1000
    Second = 200
    Rate = 3
    Deltas = {50, 150}
    Kinds = {"P2P", "SyncTest", "Spectator"}
    MaxPrediction = 2
    CheckDistance = 1
    CatchUp = 2
    MaxSessions = 2
    MaxFrame = 4
    MaxReal = 500
INVARIANT ReflectsFrameCount
CHECK_DEADLOCK FALSE
