SPECIFICATION Spec
CONSTANTS
    Half = 1000
    Remotes = {p1}
    Inputs = {idle, fire}
    DefaultInput = idle
    Disconnected = disconnected
    MaxPrediction = 2
    CheckDistance = 1
    InputDelay = 0
    CatchUp = 2
    Kinds = {"P2P", "SyncTest", "Spectator"}
    MaxSessions = 2
    MaxFrame = 4
INVARIANTS TypeOK WorldFollowsSession SnapshotsOnTimeline
PROPERTY InputsTakeEffect
CHECK_DEADLOCK FALSE
