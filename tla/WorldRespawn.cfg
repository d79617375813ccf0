SPECIFICATION Spec
CONSTANTS
    Half = 1000
    Components = {c1}
    Absent = absent
    MaxPrediction = 3
    MaxEntity = 3
    MaxFrame = 4
    GameOps = {"spawn", "refer", "despawn"}
INVARIANT LoadRestoresView
CHECK_DEADLOCK FALSE
