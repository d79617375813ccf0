SPECIFICATION Spec
CONSTANTS
    Half = 1000
    Components = {c1}
    Absent = absent
    MaxPrediction = 3
    MaxEntity = 5
    MaxFrame = 4
    GameOps = {"spawn", "spawn_child", "despawn"}
INVARIANT LoadRestoresView
CHECK_DEADLOCK FALSE
