SPECIFICATION Spec
CONSTANTS
    Half = 1000
    Components = {c1, c2}
    Absent = absent
    MaxPrediction = 3
    MaxEntity = 4
    MaxFrame = 4
    GameOps = {"aim", "spawn", "spawn_child", "change", "despawn"}
INVARIANTS LoadRestoresComponents OrderIsTotal
PROPERTY ResourceFollowsRespawn
SYMMETRY Symmetry
CHECK_DEADLOCK FALSE
