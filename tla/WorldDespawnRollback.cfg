SPECIFICATION Spec
CONSTANTS
    Half = 1000
    Components = {c1}
    Absent = absent
    MaxPrediction = 3
    MaxEntity = 3
    MaxFrame = 5
    GameOps = {"aim", "adopt", "spawn", "spawn_child", "refer", "despawn_rollback"}
INVARIANTS LoadRestoresView DespawnIsDeferred NoMarkOutlivesConfirmation
CHECK_DEADLOCK FALSE
