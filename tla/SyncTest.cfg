SPECIFICATION Spec
CONSTANTS
    Half = 1000
    Resources = {r1}
    Values = {v1}
    InitialValue = v0
    Places = {1, 2}
    InitialEntities = 2
    MaxEntities = 3
    MaxPrediction = 4
    CheckDistance = 3
    Leaky = TRUE
    MaxFrame = 5
INVARIANT MismatchIsExact
INVARIANT DeterminismAccepted
PROPERTY DivergenceReported
CHECK_DEADLOCK FALSE
