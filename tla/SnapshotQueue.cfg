SPECIFICATION Spec
CONSTANTS
    Half = 4
    Fields = {x, y}
    Reflected = {x}
    FieldValues = {v1, v2}
    FromWorld = default
    None = none
    Depths = {2, 3}
    Start = 0
    MaxNow = 7
    Lag = 4
    LagAcrossWrap = 1
    Lead = 2
INVARIANTS TypeOK NewestFirst
PROPERTY ImplementsHistory
