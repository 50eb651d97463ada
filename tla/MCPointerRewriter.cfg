CONSTANT Modules <- MCModules
SPECIFICATION Spec
INVARIANTS
    WellTyped
    MapSound
    Placement
    ForwardRefsOpaque
    MeaningKept
CHECK_DEADLOCK FALSE
