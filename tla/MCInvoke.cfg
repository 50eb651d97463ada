CONSTANT Modules <- Invokes
SPECIFICATION Spec
INVARIANT WellTyped
CHECK_DEADLOCK FALSE
