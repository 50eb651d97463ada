CONSTANT Modules <- Catches
SPECIFICATION Spec
INVARIANT LandingPadIntact
CHECK_DEADLOCK FALSE
