CONSTANT Modules <- DoubleEdges
SPECIFICATION Spec
INVARIANT PhiEntriesAgree
CHECK_DEADLOCK FALSE
