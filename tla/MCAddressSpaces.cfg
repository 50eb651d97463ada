CONSTANT Units <- OtherSpaces
SPECIFICATION Spec
INVARIANT ReaderKnows
CHECK_DEADLOCK FALSE
