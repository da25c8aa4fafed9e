CONSTANT Inputs <- MCInputs
SPECIFICATION Spec
INVARIANTS TypeOK StackOrdered NothingLost RightNotation
CHECK_DEADLOCK FALSE
