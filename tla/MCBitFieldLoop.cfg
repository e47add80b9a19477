SPECIFICATION Spec
CONSTANT Positions <- MCPositions
INVARIANTS LoopStopsAtCell
CHECK_DEADLOCK FALSE
