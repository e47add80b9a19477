SPECIFICATION Spec
CONSTANT no_of_peices = 5
INVARIANTS AtMostOneLost SeederHasFile
PROPERTIES ShortIsNeverResumed
CHECK_DEADLOCK FALSE
