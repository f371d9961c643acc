SPECIFICATION DocSpec
CONSTANT Apps <- AnyApps
INVARIANT RecursionEnds
CHECK_DEADLOCK FALSE
