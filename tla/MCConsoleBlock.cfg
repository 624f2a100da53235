SPECIFICATION Spec
CONSTANT APs <- TwoAPs
INVARIANT HandlerNotBlocked
CHECK_DEADLOCK FALSE
