SPECIFICATION Spec
CONSTANT APs <- TwoAPs
INVARIANTS SerialUninterrupted FlagRestored
PROPERTIES SerialReleased PanicReported
CHECK_DEADLOCK FALSE
