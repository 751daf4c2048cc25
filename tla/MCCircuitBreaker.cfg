SPECIFICATION Spec
CONSTANTS
    Calls = {c1, c2, c3}
    FailThreshold = 2
    ResetTicks = 2
    MaxParseRetries = 1
INVARIANTS
    OpenIffThresholdReached
PROPERTY OpenIsLeft
