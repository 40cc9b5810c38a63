CONSTANTS
    rx = rx
    tx = tx
    Threads = {rx}
    MaxCalls = 3
    SeedStart = {65534}
    OVERFLOW_CHECKS = TRUE
SPECIFICATION Spec
INVARIANT IdGeneratorNeverPanics
