CONSTANTS
    rx = rx
    tx = tx
    Threads = {rx}
    MaxCalls = 6
    SeedStart = {42}
    OVERFLOW_CHECKS = FALSE
SPECIFICATION Spec
INVARIANT TypeOK
