CONSTANTS
    rx = rx
    tx = tx
    Threads = {rx, tx}
    MaxCalls = 2
    SeedStart = {42}
    OVERFLOW_CHECKS = FALSE
SPECIFICATION Spec
INVARIANT CountersNeverRepeat
