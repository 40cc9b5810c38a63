CONSTANTS
    BUFFER_SIZE = 8
    MAX_ENQUEUED_PACKETS = 1
    ClientFrames <- MC_ClientFrames
    None = None
    RxArrivals <- MC_RxArrivalsFull
    CONCURRENT_CLIENT = FALSE
SPECIFICATION Spec
INVARIANT FittingFramesNeverPanic
