CONSTANTS
    BUFFER_SIZE = 8
    MAX_ENQUEUED_PACKETS = 1
    ClientFrames <- MC_ClientFrames
    None = None
    RxArrivals <- MC_RxArrivals
    CONCURRENT_CLIENT = TRUE
SPECIFICATION Spec
INVARIANT FramesKeepDirectionAndOrder
