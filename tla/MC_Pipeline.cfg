CONSTANTS
    KU = KU
    KF = KF
    NoKey = NoKey
    None = None
    NoFrag = NoFrag
    CHECK_MAC = TRUE
    MAX_ENQUEUED_PACKETS = 2
    MTU_UDP = 16
    MAX_UDP_PAYLOAD_SIZE = 24
    MAX_UDP_PACKET_SIZE = 32
    SUPPORTED_FRAGMENTS = 1
    MAX_REASSEMBLED_FRAGMENT_SIZE = 4
    IP_HEADER_LEN = 1
    FRAGMENT_TIMEOUT = 1
    Datagrams <- MC_Datagrams
    Frames <- MC_Frames
    PolicyResults = {0, 8, 32, 33}
    FreshId = 43
    MaxFrames = 4
SPECIFICATION Spec
INVARIANT TypeOK
INVARIANT FramesOfAnInvocationInOrder
