CONSTANTS
    K1 = K1
    K2 = K2
    K3 = K3
    NoKey = NoKey
    None = None
    SUPPORTED_FRAGMENTS = 2
    MAX_REASSEMBLED_FRAGMENT_SIZE = 6
    IP_HEADER_LEN = 2
    FRAGMENT_TIMEOUT = 2
    Datagrams <- MC_Datagrams
SPECIFICATION Spec
INVARIANT TypeOK
INVARIANT UniqueKey
INVARIANT ReassembledIntact
PROPERTY ImplementsReassembly
PROPERTY OnlyStaleKeysEvicted
