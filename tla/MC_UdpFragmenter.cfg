CONSTANTS
    MTU_UDP <- MC_MTU_UDP
    UdpLens <- MC_UdpLens
    Idents <- MC_Idents
    FreshIds <- MC_FreshIds
SPECIFICATION Spec
INVARIANT TypeOK
INVARIANT FragmentsTile
