CONSTANTS
    SimdRegs <- MCSimdRegs
    Gprs <- MCGprs
    Disps <- MCRedZoneDisps
    Addrs <- MCAddrs
    NoReg = "noreg"
    ImplicitSrcLast = TRUE
    Blocks <- MCRedZoneBlocks
    GPR_ORDER <- MCGprOrder
    NLanes = 4

INIT TInit
NEXT Next

INVARIANT SimdMatchesNative

CHECK_DEADLOCK FALSE
