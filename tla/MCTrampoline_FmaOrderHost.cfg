CONSTANTS
    SimdRegs <- MCSimdRegs
    Gprs <- MCGprs
    Disps <- MCDisps
    Addrs <- MCAddrs
    NoReg = "noreg"
    ImplicitSrcLast = FALSE
    Blocks <- MCBlocks
    GPR_ORDER <- MCGprOrder
    NLanes = 4

INIT TInit
NEXT Next

INVARIANT SimdMatchesNative

CHECK_DEADLOCK FALSE
