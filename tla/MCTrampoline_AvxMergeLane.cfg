CONSTANTS
    SimdRegs <- MCSimdRegs
    Gprs <- MCGprs
    Disps <- MCDisps
    Addrs <- MCAddrs
    NoReg = "noreg"
    ImplicitSrcLast = TRUE
    Blocks <- MCMergeBlocks
    GPR_ORDER <- MCGprOrder
    NLanes = 4

INIT TInit
NEXT Next

INVARIANT SimdMatchesNative

CHECK_DEADLOCK FALSE
