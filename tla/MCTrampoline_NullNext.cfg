CONSTANTS
    SimdRegs <- MCSimdRegs
    Gprs <- MCGprs
    Disps <- MCDisps
    Addrs <- MCAddrs
    NoReg = "noreg"
    ImplicitSrcLast = TRUE
    Blocks <- MCTruncatedBlocks
    GPR_ORDER <- MCGprOrder
    NLanes = 4

INIT TInit
NEXT Next

INVARIANT NoNullDeref

CHECK_DEADLOCK FALSE
