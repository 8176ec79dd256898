CONSTANTS
    SimdRegs <- MCSimdRegs
    Gprs <- MCGprs
    Disps <- MCDisps
    Addrs <- MCAddrs
    NoReg = "noreg"
    ImplicitSrcLast = TRUE
    Blocks <- MCBlocks
    GPR_ORDER <- MCGprOrder
    NLanes = 4

INIT TInit
NEXT Next

INVARIANT FlagsPreserved

CHECK_DEADLOCK FALSE
