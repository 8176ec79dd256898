CONSTANTS
    SimdRegs <- MCSimdRegs
    Gprs <- MCGprs
    Disps <- MCDisps
    Addrs <- MCAddrs
    NoReg = "noreg"
    ImplicitSrcLast = TRUE
    Blocks <- MCBlocks
    GPR_ORDER <- MCGprOrder
    NLanes = 4

INIT TInit
NEXT Next

INVARIANTS
    TypeOK
    LoopInv
    RunBracketing
    BracketInv
    SubstInv
    AppStatePreserved
    SimdMatchesNative
    NoWildAccess

PROPERTIES
    SubstRefinement

CHECK_DEADLOCK FALSE
