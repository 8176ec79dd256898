CONSTANTS
    A = A
    B = B
    f = f
    g = g
    ModNames <- MCModNames
    SymNames <- MCSymNames
    Layout <- MCLayout
    Whole = Whole
    Blank = Blank
    NoSym = NoSym
    Gap = Gap
    Argvs <- MCArgvsHole
    WLFiles <- MCWLFilesHole
    BLFiles <- MCBLFilesHole
    InitMapped <- MCInitMapped
    NAddr = 10
    MaxLoads = 3
    ReuseAddrs = FALSE
    ReloadStartup = FALSE
    InGap = TRUE

INIT Init
NEXT Next

INVARIANTS
    FilterDecisionCorrect

CHECK_DEADLOCK FALSE
