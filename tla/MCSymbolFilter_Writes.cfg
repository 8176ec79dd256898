CONSTANTS
    A = A
    B = B
    f = f
    g = g
    ModNames <- MCModNames
    SymNames <- MCSymNames
    Layout <- MCLayout
    Whole = Whole
    Blank = Blank
    NoSym = NoSym
    Gap = Gap
    Argvs <- MCArgvs
    WLFiles <- MCWLFiles
    BLFiles <- MCBLFiles
    InitMapped <- MCInitMapped
    NAddr = 10
    MaxLoads = 3
    ReuseAddrs = FALSE
    ReloadStartup = FALSE
    InGap = FALSE

INIT Init
NEXT Next

PROPERTY
    LookupFrozenAfterStartup

CHECK_DEADLOCK FALSE
