SPECIFICATION Spec
CONSTANTS
    CharBits = 2
    IntBits = 6
    LongBits = 7
    FloatBits = 2
    DoubleBits = 6
    MaxFloat = 96
    EnumTable <- MCEnumTable
    FlagsTable <- MCFlagsTable
    VTypes <- MCVTypes
    CValues <- MCCValues
    Inputs <- MCInputs
    CParams <- MCCParams
    NewParams <- MCAllParams
    CGConfs <- MCCGConfs
    ShortBits = 2
    CorbaTypes <- MCCorbaTypes
    CorbaInputs <- MCCorbaInputs
    CCorbas <- MCCCorbas
    MaxLength = 2
INVARIANTS
    ReadsBack
    CorbaCoherent
PROPERTIES
    RoundTrip
    CorbaReadsBack
CHECK_DEADLOCK FALSE
