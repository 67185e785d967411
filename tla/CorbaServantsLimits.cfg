\* What a servant does not get: each is violated (see with -continue).
CONSTANTS
    Bases <- MCBases
    OpsOf <- MCOpsOf
    InterfacesOf <- MCInterfacesOf
    TypesOf <- MCTypesOf
    EnumOf <- MCEnumOf
    Wide = {}
    Supers <- MCSupers
    Implements <- MCImplements
    Instantiable <- MCInstantiable
    Servants = {s1, s2}
    None = None
    MaxDepth = 2
SPECIFICATION Spec
INVARIANT ErrorsReachClient NextMethodNotImplemented NoWildPointer VepvFits
CHECK_DEADLOCK FALSE
PROPERTY AliasesAreFound
