CONSTANTS
    Bases <- MCBases
    OpsOf <- MCOpsOf
    InterfacesOf <- MCInterfacesOf
    TypesOf <- MCTypesOf
    EnumOf <- MCEnumOf
    Wide = {"Paint"}
    Supers <- MCSupers
    Implements <- MCImplements
    Instantiable <- MCInstantiable
    Servants = {s1, s2}
    None = None
    MaxDepth = 2
SPECIFICATION Spec
SYMMETRY MCSymmetry
INVARIANT InheritedOps StubsMatchSkeletons ImplementedOpsServed RunningServantAlive EnumsKeepType
CHECK_DEADLOCK FALSE
