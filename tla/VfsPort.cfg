CONSTANTS
    Bytes = {0, 1}
    Hole = 0
    ReadSize = 2
    WriteSize = 2
    Random = TRUE
    Env = {}
    MaxLen = 4
    MaxBack = 2
    MaxWrite = 3
SPECIFICATION Spec
PROPERTY RefinesFilePort
CHECK_DEADLOCK FALSE
