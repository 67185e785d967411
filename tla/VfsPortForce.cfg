CONSTANTS
    Bytes = {0, 1}
    Hole = 0
    ReadSize = 2
    WriteSize = 2
    Random = TRUE
    Env = {"forceReading"}
    MaxLen = 4
    MaxBack = 2
    MaxWrite = 3
SPECIFICATION Spec
PROPERTY TellAccountsForBuffers
CHECK_DEADLOCK FALSE
