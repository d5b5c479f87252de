CONSTANTS
    ADDRS <- MC_ADDRS
    MAX_SLOTS = 3
    NO_DATA = NO_DATA
    ADAPTER_COUNT = 1
    THREADS <- MC_THREADS
    EVENT_CODES <- MC_EVENT_CODES
    MAX_CALLS = 2
    MAX_MSGS = 3
    MAX_COUNT = 2
    CREATE_CAN_FAIL = TRUE
SPECIFICATION Spec
INVARIANT TypeOK
INVARIANT UnloadedMeansClean
PROPERTY FreeLibraryReturnsFromRecv
PROPERTY CallsReturnUnlocked
CHECK_DEADLOCK FALSE
