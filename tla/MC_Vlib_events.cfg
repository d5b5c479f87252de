CONSTANTS
    ADDRS <- MC_ADDRS_EXACT
    MAX_SLOTS = 3
    NO_DATA = NO_DATA
    ADAPTER_COUNT = 1
    THREADS <- MC_ONE_THREAD
    EVENT_CODES <- MC_EVENT_CODES
    MAX_CALLS = 3
    MAX_MSGS = 5
    MAX_COUNT = 1
    CREATE_CAN_FAIL = FALSE
SPECIFICATION Spec
INVARIANT EventQueueFaithful
CHECK_DEADLOCK FALSE
