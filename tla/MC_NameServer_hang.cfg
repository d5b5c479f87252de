\* A walk whose first port logs out never ends.
CONSTANTS
    PORTS <- MC_PORTS
    LOCAL_PORT <- MC_LOCAL_PORT
    MAX_CHANGES = 2
SPECIFICATION Spec
PROPERTY
    NsTerminates
CHECK_DEADLOCK FALSE
