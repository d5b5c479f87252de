\* show_ns_info in a fabric where remote ports log in and out up to twice
\* during the walk (and in one that does not change).  The program ends
\* when the walk returns.
CONSTANTS
    PORTS <- MC_PORTS
    LOCAL_PORT <- MC_LOCAL_PORT
    MAX_CHANGES = 2
SPECIFICATION Spec
INVARIANTS
    TypeOK
    CompleteWalkListsFabric
    NoDuplicateWhileFirstStays
CHECK_DEADLOCK FALSE
