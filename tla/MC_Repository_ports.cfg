\* The unlocked rport scan of HBA_GetAdapterPortAttributes against a second
\* thread: two threads, two calls each, two rports, two LUNs.
CONSTANTS
    RPORTS <- MC_RPORTS
    TARGETS <- MC_TARGETS
    LUNS <- MC_LUNS
    THREADS = {t1, t2}
    MAX_ENTRIES = 1
    MAX_CALLS = 2
    MAX_CHANGES = 2
    GROW_UNITS = 1
SPECIFICATION Spec
SYMMETRY MC_Symmetry
INVARIANT PortsUnique
CHECK_DEADLOCK FALSE
