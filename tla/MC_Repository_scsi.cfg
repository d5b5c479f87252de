\* A SCSI command against HBA_RefreshInformation on the same handle: two
\* threads, two calls each, two rports, two LUNs, two sysfs changes (a LUN
\* detached and attached again), and a unit array growing one unit at a time.
CONSTANTS
    RPORTS <- MC_RPORTS
    TARGETS <- MC_TARGETS
    LUNS <- MC_LUNS
    THREADS = {t1, t2}
    MAX_ENTRIES = 1
    MAX_CALLS = 2
    MAX_CHANGES = 2
    GROW_UNITS = 1
SPECIFICATION Spec
SYMMETRY MC_Symmetry
INVARIANT UnitNotReallocated
CHECK_DEADLOCK FALSE
