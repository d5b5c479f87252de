\* Two threads with two calls each, two rports (rport 2 has no target
\* directory), two LUNs, NumberOfEntries up to 1 and two sysfs changes.
CONSTANTS
    RPORTS <- MC_RPORTS
    TARGETS <- MC_TARGETS
    LUNS <- MC_LUNS
    THREADS = {t1, t2}
    MAX_ENTRIES = 1
    MAX_CALLS = 2
    MAX_CHANGES = 2
    GROW_UNITS = 1
SPECIFICATION Spec
SYMMETRY MC_Symmetry
VIEW MC_View
INVARIANT TypeOK
INVARIANT UnitsUnique
PROPERTY MappingMatchesRepository
CHECK_DEADLOCK FALSE
