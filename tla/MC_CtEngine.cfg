\* send_ct: result, warning and buffer discipline over two calls.
\* The caller stops after MAX_CALLS queries: the tool exits there.
CONSTANTS
    MAX_FDS <- MC_MAX_FDS
    MAX_CALLS <- MC_MAX_CALLS
SPECIFICATION Spec
INVARIANTS
    TypeOK
    ReturnMatchesAttempts
    WarnOnceOnExhaustion
    NoResponseLeak
CHECK_DEADLOCK FALSE
