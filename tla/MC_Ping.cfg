\* zfcp_ping on s390x (unsigned char): error paths, tokens, echo count,
\* statistics and termination.  The process ends at exit.
CONSTANTS
    COUNT <- MC_COUNT
    TOKEN0 <- MC_TOKEN0
    DIFFS <- MC_DIFFS
    MAX_COLLISIONS <- MC_MAX_COLLISIONS
    MAX_SIGNALS <- MC_MAX_SIGNALS
    CHAR_IS_SIGNED = FALSE
SPECIFICATION Spec
INVARIANTS
    TypeOK
    PingErrorJustified
    AnsweredTokenNeverResent
    EchoesComplete
    StatsMatchEchoes
PROPERTIES
    PingTerminates
CHECK_DEADLOCK FALSE
