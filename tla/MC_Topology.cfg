\* The walk under every option set, with every query answered or one of
\* them (or one edge allocation) failing.
CONSTANTS
    ICE_LIST <- MC_ICE_LIST
    DomainOf <- MC_DomainOf
    PortsOf <- MC_PortsOf
    StateOf <- MC_StateOf
    TypeOf <- MC_TypeOf
    PpnOf <- MC_PpnOf
    AttachedOf <- MC_AttachedOf
    DidOf <- MC_DidOf
    DETAILS <- MC_DETAILS
    MAX_FAILURES = 1
SPECIFICATION MC_Spec
INVARIANTS
    TypeOK
    LinksReflectFabric
    IslsReported
    ShownPortsMatchFilter
    IncompleteMarksListFailures
    MainFiltersApart
    MainNoAdapterLeftOpen
CHECK_DEADLOCK FALSE
