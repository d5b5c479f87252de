\* A failed GAPNL for an E_Port in topology mode.
CONSTANTS
    ICE_LIST <- MC_ICE_LIST
    DomainOf <- MC_DomainOf
    PortsOf <- MC_PortsOf
    StateOf <- MC_StateOf
    TypeOf <- MC_TypeOf
    PpnOf <- MC_PpnOf
    AttachedOf <- MC_AttachedOf
    DidOf <- MC_DidOf
    DETAILS <- MC_DETAILS
    MAX_FAILURES = 1
SPECIFICATION MC_Spec
INVARIANT
    NoNullDereference
CHECK_DEADLOCK FALSE
