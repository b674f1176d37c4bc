SPECIFICATION Spec
CONSTANTS
    p1 = p1
    p2 = p2
    lib = lib
    app = app
    Procs = {p1, p2}
    Paths = {lib, app}
    refs <- mcRefs
    NoPath = none
    Scenarios <- mcScenarios
INVARIANTS TypeOK ValidClosed ValidOnDisk UsedStays PermRootsStay NeverInUse AliveIsReachable
PROPERTY RootRequestReturns
CHECK_DEADLOCK FALSE
