SPECIFICATION Spec
CONSTANTS
    p1 = p1
    p2 = p2
    lib = lib
    app = app
    Procs = {p1, p2}
    Paths = {lib, app}
    refs <- mcRefs
    NoPath = none
    Scenarios <- mcRecreate
INVARIANT NoEarlyRecreation
CHECK_DEADLOCK FALSE
