SPECIFICATION Spec
CONSTANTS
    Drvs <- mcDrvs
    Outs <- mcOuts
    First <- mcFirst
    Scenarios <- mcTwoWays
PROPERTY RunEnds
CHECK_DEADLOCK FALSE
