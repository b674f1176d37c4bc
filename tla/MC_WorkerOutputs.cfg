SPECIFICATION Spec
CONSTANTS
    Drvs <- mcDrvs
    Outs <- mcOuts
    First <- mcFirst
    Scenarios <- mcOneOutput
INVARIANT BuiltMeansValid
CHECK_DEADLOCK FALSE
