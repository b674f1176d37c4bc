SPECIFICATION Spec
CONSTANTS
    Drvs <- mcDrvs
    Outs <- mcOuts
    First <- mcFirst
    Scenarios <- mcScenarios
INVARIANTS WorkerTypeOK SlotsCounted ResumedForAReason NeverStuck KeepGoingLeavesNothing InputsBeforeChild SuccessMeansValid
PROPERTY WorkerEnds
CHECK_DEADLOCK FALSE
