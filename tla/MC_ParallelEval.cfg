SPECIFICATION Spec
CONSTANTS
    a = a
    b = b
    c = c
    w1 = w1
    w2 = w2
    main = main
    none = none
    Workers = {w1, w2}
    Main = main
    Values = {a, b, c}
    Domain <- mcDomain
    NoValue = none
    Scenarios <- mcScenarios
INVARIANTS EvalTypeOK ReadsWhole EvalNeverStuck
PROPERTY EverythingReturns
CHECK_DEADLOCK FALSE
