SPECIFICATION Spec
CONSTANTS
    main = main  t1 = t1  t2 = t2  t3 = t3
    Tasks = {main, t1, t2, t3}
    Main = main
    Orderly = TRUE
    MaxInstances = 2
INVARIANTS TypeOK SameInstance CloseReachesAll
CHECK_DEADLOCK FALSE
