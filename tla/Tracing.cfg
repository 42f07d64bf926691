SPECIFICATION TracingFairSpec
CONSTANTS
    l1 = l1  l2 = l2  s1 = s1  s2 = s2
    Logs = {l1, l2}
    RaiseOnError = FALSE
    MaxEntered = 2
    Transports = {s1}
    IfSendError = {s1}
    MaxExchanges = 2
    OnLoop = {s1}
INVARIANTS LoggerTypeOK TransportTypeOK NoClientLeak OwnClientUndisturbed
           TrueMeansStored AcceptedLogCatchesUp TracedWereAnswered
PROPERTY EveryLogEnds
CHECK_DEADLOCK FALSE
