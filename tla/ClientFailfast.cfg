CONSTANTS
    p1 = p1  p2 = p2  e1 = e1  e2 = e2
    Callers <- MCCallers
    Endpoints <- MCEndpoints
    Mode <- AllFailfast
    MaxTry = 2
    MaxInvokers = 3
SPECIFICATION Spec
CHECK_DEADLOCK FALSE
INVARIANT SuccessWitnessed
