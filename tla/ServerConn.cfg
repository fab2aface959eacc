CONSTANTS
    c1 = c1  c2 = c2
    x1 = x1  x2 = x2  x3 = x3
    p1 = p1  p2 = p2
    Conns <- MCConns
    Ctxs <- MCCtxs
    Paths <- MCPaths
    Registered <- MCRegistered
    MaxReq = 2
    Faults <- MCFaults
SPECIFICATION Spec
INVARIANT ResponseFraming
INVARIANT ContextExclusive
 
 
CHECK_DEADLOCK FALSE
