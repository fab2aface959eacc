CONSTANTS
    r1 = r1  r2 = r2  r3 = r3  r4 = r4  pa = pa  pb = pb  pc = pc
    Receivers <- MCReceivers
    Paths <- MCPaths
    Builds <- MCBuilds
    PluginFails = FALSE
    MaxCalls = 4
SPECIFICATION Spec

PROPERTY NoRebinding
CHECK_DEADLOCK FALSE
