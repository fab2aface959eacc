SPECIFICATION Spec
CONSTANTS
    ColferSizeMax = 16777216
    Headers <- MCHeaders
    MaxTail = 1
INVARIANT RoundTrip PrefixEOF
CHECK_DEADLOCK FALSE
