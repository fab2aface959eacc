---------------------------- MODULE MCServerConn ----------------------------
EXTENDS ServerConn, TLC

CONSTANTS c1, c2, x1, x2, x3, p1, p2

MCConns == {c1}
MCCtxs == {x1, x2, x3}
MCPaths == {p1, p2}
MCRegistered == {p1}
\* Every failure the read and write paths can meet, except a corrupt header,
\* which only closes the connection.
MCFaults == {"PreReadRequestHeader", "PostReadRequestHeader", "ReadRequestBody", "PreWriteResponse"}
NoFaults == {}
\* Only the codec's body read fails: the read that discards a rejected body.
DiscardFaults == {"ReadRequestBody"}
\* Only the PostConnAccept hooks fail.
AcceptFaults == {"PostConnAccept"}

CtxSymmetry == Permutations(MCCtxs)
=============================================================================
