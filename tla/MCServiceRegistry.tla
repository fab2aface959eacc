-------------------------- MODULE MCServiceRegistry --------------------------
EXTENDS ServiceRegistry, TLC

CONSTANTS r1, r2, r3, r4, pa, pb, pc

MCReceivers == {r1, r2, r3, r4}
MCPaths == {pa, pb, pc}
\* r1 and r2 both yield a service at pa (same name, or same group and
\* method); r3 has no eligible method; r4 is disjoint from both.
MCBuilds == (r1 :> {pa} @@ r2 :> {pa, pb} @@ r3 :> {} @@ r4 :> {pc})
=============================================================================
