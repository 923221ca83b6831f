------------------------ MODULE MCCircularDependency ------------------------
\* Every dependency graph of three registered states and a pseudo stage.
EXTENDS CircularDependency

CONSTANTS n1, n2, n3, ctx

MCNode == {n1, n2, n3, ctx}
MCRegistered == <<n1, n2, n3>>
=============================================================================
