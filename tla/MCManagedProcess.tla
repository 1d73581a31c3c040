-------------------------- MODULE MCManagedProcess --------------------------
EXTENDS ManagedProcess
CONSTANTS p1, p2
MCPids == {p1, p2}
MCIgnoresTerm == {p2}
=============================================================================
