------------------------------ MODULE MCMcpServer ------------------------------
EXTENDS McpServer
CONSTANTS p1, v1
MCPredicates == {p1}
MCValues == {v1}
=============================================================================
