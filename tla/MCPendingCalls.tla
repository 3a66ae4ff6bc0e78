--------------------------- MODULE MCPendingCalls ---------------------------
EXTENDS CallsHistory
=============================================================================
