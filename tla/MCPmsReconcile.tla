--------------------------- MODULE MCPmsReconcile ---------------------------
EXTENDS PmsDocuments

CONSTANTS e1, e2, j1, j2
=============================================================================
