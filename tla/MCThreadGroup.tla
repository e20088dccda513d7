--------------------------- MODULE MCThreadGroup ----------------------------
EXTENDS ThreadGroup
=============================================================================
