--------------------------- MODULE MCTaskLifecycle ---------------------------
EXTENDS TaskLifecycle
=============================================================================
