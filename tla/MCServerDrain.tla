--------------------------- MODULE MCServerDrain ---------------------------
EXTENDS ServerDrain
=============================================================================
