--------------------------- MODULE MCSocketServer ---------------------------
EXTENDS SocketServer
=============================================================================
