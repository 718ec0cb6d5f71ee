----------------------------- MODULE MCHandshake -----------------------------
EXTENDS Handshake
==============================================================================
