--------------------------- MODULE MCEventEmitter ---------------------------
EXTENDS EventEmitter, TLC
=============================================================================
