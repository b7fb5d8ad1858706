------------------------- MODULE MCReplicationClient ------------------------
EXTENDS ReplicationClient, TLC

CONSTANTS a1, a2

MCEndpoints == <<a1, a2>>
=============================================================================
