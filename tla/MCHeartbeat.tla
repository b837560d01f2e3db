----------------------------- MODULE MCHeartbeat -----------------------------
EXTENDS Heartbeat, TLC
CONSTANTS p1, p2, h1, h2

=============================================================================
