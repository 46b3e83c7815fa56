--------------------------- MODULE MCReplayCache ---------------------------
EXTENDS ReplayCache

CONSTANTS k1, k2, k3, k4

MCKey == {k1, k2, k3, k4}
MCCaps == 0..3

============================================================================
