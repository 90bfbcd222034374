------------------------------- MODULE MCKeyer -------------------------------
EXTENDS Keyer

CONSTANTS p, q, r1, r2, v1
==============================================================================
