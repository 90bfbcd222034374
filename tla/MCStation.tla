------------------------------ MODULE MCStation ------------------------------
EXTENDS Station, TLC

CONSTANTS c1, c2

\* Capable clients are interchangeable.
MCSymmetry == Permutations(PttClients)
==============================================================================
