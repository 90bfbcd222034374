---------------------------- MODULE MCRadioLink ----------------------------
EXTENDS RadioLink

CONSTANTS w, a, b
=============================================================================
