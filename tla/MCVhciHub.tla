----------------------------- MODULE MCVhciHub ------------------------------
EXTENDS VhciHub

CONSTANTS p1, p2
=============================================================================
