----------------------------- MODULE MCVhciPort -----------------------------
EXTENDS VhciPortInv
=============================================================================
