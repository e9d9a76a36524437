---------------------------- MODULE MCStubBusid -----------------------------
EXTENDS StubBusid

CONSTANTS d1, d2, d3, i1, i2
=============================================================================
