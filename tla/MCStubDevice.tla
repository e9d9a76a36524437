---------------------------- MODULE MCStubDevice ----------------------------
EXTENDS StubDevice
=============================================================================
