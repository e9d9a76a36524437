--------------------------- MODULE MCUsbipSession ---------------------------
EXTENDS UsbipSessionInv, TLC
Symmetry == Permutations(Urbs)
=============================================================================
