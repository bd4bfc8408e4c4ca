--------------------------- MODULE MCUsbObservation ---------------------------
\* Instance of UsbObservation.
EXTENDS UsbObservation, TLC
Symmetry == Permutations(Names) \cup Permutations(Volumes)
=============================================================================
