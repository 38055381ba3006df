--------------------------- MODULE MCHwidDevices ---------------------------
\* Instances of HwidDevices for TLC.
EXTENDS HwidDevices, TLC

MCSymmetry == Permutations(Devices) \cup Permutations(Syncers)
=============================================================================
