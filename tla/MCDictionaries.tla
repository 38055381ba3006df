--------------------------- MODULE MCDictionaries ---------------------------
\* Instances of Dictionaries for TLC.
EXTENDS Dictionaries, TLC

MCSymmetry == Permutations(Syncers)
=============================================================================
