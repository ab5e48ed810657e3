----------------------------- MODULE MCIpoDisk -----------------------------
EXTENDS IpoDisk, TLC
CONSTANTS f, g
Symmetry == Permutations(Names)
=============================================================================
