---------------------------- MODULE MCArchiveMove ----------------------------
EXTENDS ArchiveMove, TLC
CONSTANTS x, y
MCNames == {x, y}
MCSymmetry == Permutations(MCNames)
=============================================================================
