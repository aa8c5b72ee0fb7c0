-------------------------- MODULE MCFileTransfer --------------------------
EXTENDS FileTransfer, TLC
CONSTANTS x, y
MCNames == {x, y}
MCSymmetry == Permutations(MCNames)
=============================================================================
