------------------------- MODULE MCArchiveSessions -------------------------
EXTENDS ArchiveSessions, TLC
CONSTANTS panel, other
MCThreads == {panel, other}
MCSymmetry == Permutations(MCThreads)
=============================================================================
