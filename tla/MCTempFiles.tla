---------------------------- MODULE MCTempFiles ----------------------------
EXTENDS TempFiles
CONSTANTS first, second
MCTempSessions == {first, second}
MCThreads == MCTempSessions \cup {panelTask}
MCSymmetry == Permutations(MCTempSessions)
=============================================================================
