--------------------------- MODULE MCTaskMapping ---------------------------
EXTENDS TaskMapping
CONSTANT a
OneTask == {a}
=============================================================================
