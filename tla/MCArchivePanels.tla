-------------------------- MODULE MCArchivePanels --------------------------
EXTENDS ArchivePanels
MCThreads == {worker, closer}
=============================================================================
