--------------------------- MODULE MCTaskIpcTable ---------------------------
(* Small instances of TaskIpcTable.  Sessions come after one another, and  *)
(* two of them meet in a slot when there is one slot only.                 *)
EXTENDS TaskIpcTable

CONSTANT fm

OneOwner == {fm}
=============================================================================
