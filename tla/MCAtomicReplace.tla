-------------------------- MODULE MCAtomicReplace --------------------------
(* Small instances of AtomicReplace: two calls, one after the other or not.*)
EXTENDS AtomicReplace, TLC

CONSTANTS first, second, target, temp1, temp2, backup1, backup2

MCPaths == {target, temp1, temp2, backup1, backup2}
MCSource == (first :> temp1) @@ (second :> temp2)
MCBackup == (first :> backup1) @@ (second :> backup2)
=============================================================================
