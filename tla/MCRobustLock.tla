---------------------------- MODULE MCRobustLock ----------------------------
(* A small instance of RobustLock: a launcher with two threads, its window *)
(* and its owner monitor, and a worker.                                    *)
EXTENDS RobustLock, TLC

CONSTANTS fm, worker, window, monitor, publisher

MCProcs == {fm, worker}
MCThreads == {window, monitor, publisher}
MCProcOf == (window :> fm) @@ (monitor :> fm) @@ (publisher :> worker)
=============================================================================
