------------------------------ MODULE MCNSLock ------------------------------
(* Small instances of NSLock. *)
EXTENDS NSLock

MCPaths == {1, 2}
=============================================================================
