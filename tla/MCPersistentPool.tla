--------------------------- MODULE MCPersistentPool ---------------------------
(* Small instances of PersistentPool.  Each cfg chooses the number of workers  *)
(* and the operations the caller may use.                                      *)
EXTENDS PersistentPool

MCLoopOps  == {"loop", "batch"}
MCModeOps  == {"loop", "submit", "wait", "sleep", "spin"}
MCFew      == {1, 5}
MCWide     == {5}
MCBatch    == {0, 2}
MCNoBatch  == {}
=============================================================================
