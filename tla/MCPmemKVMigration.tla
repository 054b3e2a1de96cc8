--------------------------- MODULE MCPmemKVMigration ---------------------------
(***************************************************************************)
(* Small stores for TLC, with a threshold of one key.                      *)
(***************************************************************************)
EXTENDS PmemKVMigration

CONSTANTS c1, c2, c3

EveryOperation == [c \in Clients |-> {"Put", "Get", "Delete"}]

=============================================================================
