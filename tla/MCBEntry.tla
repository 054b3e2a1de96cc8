---------------------------- MODULE MCBEntry ----------------------------
(* A small instance of BEntry: nodes of three entries make trees of three  *)
(* levels with seven keys.                                                 *)
EXTENDS BEntry

BothKinds == {"BEntry", "NobufBEntry"}
SomeKeys == {2, 4}
=============================================================================
