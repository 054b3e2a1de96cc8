------------------------- MODULE MCPointerBEntry -------------------------
(* Small instances of PointerBEntry: every bucket, pointer arrays that start at key 3. *)
EXTENDS PointerBEntry

AllKinds == {"sort", "unsort", "index"}
FirstKeys == {3}
SomeKeys == {2, 3, 5}
=============================================================================
