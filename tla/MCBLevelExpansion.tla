--------------------------- MODULE MCBLevelExpansion ---------------------------
(***************************************************************************)
(* Small B-levels for TLC, with two expanders.                             *)
(***************************************************************************)
EXTENDS BLevelExpansion

CONSTANTS v0, v1

InOld(keys) == [k \in Key |-> IF k \in keys THEN v0 ELSE None]

(***************************************************************************)
(* Old entries {0, 1, 2} | {3}, {4, 5}, and BufKey = 1.  The first range   *)
(* spills into its only new entry from ExpandFinish_, and from ExpandPut_  *)
(* too if a writer fills in key 1 in time; the second range has room for   *)
(* every key but one, an entry boundary of the new level falls inside an   *)
(* old entry, and a key waits in the buffer when its entry is given up.    *)
(***************************************************************************)
ShortOldKey   == <<0, 3, 4>>
ShortFirstOld == <<1, 2, 4>>
ShortCapacity == <<1, 2>>

(* A level that holds every key but 1, which a Put may fill in. *)
OneStore == {InOld(Key \ {1})}

(* The same level where Delete has taken the only key of the second entry. *)
EmptiedStores == {InOld(Key \ {3})}

=============================================================================
