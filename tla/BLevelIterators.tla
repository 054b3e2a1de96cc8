----------------------------- MODULE BLevelIterators -----------------------------
EXTENDS BLevelSearch

(***************************************************************************)
(* BLevel::Iter.  NextIndex_ goes to the next physical entry of the range, *)
(* then to the first of the next range; <<p, r>> is the iterator at entry  *)
(* p of range r, and it has ended when r is Threads.  An entry that gives  *)
(* the iterator no key is passed over.                                     *)
(***************************************************************************)
(* Mutant: the end of a range taken to be its number of entries. *)
NextIndexShort(lv, at) ==
  IF at[1] + 1 < lv.ranges[at[2]].entries
  THEN <<at[1] + 1, at[2]>>
  ELSE <<lv.ranges[at[2] + 1].physical, at[2] + 1>>

NextIndex(lv, at) ==
  IF at[1] + 1 <= LastPhysical(lv.ranges[at[2]])
  THEN <<at[1] + 1, at[2]>>
  ELSE <<lv.ranges[at[2] + 1].physical, at[2] + 1>>

(* The keys that the iterator gives out from entry <<p, r>> on, each       *)
(* entry's in ascending order.  Its entry iterators begin at from until    *)
(* one has a key; after that they begin at the entry's first key.          *)
Visit(lv, it) ==
  LET keys == {k \in lv.held[it.at[1]] : k >= it.from}
  IN IF it.at[2] = Threads THEN it
     ELSE [at    |-> NextIndex(lv, it.at),
           from  |-> IF keys = {} THEN it.from ELSE 0,
           given |-> it.given \o Ascending(keys)]

(* All turns that the entries of the level allow; it has ended by then. *)
IterKeys(lv, at, from) ==
  LET after[n \in 0 .. Entries(lv)] ==
        IF n = 0 THEN [at |-> at, from |-> from, given |-> <<>>] ELSE Visit(lv, after[n - 1])
  IN after[Entries(lv)].given

IterAll(lv) == IterKeys(lv, <<0, 0>>, 0)

IterFrom(lv, key, begin, end) ==
  LET t == FindBRangeByKey(lv, key)
      p == BinarySearch(lv, key, FirstOf(lv, t, begin), LastOf(lv, t, end))
  IN IterKeys(lv, <<p, t>>, key)
==================================================================================
