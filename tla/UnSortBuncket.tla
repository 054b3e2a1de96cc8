-------------------------- MODULE UnSortBuncket --------------------------
(***************************************************************************)
(* The unordered bucket of pointer_bentry.h (the alternative buncket_t):   *)
(* Put appends, Delete moves the last record into the gap, and splits and  *)
(* iterators sort the positions first.  Pure operators, slots from 0.      *)
(***************************************************************************)
EXTENDS Integers, Sequences, FiniteSetsExt

CONSTANT MaxEntries    \* max_entries: 15 in a bucket of 256 bytes

Rec(k, v) == [key |-> k, ptr |-> v]

Bucket == [recs : [0..MaxEntries-1 -> [key : Nat, ptr : Nat]],
           entries : Nat, next : Nat]

Empty == [recs |-> [i \in 0..MaxEntries-1 |-> Rec(0, 0)], entries |-> 0, next |-> 0]

Used(b) == 0..b.entries-1

\* Mutant of SortedIndex: the positions as they are.
UnsortedIndex(b) == [n \in 1..b.entries |-> n - 1]

\* getSortedIndex: the used positions by the key each holds.
SortedIndex(b) ==
    [n \in 1..b.entries |->
       CHOOSE i \in Used(b) : Cardinality({j \in Used(b) : b.recs[j].key < b.recs[i].key}) = n - 1]

Put(b, k, v) ==
    IF b.entries >= MaxEntries
    THEN [status |-> "Full", b |-> b]
    ELSE [status |-> "OK",
          b |-> [b EXCEPT !.recs[b.entries] = Rec(k, v), !.entries = @ + 1]]

\* Find: the first position that holds k, or entries.
Find(b, k) == Min({i \in Used(b) : b.recs[i].key = k} \union {b.entries})

Get(b, k) == IF Find(b, k) < b.entries THEN b.recs[Find(b, k)].ptr ELSE 0

Update(b, k, v) ==
    IF Find(b, k) < b.entries
    THEN [status |-> "OK", b |-> [b EXCEPT !.recs[Find(b, k)].ptr = v]]
    ELSE [status |-> "NoExist", b |-> b]

\* Mutant of RemoveKey: the last record is not moved into the gap.
RemoveKeyNoFill(b, k, idx) == b

\* remove_key: position idx - 1, the last one still in use, fills the gap.
\* The search is over all `entries' positions, those above idx included.
RemoveKey(b, k, idx) ==
    IF Find(b, k) \in {b.entries, idx - 1}
    THEN b
    ELSE [b EXCEPT !.recs[Find(b, k)] = b.recs[idx - 1]]

Delete(b, k) ==
    IF Find(b, k) = b.entries
    THEN [status |-> "NoExist", b |-> b]
    ELSE [status |-> "OK",
          b |-> [RemoveKey(b, k, b.entries) EXCEPT !.entries = @ - 1]]

\* Expand_: the upper half by rank is copied to the new bucket nid and then
\* removed here one by one; `entries' is cut only at the end, so each removal
\* reads the key at a position that an earlier one may have left behind.
Expand(b, nid) ==
    LET rank  == SortedIndex(b)
        half  == b.entries \div 2
        upper == b.entries - half
        right == [Empty EXCEPT
                    !.recs = [i \in DOMAIN b.recs |->
                                 IF i < upper THEN b.recs[rank[half + i + 1]] ELSE @[i]],
                    !.entries = upper, !.next = b.next]
        cut[n \in 0..upper] ==             \* with n pairs removed
          IF n = 0 THEN b
          ELSE RemoveKey(cut[n - 1], cut[n - 1].recs[rank[half + n]].key, b.entries - n + 1)
    IN  [split_key |-> b.recs[rank[half + 1]].key,
         right |-> right,
         left |-> [cut[upper] EXCEPT !.entries = half, !.next = nid]]

\* min_key reads slot 0 even of an empty bucket, whose memory was never set.
MinKeys(b, any) ==
    IF b.entries = 0 THEN any ELSE {Min({b.recs[i].key : i \in Used(b)})}

Iter(b) == LET rank == SortedIndex(b) IN [n \in 1..b.entries |-> b.recs[rank[n]]]

IterFrom(b, start_key, prefix) ==
    LET first == Min({n \in 1..b.entries : Iter(b)[n].key >= start_key} \union {b.entries + 1})
    IN  IF start_key <= prefix THEN Iter(b) ELSE SubSeq(Iter(b), first, b.entries)
=============================================================================
