--------------------------- MODULE SortBuncket ---------------------------
(***************************************************************************)
(* The ordered bucket of pointer_bentry.h (buncket_t of the default        *)
(* build): an array of records kept in key order by shifting, where Delete *)
(* (USE_DELETE_0) leaves a hole, a record whose key is 0.  entries counts  *)
(* the pairs and last_pos the used slots, holes included.                  *)
(*                                                                         *)
(* The operators are pure: each takes a bucket and returns what the method *)
(* of the same name leaves in it.  Slots are numbered from 0, as there.    *)
(* Flushes and fences have no counterpart: nothing is read back after a    *)
(* crash.                                                                  *)
(***************************************************************************)
EXTENDS Integers, Sequences, FiniteSetsExt

CONSTANT MaxEntries    \* max_entries: 15 in a bucket of 256 bytes

Rec(k, v) == [key |-> k, ptr |-> v]
Hole == Rec(0, 0)

Bucket == [recs : [0..MaxEntries-1 -> [key : Nat, ptr : Nat]],
           entries : Nat, last_pos : Nat, next : Nat]

Empty == [recs |-> [i \in 0..MaxEntries-1 |-> Hole],
          entries |-> 0, last_pos |-> 0, next |-> 0]

\* A slot past the array is read as a hole; no such copy is ever looked at.
At(b, i) == IF i < MaxEntries THEN b.recs[i] ELSE Hole

Used(b) == 0..b.last_pos-1

\* The pairs that Iter, started at slot i, visits: slot i, hole or not, and
\* then every slot up to last_pos that is not a hole.
From(b, i) ==
    LET seen[j \in i..b.last_pos] ==       \* below slot j
          IF j = i THEN <<>>
          ELSE IF j - 1 # i /\ b.recs[j - 1].key = 0 THEN seen[j - 1]
          ELSE Append(seen[j - 1], b.recs[j - 1])
    IN  IF i >= b.last_pos THEN <<>> ELSE seen[b.last_pos]

Live(b) == From(b, 0)

\* The first step of PutBufKV: when the array is used up but has holes, the
\* records above the last hole move down by one.
Compact(b) ==
    LET holes == {i \in Used(b) : b.recs[i].key = 0}
        moved(i) == holes # {} /\ i >= Max(holes) /\ i < b.last_pos
    IN  IF b.last_pos >= MaxEntries - 1 /\ b.last_pos # b.entries
        THEN [b EXCEPT !.recs = [i \in DOMAIN b.recs |->
                                    IF moved(i) THEN At(b, i + 1) ELSE b.recs[i]],
                       !.last_pos = @ - 1]
        ELSE b

\* The second: records shift up until one is not greater than the new key,
\* and a hole never is.
Shift(b, k, v) ==
    LET p == Max({i \in Used(b) : b.recs[i].key <= k} \union {-1}) + 1
    IN  [b EXCEPT !.recs = [i \in DOMAIN b.recs |->
                               CASE i = p -> Rec(k, v)
                                 [] i > p /\ i <= b.last_pos -> b.recs[i - 1]
                                 [] OTHER -> b.recs[i]]]

PutBufKV(b, k, v) ==
    IF b.entries = 0
    THEN [b EXCEPT !.recs[0] = Rec(k, v), !.recs[1].ptr = 0]
    ELSE Shift(Compact(b), k, v)

Counted(b) == [b EXCEPT !.entries = @ + 1, !.last_pos = @ + 1]

\* Mutant of Put: no look at max_entries.
PutUnchecked(b, k, v) == [status |-> "OK", b |-> Counted(PutBufKV(b, k, v))]

\* Put does not look for the key: a second Put of it stores a second record.
Put(b, k, v) ==
    IF b.entries >= MaxEntries
    THEN [status |-> "Full", b |-> b]
    ELSE [status |-> "OK", b |-> Counted(PutBufKV(b, k, v))]

\* Find: binary search over the first `entries' slots, holes not expected.
Find(b, k) ==
    LET search[range \in (0..MaxEntries) \X (-1..MaxEntries-1)] ==
            LET l == range[1]
                r == range[2]
                m == (l + r) \div 2
            IN  IF l > r THEN [find |-> FALSE, pos |-> l]
                ELSE IF b.recs[m].key = k THEN [find |-> TRUE, pos |-> m]
                ELSE IF b.recs[m].key > k THEN search[<<l, m - 1>>] ELSE search[<<m + 1, r>>]
    IN  search[<<0, b.entries - 1>>]

\* LinearFind: the first used slot whose key is not below k.
LinearFind(b, k) ==
    LET i == Min({j \in Used(b) : b.recs[j].key >= k} \union {b.last_pos})
    IN  [find |-> i < b.last_pos /\ At(b, i).key = k, pos |-> i]

Get(b, k) ==
    LET f == LinearFind(b, k) IN IF f.find THEN b.recs[f.pos].ptr ELSE 0

Update(b, k, v) ==
    LET f == Find(b, k)
    IN  IF f.find /\ b.recs[f.pos].ptr # 0
        THEN [status |-> "OK", b |-> [b EXCEPT !.recs[f.pos].ptr = v]]
        ELSE [status |-> "NoExist", b |-> b]

\* remove_key stops at the first hole.
Delete(b, k) ==
    LET hit == {i \in Used(b) : /\ b.recs[i].key = k
                                /\ \A j \in 0..i-1 : b.recs[j].key # 0}
    IN  IF hit = {}
        THEN [status |-> "NoExist", b |-> b]
        ELSE [status |-> "OK",
              b |-> [b EXCEPT !.recs[Min(hit)] = Hole, !.entries = @ - 1]]

\* The pairs from slot last_pos/2 on, put one by one into a new bucket.
UpperHalf(b) ==
    LET m == b.last_pos \div 2
        next[i \in m..b.last_pos] ==       \* before slot i has its turn
          IF i = m THEN Empty
          ELSE IF b.recs[i - 1].key = 0 THEN next[i - 1]
          ELSE Counted(PutBufKV(next[i - 1], b.recs[i - 1].key, b.recs[i - 1].ptr))
    IN  next[b.last_pos]

CutAt(b, m, right, nid) ==
    [b EXCEPT !.recs[m].ptr = 0, !.next = nid,
              !.entries = @ - right.entries, !.last_pos = m]

\* Mutants of Expand: the count is not cut, the chain is not taken over.
ExpandKeepsCount(b, nid) ==
    LET m == b.last_pos \div 2
    IN  [split_key |-> b.recs[m].key,
         right |-> [UpperHalf(b) EXCEPT !.next = b.next],
         left |-> [CutAt(b, m, UpperHalf(b), nid) EXCEPT !.entries = b.entries]]
ExpandUnchained(b, nid) ==
    LET m == b.last_pos \div 2
    IN  [split_key |-> b.recs[m].key, right |-> UpperHalf(b),
         left |-> CutAt(b, m, UpperHalf(b), nid)]

\* Expand_: the upper half moves to a new bucket, number nid, which is chained
\* behind this one.
Expand(b, nid) ==
    LET m == b.last_pos \div 2
    IN  [split_key |-> b.recs[m].key,
         right |-> [UpperHalf(b) EXCEPT !.next = b.next],
         left |-> CutAt(b, m, UpperHalf(b), nid)]

\* min_key falls off its end when slot 0 is a hole: any value may come back.
MinKeys(b, any) == IF b.recs[0].key # 0 THEN {b.recs[0].key} ELSE any

Iter(b) == Live(b)

\* Iter from a key: Find picks the slot, whether the key is there or not.
IterFrom(b, start_key, prefix) ==
    IF start_key <= prefix THEN Live(b) ELSE From(b, Find(b, start_key).pos)
=============================================================================
