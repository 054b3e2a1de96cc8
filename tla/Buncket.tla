----------------------------- MODULE Buncket -----------------------------
(***************************************************************************)
(* The indexed bucket of pointer_bentry.h (without USET_PREFIX_COMPRESS):  *)
(* pairs stay in the slot they were written to, a bitmap says which slots  *)
(* are taken, and total_indexs lists the slots in key order.  Pure         *)
(* operators, slots and ranks from 0.                                      *)
(***************************************************************************)
EXTENDS Integers, Sequences, FiniteSetsExt

CONSTANT MaxEntries    \* max_entries: 14 in a bucket of 256 bytes

Rec(k, v) == [key |-> k, ptr |-> v]

Slots == 0..MaxEntries-1

Bucket == [buf : [Slots -> [key : Nat, ptr : Nat]], bitmap : SUBSET Slots,
           total_indexs : [Slots -> Slots], entries : Nat, next : Nat]

Empty == [buf |-> [i \in Slots |-> Rec(0, 0)], bitmap |-> {},
          total_indexs |-> [i \in Slots |-> 0], entries |-> 0, next |-> 0]

KeyAt(b, n) == b.buf[b.total_indexs[n]].key
ValueAt(b, n) == b.buf[b.total_indexs[n]].ptr

\* Find: binary search over the ranks.
Find(b, k) ==
    LET search[range \in (0..MaxEntries) \X (-1..MaxEntries-1)] ==
            LET l == range[1]
                r == range[2]
                m == (l + r) \div 2
            IN  IF l > r THEN [find |-> FALSE, pos |-> l]
                ELSE IF KeyAt(b, m) = k THEN [find |-> TRUE, pos |-> m]
                ELSE IF KeyAt(b, m) > k THEN search[<<l, m - 1>>] ELSE search[<<m + 1, r>>]
    IN  search[<<0, b.entries - 1>>]

\* Mutant of Put: the ranks above do not make room.
PutOverRank(b, k, v) ==
    LET f    == Find(b, k)
        slot == Min(Slots \ b.bitmap)
    IN  IF f.find THEN [status |-> "Exist", b |-> b]
        ELSE IF b.entries >= MaxEntries THEN [status |-> "Full", b |-> b]
        ELSE [status |-> "OK",
              b |-> [b EXCEPT !.buf[slot] = Rec(k, v), !.bitmap = @ \union {slot},
                              !.total_indexs[f.pos] = slot, !.entries = @ + 1]]

\* PutBufKV takes the lowest free slot; Put then makes room at the rank.
Put(b, k, v) ==
    LET f    == Find(b, k)
        slot == Min(Slots \ b.bitmap)
    IN  IF f.find THEN [status |-> "Exist", b |-> b]
        ELSE IF b.entries >= MaxEntries THEN [status |-> "Full", b |-> b]
        ELSE [status |-> "OK",
              b |-> [b EXCEPT
                       !.buf[slot] = Rec(k, v),
                       !.bitmap = @ \union {slot},
                       !.total_indexs = [n \in Slots |->
                           CASE n = f.pos -> slot
                             [] n > f.pos /\ n <= b.entries -> @[n - 1]
                             [] n < f.pos \/ n > b.entries -> @[n]],
                       !.entries = @ + 1]]

Get(b, k) ==
    LET f == Find(b, k) IN IF f.find THEN ValueAt(b, f.pos) ELSE 0

Update(b, k, v) ==
    LET f == Find(b, k)
    IN  IF f.find /\ ValueAt(b, f.pos) # 0
        THEN [status |-> "OK", b |-> [b EXCEPT !.buf[b.total_indexs[f.pos]].ptr = v]]
        ELSE [status |-> "NoExist", b |-> b]

\* Mutant of Delete: the slot stays marked.
DeleteKeepsSlot(b, k) ==
    LET f == Find(b, k)
    IN  IF ~f.find \/ ValueAt(b, f.pos) = 0
        THEN [status |-> "NoExist", b |-> b]
        ELSE [status |-> "OK",
              b |-> [b EXCEPT
                       !.total_indexs = [n \in Slots |->
                           IF n >= f.pos /\ n < b.entries - 1 THEN @[n + 1] ELSE @[n]],
                       !.entries = @ - 1]]

\* DeletePos frees the slot, the ranks above close up.
Delete(b, k) ==
    LET f == Find(b, k)
    IN  IF ~f.find \/ ValueAt(b, f.pos) = 0
        THEN [status |-> "NoExist", b |-> b]
        ELSE [status |-> "OK",
              b |-> [b EXCEPT
                       !.bitmap = @ \ {b.total_indexs[f.pos]},
                       !.total_indexs = [n \in Slots |->
                           IF n >= f.pos /\ n < b.entries - 1 THEN @[n + 1] ELSE @[n]],
                       !.entries = @ - 1]]

\* Expand_: the upper half of the ranks is Put into the new bucket nid, then
\* its slots are freed here.
Expand(b, nid) ==
    LET half  == b.entries \div 2
        upper == half..b.entries-1
        next[n \in half..b.entries] ==     \* before rank n has its turn
          IF n = half THEN Empty ELSE Put(next[n - 1], KeyAt(b, n - 1), ValueAt(b, n - 1)).b
    IN  [split_key |-> KeyAt(b, half),
         right |-> [next[b.entries] EXCEPT !.next = b.next],
         left |-> [b EXCEPT !.bitmap = @ \ {b.total_indexs[n] : n \in upper},
                            !.entries = half, !.next = nid]]

\* min_key reads rank 0 even of an empty bucket.
MinKeys(b, any) == IF b.entries = 0 THEN any ELSE {KeyAt(b, 0)}

Iter(b) == [n \in 1..b.entries |-> b.buf[b.total_indexs[n - 1]]]

IterFrom(b, start_key, prefix) ==
    IF start_key <= prefix
    THEN Iter(b)
    ELSE SubSeq(Iter(b), Find(b, start_key).pos + 1, b.entries)
=============================================================================
