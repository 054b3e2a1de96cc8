--------------------------- MODULE SortBuffer ---------------------------
(***************************************************************************)
(* The sorted buffer of a C level node (sortbuffer.h).  A pair never moves *)
(* from the slot it was written to; its rank in key order is in the        *)
(* header, a permutation of the slots in four bits each: index(rank).  The *)
(* ranks from entries on name the free slots, the last one the slot that   *)
(* the next Put takes, and every operation rotates a tail of the header.   *)
(*                                                                         *)
(* Keys of one buffer share their prefix, so a key stands for its suffix.  *)
(***************************************************************************)
EXTENDS Integers

CONSTANTS
    Slots,       \* ranks in the header: 12
    MaxEntries   \* max_entries: 112 / (8 + suffix_bytes), 7 to 12

Ranks == 0..Slots-1

\* circular_lshift and circular_rshift of the ranks from start on, by n ranks.
RotateUp(index, start, n) ==
    LET T == Slots - start
    IN  [r \in Ranks |-> IF r < start THEN index[r]
                         ELSE index[start + ((r - start + T - n) % T)]]
RotateDown(index, start, n) ==
    LET T == Slots - start
    IN  [r \in Ranks |-> IF r < start THEN index[r]
                         ELSE index[start + ((r - start + n) % T)]]

\* The header 0x0123456789AB'0000 of a new buffer.
Blank == [entries |-> 0,
          index   |-> [r \in Ranks |-> Slots - 1 - r],
          recs    |-> [s \in Ranks |-> [key |-> 0, value |-> 0]]]

Rec(b, r) == b.recs[b.index[r]]
Pairs(b) == [n \in 1..b.entries |-> Rec(b, n - 1)]

\* Find: binary search over the ranks; on a miss, the rank to insert at.
Find(b, key) ==
    LET search[range \in (0..Slots) \X (-1..Slots-1)] ==
            LET left == range[1]
                right == range[2]
                middle == (left + right) \div 2
                mid_key == Rec(b, middle).key
            IN  IF left > right THEN [pos |-> left, exist |-> FALSE]
                ELSE IF mid_key = key THEN [pos |-> middle, exist |-> TRUE]
                ELSE IF mid_key > key THEN search[<<left, middle - 1>>]
                ELSE search[<<middle + 1, right>>]
    IN  search[<<0, b.entries - 1>>]

\* Mutant of FindLE: the entry equal to the key is not counted.
FindLEStrict(b, key) ==
    LET above == {r \in 0..b.entries-1 : Rec(b, r).key >= key}
    IN  IF above = {} THEN b.entries - 1
        ELSE (CHOOSE r \in above : \A q \in above : r <= q) - 1

\* FindLE: the rank of the last key not above the given one, or -1.  The loop
\* stops at the first key that is above.
FindLE(b, key) ==
    LET above == {r \in 0..b.entries-1 : Rec(b, r).key > key}
    IN  IF above = {} THEN b.entries - 1
        ELSE (CHOOSE r \in above : \A q \in above : r <= q) - 1

\* Put at a rank that Find returned; the code asserts NextSlot < max_entries.
NextSlot(b) == b.index[Slots - 1]
Put(b, pos, key, value) ==
    [entries |-> b.entries + 1,
     index   |-> RotateUp(b.index, pos, 1),
     recs    |-> [s \in Ranks |-> IF s = NextSlot(b) THEN [key |-> key, value |-> value]
                                  ELSE b.recs[s]]]

Update(b, pos, value) ==
    [b EXCEPT !.recs = [s \in Ranks |-> [key   |-> b.recs[s].key,
                                         value |-> IF s = b.index[pos] THEN value
                                                   ELSE b.recs[s].value]]]

\* Delete: the slot becomes the next to be taken.
Delete(b, pos) ==
    [b EXCEPT !.entries = @ - 1, !.index = RotateDown(@, pos, 1)]

\* Mutant of CopyData: the pairs are laid out in ascending order.
CopyDataAscending(b, start) ==
    LET n == b.entries - start
    IN  [entries |-> n,
         index   |-> RotateUp(Blank.index, 0, n),
         recs    |-> [s \in Ranks |-> IF s < n THEN Rec(b, start + s) ELSE Blank.recs[s]]]

\* CopyData: the upper ranks into a new buffer, the greatest key in slot 0.
CopyData(b, start) ==
    LET n == b.entries - start
    IN  [entries |-> n,
         index   |-> RotateUp(Blank.index, 0, n),
         recs    |-> [s \in Ranks |-> IF s < n THEN Rec(b, b.entries - 1 - s)
                                       ELSE Blank.recs[s]]]

\* DeleteData: the upper ranks become the free slots that are taken first.
DeleteData(b, start) ==
    [b EXCEPT !.entries = start,
              !.index = RotateDown(@, start, b.entries - start)]

\* FromKVBuffer: the slots of an unsorted buffer, ranked by sorted (a sequence
\* of its slots), with the free slots behind, the lowest taken first.
FromKVBuffer(n, slots, sorted) ==
    [entries |-> n,
     index   |-> [r \in Ranks |-> IF r < n THEN sorted[r + 1] ELSE Slots - 1 + n - r],
     recs    |-> [s \in Ranks |-> IF s < n THEN slots[s] ELSE Blank.recs[s]]]
=============================================================================
