---------------------------- MODULE KVBuffer ----------------------------
(***************************************************************************)
(* The unsorted buffer of an entry (kvbuffer.h without BUF_SORT): pairs in *)
(* the order they were put, a Delete fills the gap with the last one.      *)
(***************************************************************************)
EXTENDS Integers, Sequences, SequencesExt, FiniteSets

CONSTANT MaxEntries   \* max_entries: 112 / (8 + suffix_bytes), 7 to 12

Full(b) == Len(b) >= MaxEntries

\* Find looks from the last pair back; 0 stands for a miss, slots count from 1.
Find(b, key) ==
    LET at == {i \in DOMAIN b : b[i].key = key}
    IN  IF at = {} THEN 0 ELSE CHOOSE i \in at : \A j \in at : j <= i

Put(b, key, value) == Append(b, [key |-> key, value |-> value])
Update(b, pos, value) == [b EXCEPT ![pos].value = value]

Delete(b, pos) == Front([b EXCEPT ![pos] = Last(b)])

\* GetSortedIndex: the slots, counted from 0, in the order of their keys.
GetSortedIndex(b) ==
    [n \in DOMAIN b |->
       (CHOOSE i \in DOMAIN b : Cardinality({j \in DOMAIN b : b[j].key < b[i].key}) = n - 1) - 1]
=============================================================================
