--------------------------- MODULE LetreeBuckets ---------------------------
(***************************************************************************)
(* Letree's buckets against the bucket of the default build: a bucket that *)
(* Letree tells by its labels is laid out in the slots of a SortBuncket,   *)
(* each operation is done in both, and the slots afterwards must be those  *)
(* of the labels afterwards.                                               *)
(***************************************************************************)
EXTENDS Letree

Sorted == INSTANCE SortBuncket

\* The used slots, from the first: a hole before the pair of its own key.
Slots(b) ==
    LET labels == {<<h, 0>> : h \in b.holes} \union {<<k, 1>> : k \in b.keys}
        placed == Listed(labels, Lexical(labels))
    IN  [n \in DOMAIN placed |-> IF placed[n][2] = 0 THEN 0 ELSE placed[n][1]]

\* The bucket in slots.  Behind the used ones a bucket that was used before has
\* what it left there.
Laid(b, left) ==
    [Sorted!Empty EXCEPT
       !.recs     = [i \in DOMAIN @ |->
                       IF i < Len(Slots(b)) /\ Slots(b)[i + 1] # 0 THEN Sorted!Rec(Slots(b)[i + 1], 1)
                       ELSE IF i >= Len(Slots(b)) /\ Slots(b) # <<>> THEN Sorted!Rec(left, 1)
                       ELSE Sorted!Hole],
       !.entries  = Cardinality(b.keys),
       !.last_pos = Len(Slots(b))]

Shows(c, b) == /\ c.entries = Cardinality(b.keys)
               /\ [n \in 1..c.last_pos |-> c.recs[n - 1].key] = Slots(b)

Visited(recs) == [n \in DOMAIN recs |-> recs[n].key]

GetAgrees(b, c, k) == Sorted!Get(c, k) # 0 <=> k \in b.keys

PutAgrees(b, c, k) ==
    LET put_ == Sorted!Put(c, k, 1)
    IN  k \notin b.keys =>
          /\ put_.status = "Full" <=> Cardinality(b.keys) >= MaxEntries
          /\ put_.status = "OK" /\ ~Misled(b, k) => Shows(put_.b, Stored(b, k))

DeleteAgrees(b, c, k) ==
    LET deleted == Sorted!Delete(c, k)
    IN  /\ deleted.status = "OK" <=> k \in b.keys /\ \A h \in b.holes : k < h
        /\ deleted.status = "OK" => Shows(deleted.b, Vacated(b, k))

IterAgrees(b, c) ==
    /\ Headed(b) => Visited(Sorted!Iter(c)) = Ordered(b.keys)
    /\ b.holes = {} => \A k \in Keys :
         Visited(Sorted!IterFrom(c, k, b.prefix))
           = Ordered({x \in b.keys : k <= b.prefix \/ x >= k})

MinKeyAgrees(b, c) == Sorted!MinKeys(c, {}) = IF Headed(b) THEN {Min(b.keys)} ELSE {}

ExpandAgrees(b, c) ==
    LET e == Sorted!Expand(c, 1)
    IN  Cardinality(b.keys) >= MaxEntries =>
          /\ e.split_key = Halves(b)[2].key
          /\ Shows(e.left, Halves(b)[1]) /\ Shows(e.right, Halves(b)[2])

\* While the tree is not dirty, every call on a bucket does to its slots what
\* Letree does to its labels: Put between holes and through the closing of the
\* last one, Delete, which ends at the first hole, Get past holes, the iterators,
\* min_key and the cut by slot of Expand_.
BucketsAgree ==
    ~dirty => \A place \in Places(groups) : \A left \in {0, MaxKey} :
      LET b == PointerAt(groups, place)
          c == Laid(b, left)
      IN  /\ \A k \in Keys : GetAgrees(b, c, k) /\ PutAgrees(b, c, k) /\ DeleteAgrees(b, c, k)
          /\ IterAgrees(b, c) /\ MinKeyAgrees(b, c) /\ ExpandAgrees(b, c)
=============================================================================
