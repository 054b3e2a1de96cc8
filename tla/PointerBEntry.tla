-------------------------- MODULE PointerBEntry --------------------------
(***************************************************************************)
(* One PointerBEntry (pointer_bentry.h): up to EntryCount pointers to      *)
(* buckets, each with the least key of its bucket.  A Put into a full      *)
(* bucket splits it and retries; when no pointer is free it reports Full   *)
(* and the group above expands.                                            *)
(*                                                                         *)
(* The three bucket classes are interchangeable behind buncket_t; kind     *)
(* says which one this entry was compiled with.  heap is the C level       *)
(* memory, in order of allocation: a bucket is named by its place there,   *)
(* and 0 is nullptr.  A call is one step, the code being single-threaded.  *)
(***************************************************************************)
EXTENDS Integers, Sequences, SequencesExt, FiniteSetsExt

CONSTANTS
    Kinds,        \* the bucket classes explored
    MaxEntries,   \* max_entries of a bucket
    EntryCount,   \* entry_count: 12 pointers
    MaxKey,       \* bound: keys are 1..MaxKey
    FirstKey,     \* the keys an entry may be bulk loaded with
    InitPrefix,   \* the largest key not above 8, the prefix_len of group::Init
    ChangeKeys,   \* bound: the keys that are updated or deleted
    MaxChanges    \* bound: calls to Update and Delete

ASSUME PointerBEntryAssumption ==
    /\ Kinds \subseteq {"sort", "unsort", "index"}
    /\ MaxEntries \in Nat \ {0, 1} /\ EntryCount \in Nat \ {0}
    /\ MaxKey \in Nat /\ FirstKey \subseteq 1..MaxKey
    /\ ChangeKeys \subseteq 1..MaxKey
    /\ InitPrefix \in 0..MaxKey /\ MaxChanges \in Nat

VARIABLES
    kind,     \* which bucket class
    prefix,   \* entrys[0].buf.prefix_bytes
    heap,     \* the buckets allocated so far
    ents,     \* entrys[0 .. entries-1]: entry_key and pointer
    store,    \* what a map would hold: the value of each key, 0 if absent
    holed,    \* a Delete has succeeded
    dirty,    \* the code has gone where it promises nothing, see Put and
              \* AdjustEntryKey: bound, such a state is not followed further
    changes,  \* calls to Update and Delete
    last      \* the last call, whether its key was there, and what it returned

vars == <<kind, prefix, heap, ents, store, holed, dirty, changes, last>>

S == INSTANCE SortBuncket
U == INSTANCE UnSortBuncket
X == INSTANCE Buncket

Keys == 1..MaxKey
Statuses == {"OK", "Full", "Exist", "NoExist"}

Pick(s, u, x) == CASE kind = "sort" -> s [] kind = "unsort" -> u [] kind = "index" -> x

BEmpty == Pick(S!Empty, U!Empty, X!Empty)
BPut(b, k, v) == Pick(S!Put(b, k, v), U!Put(b, k, v), X!Put(b, k, v))
BUpdate(b, k, v) == Pick(S!Update(b, k, v), U!Update(b, k, v), X!Update(b, k, v))
BDelete(b, k) == Pick(S!Delete(b, k), U!Delete(b, k), X!Delete(b, k))
BGet(b, k) == Pick(S!Get(b, k), U!Get(b, k), X!Get(b, k))
BExpand(b, n) == Pick(S!Expand(b, n), U!Expand(b, n), X!Expand(b, n))
BMinKeys(b) == Pick(S!MinKeys(b, 0..MaxKey), U!MinKeys(b, 0..MaxKey), X!MinKeys(b, 0..MaxKey))
BIter(b) == Pick(S!Iter(b), U!Iter(b), X!Iter(b))
BIterFrom(b, k, p) == Pick(S!IterFrom(b, k, p), U!IterFrom(b, k, p), X!IterFrom(b, k, p))

Pointer(i) == heap[ents[i].ptr]

\* The pairs of a bucket, in whatever order it keeps them.
Pairs(b) == {rec \in Range(BIter(b)) : rec.key # 0}

-----------------------------------------------------------------------------
(* The operations *)

\* Find_pos: the last of the leading entries whose key is not above k, or the
\* first entry.  The loop stops at the first key above k.
FindPos(es, k) ==
    LET above == {i \in 1..Len(es) : es[i].entry_key > k}
    IN  Max({1, Min(above \union {Len(es) + 1}) - 1})

\* The two constructors: bulk_load gives the entry its first pair, Init of a
\* group makes one with key 0, no pair and, by its arguments, prefix_len 8.
Init ==
    /\ kind \in Kinds
    /\ \E k \in FirstKey \union {0} :
         /\ prefix = IF k = 0 THEN InitPrefix ELSE 0
         /\ heap = <<IF k = 0 THEN BEmpty ELSE BPut(BEmpty, k, 1).b>>
         /\ ents = <<[entry_key |-> k, ptr |-> 1]>>
         /\ store = [x \in Keys |-> IF x = k THEN 1 ELSE 0]
    /\ holed = FALSE /\ dirty = FALSE
    /\ changes = 0
    /\ last = [op |-> "new", had |-> FALSE, status |-> "OK"]

\* The split in Put: the bucket at pos gives its upper half to a new bucket,
\* and the entries behind pos move up to let it in.
Split(s, pos) ==
    LET x == BExpand(s.heap[s.ents[pos].ptr], Len(s.heap) + 1)
    IN  [heap |-> Append([s.heap EXCEPT ![s.ents[pos].ptr] = x.left], x.right),
         ents |-> InsertAt(s.ents, pos + 1,
                           [entry_key |-> x.split_key, ptr |-> Len(s.heap) + 1])]

\* The turns of Put from the label retry on: while the bucket of the key is full
\* and a pointer is free, of which each turn takes one, the bucket is split.
Retried(s, k) ==
    LET after[n \in Len(s.ents)..EntryCount] ==       \* n pointers in use
          IF n = Len(s.ents) THEN s
          ELSE LET t   == after[n - 1]
                   pos == FindPos(t.ents, k)
               IN  IF BPut(t.heap[t.ents[pos].ptr], k, 0).status = "Full"
                   THEN Split(t, pos) ELSE t
    IN  after[EntryCount]

\* The turn that does not split.
PutFrom(s, k, v) ==
    LET pos == FindPos(s.ents, k)
        r   == BPut(s.heap[s.ents[pos].ptr], k, v)
    IN  [status |-> r.status,
         heap |-> [s.heap EXCEPT ![s.ents[pos].ptr] = r.b],
         ents |-> IF r.status = "OK" /\ s.ents[1].entry_key > k
                  THEN [s.ents EXCEPT ![1].entry_key = k]
                  ELSE s.ents]

\* Put of a key that is absent: only the indexed bucket looks for the key
\* first, and the callers insert each key once.
Put(k) ==
    /\ ~dirty /\ store[k] = 0
    /\ LET r == PutFrom(Retried([heap |-> heap, ents |-> ents], k), k, 1)
       IN  /\ heap' = r.heap /\ ents' = r.ents
           /\ store' = IF r.status = "OK" THEN [store EXCEPT ![k] = 1] ELSE store
           /\ last' = [op |-> "put", had |-> store[k] # 0, status |-> r.status]
    /\ dirty' = (dirty \/ (kind = "sort" /\ holed))
    /\ UNCHANGED <<kind, prefix, holed, changes>>

Update(k) ==
    /\ ~dirty /\ changes < MaxChanges
    /\ LET i == ents[FindPos(ents, k)].ptr
           r == BUpdate(heap[i], k, 2)
       IN  /\ heap' = [heap EXCEPT ![i] = r.b]
           /\ store' = IF r.status = "OK" THEN [store EXCEPT ![k] = 2] ELSE store
           /\ last' = [op |-> "update", had |-> store[k] # 0, status |-> r.status]
    /\ changes' = changes + 1
    /\ UNCHANGED <<kind, prefix, ents, holed, dirty>>

Delete(k) ==
    /\ ~dirty /\ changes < MaxChanges
    /\ LET i == ents[FindPos(ents, k)].ptr
           r == BDelete(heap[i], k)
       IN  /\ heap' = [heap EXCEPT ![i] = r.b]
           /\ store' = IF r.status = "OK" THEN [store EXCEPT ![k] = 0] ELSE store
           /\ last' = [op |-> "delete", had |-> store[k] # 0, status |-> r.status]
           /\ holed' = (holed \/ r.status = "OK")
    /\ changes' = changes + 1
    /\ UNCHANGED <<kind, prefix, ents, dirty>>

\* AdjustEntryKey, which a group calls before it expands.
AdjustEntryKey ==
    /\ \E k \in BMinKeys(Pointer(1)) : ents' = [ents EXCEPT ![1].entry_key = k]
    /\ dirty' = (dirty \/ Cardinality(BMinKeys(Pointer(1))) > 1)
    /\ last' = [op |-> "adjust", had |-> FALSE, status |-> "OK"]
    /\ UNCHANGED <<kind, prefix, heap, store, holed, changes>>

Next == \/ \E k \in Keys : Put(k)
        \/ \E k \in ChangeKeys : Update(k) \/ Delete(k)
        \/ AdjustEntryKey

Spec == Init /\ [][Next]_vars

-----------------------------------------------------------------------------
(* Reads *)

Lookup(k) == BGet(Pointer(FindPos(ents, k)), k)

\* PointerBEntry::Iter: bucket after bucket, each from its first slot.  Until
\* end() says so the caller reads a pair, which an empty bucket does not have.
Junk == <<[key |-> 0, ptr |-> 0]>>
Visit(i) == IF BIter(Pointer(i)) = <<>> THEN Junk ELSE BIter(Pointer(i))
VisitAfter(pos) == FlattenSeq([i \in 1..Len(ents) - pos |-> Visit(pos + i)])
IterAll == VisitAfter(0)

\* Iter from a key starts in the bucket Find_pos names, and leaves it at once
\* when it has no pair from there on.  Only the first entry has a prefix.
IterFrom(k) ==
    LET pos == FindPos(ents, k)
    IN  BIterFrom(Pointer(pos), k, IF pos = 1 THEN prefix ELSE 0) \o VisitAfter(pos)

-----------------------------------------------------------------------------
(* Properties *)

\* Type invariant; the status of a call is one the code can return.
TypeOK ==
    /\ kind \in Kinds /\ prefix \in {0, InitPrefix}
    /\ \A i \in DOMAIN heap : heap[i].entries \in 0..MaxEntries
    /\ Len(ents) \in 1..EntryCount
    /\ \A i \in DOMAIN ents :
         ents[i].entry_key \in 0..MaxKey /\ ents[i].ptr \in DOMAIN heap
    /\ store \in [Keys -> 0..2]
    /\ {holed, dirty} \subseteq BOOLEAN /\ changes \in 0..MaxChanges
    /\ last.had \in BOOLEAN /\ last.status \in Statuses

\* Get finds every pair, wherever splits have taken it, with its last value,
\* and nothing that was deleted: the slots a split or a Delete leaves behind
\* are never read back.
LookupAgrees == ~dirty => \A k \in Keys : Lookup(k) = store[k]

\* Every key is in the bucket that Find_pos leads to: a split_key is a true
\* boundary although the bucket's order may be in an index or nowhere.
KeysBetweenEntries ==
    ~dirty => \A i \in DOMAIN ents : \A rec \in Pairs(Pointer(i)) :
                 /\ i > 1 => ents[i].entry_key <= rec.key
                 /\ i < Len(ents) => rec.key < ents[i + 1].entry_key

\* next_bucket links the buckets in the order of the entries, so that the scan
\* that follows it and the iterator that follows the entries agree.
ChainFollowsEntries ==
    \A i \in DOMAIN ents :
       Pointer(i).next = IF i = Len(ents) THEN 0 ELSE ents[i + 1].ptr

\* The header of a bucket counts its pairs: a split moves as many pairs as it
\* takes off the count, and the bitmap marks the slots that the ranks name.
CountsAgree ==
    /\ ~dirty => \A i \in DOMAIN heap : heap[i].entries = Cardinality(Pairs(heap[i]))
    /\ kind = "index" => \A i \in DOMAIN heap :
         heap[i].bitmap = {heap[i].total_indexs[n] : n \in 0..heap[i].entries-1}

\* The three together: what the pointers say of the buckets is true, after
\* any splits, updates and deletes.
EntriesMatchBuckets == KeysBetweenEntries /\ ChainFollowsEntries /\ CountsAgree

\* What an iterator yields is the map from key k on: its pairs in key order.
InOrder(seq, k) ==
    /\ Range(seq) = {[key |-> x, ptr |-> store[x]] : x \in {y \in Keys : y >= k /\ store[y] # 0}}
    /\ \A m, n \in DOMAIN seq : m < n => seq[m].key < seq[n].key

\* Both iterators yield the pairs in key order, each once, unless a bucket was
\* emptied, or the ordered bucket has holes, or the key is within prefix_len.
IterationInOrder ==
    \/ dirty \/ (kind = "sort" /\ holed)
    \/ \E i \in DOMAIN ents : Pairs(Pointer(i)) = {}
    \/ /\ InOrder(IterAll, 1)
       /\ \A k \in Keys : (k > prefix \/ FindPos(ents, k) > 1) => InOrder(IterFrom(k), k)

\* Update and Delete say OK exactly when the key was there, except for the
\* ordered bucket once it has holes.  One Put splits at most once, which is how
\* often the group counts it, and it reports Full only when no pointer is left,
\* having changed nothing.
StatusTruthful ==
    [][/\ (last'.op \in {"update", "delete"} /\ ~(kind = "sort" /\ holed))
             => (last'.status = "OK" <=> last'.had)
       /\ last'.op = "put" =>
             /\ Len(ents') <= Len(ents) + 1
             /\ last'.status = "Full" => (Len(ents) = EntryCount /\ ents' = ents
                                             /\ heap' = heap)]_vars
=============================================================================
