----------------------------- MODULE BEntry -----------------------------
(***************************************************************************)
(* One entry of the B level and the C level below it: BEntry, which puts   *)
(* an unsorted buffer in front of its tree, and NobufBEntry, which has the *)
(* tree alone and is the one the default build (NO_ENTRY_BUF) uses.  kind  *)
(* says which.  A lock of the B level makes a call one step.               *)
(***************************************************************************)
EXTENDS Integers, Sequences, SequencesExt, FiniteSetsExt

CONSTANTS
    Kinds,        \* the classes explored
    Slots,        \* ranks in the header of a node: 12
    MaxEntries,   \* max_entries of a node and of the buffer, 7 to 12
    MaxKey,       \* bound: keys are 1..MaxKey
    EntryKey,     \* entry_key, not above any key of the entry
    ChangeKeys,   \* bound: the keys that are updated, deleted or put again
    MaxChanges    \* bound: such calls

ASSUME BEntryAssumption ==
    /\ Kinds \subseteq {"BEntry", "NobufBEntry"}
    /\ Slots \in Nat /\ MaxEntries \in 3..Slots
    /\ MaxKey \in Nat \ {0} /\ EntryKey \in 0..1
    /\ ChangeKeys \subseteq 1..MaxKey /\ MaxChanges \in Nat

VARIABLES
    kind,      \* which class
    buf,       \* BEntry: the pairs in the buffer, in its order
    clevel,    \* the tree, see CLevel
    store,     \* what a map would hold: the value of each key, 0 if absent
    changes    \* calls on ChangeKeys

vars == <<kind, buf, clevel, store, changes>>

K == INSTANCE KVBuffer
C == INSTANCE CLevel

Keys == 1..MaxKey

-----------------------------------------------------------------------------
(* The operations *)

\* The constructors without a pair: BEntry leaves the tree for later.
Init ==
    /\ kind \in Kinds
    /\ buf = <<>>
    /\ clevel = IF kind = "BEntry" THEN C!NotSetup ELSE C!Setup
    /\ store = [k \in Keys |-> 0]
    /\ changes = 0

\* Mutant of NeedsFlush: the first buffer may fill up like the later ones.
NeedsFlushFull == K!Full(buf)

\* The buffer that becomes the first leaf keeps a slot free, because a leaf
\* splits when it gets full and not before.
NeedsFlush == \/ ~C!HasSetup(clevel) /\ Len(buf) = MaxEntries - 1
              \/ K!Full(buf)

\* FlushToCLevel.
Flushed ==
    IF C!HasSetup(clevel)
    THEN LET after[i \in 0..Len(buf)] ==
                 IF i = 0 THEN clevel ELSE C!Put(after[i - 1], buf[i].key, buf[i].value)
         IN  after[Len(buf)]
    ELSE C!SetupFrom(Len(buf), [s \in 0..Len(buf)-1 |-> buf[s + 1]], K!GetSortedIndex(buf))

\* Mutant of PutBuffered: the buffer is not cleared after the flush.
PutBufferedKeepsBuffer(k, v) ==
    /\ buf' = K!Put(buf, k, v)
    /\ clevel' = IF NeedsFlush THEN Flushed ELSE clevel

PutBuffered(k, v) ==
    /\ buf' = K!Put(IF NeedsFlush THEN <<>> ELSE buf, k, v)
    /\ clevel' = IF NeedsFlush THEN Flushed ELSE clevel

PutDirect(k, v) ==
    /\ clevel' = C!Put(clevel, k, v)
    /\ UNCHANGED buf

\* Put of a key that is absent.  The tree also takes one that is there; the
\* buffer would take a second copy, and its callers insert each key once.
Put(k) ==
    /\ store[k] = 0
    /\ IF kind = "BEntry" THEN PutBuffered(k, 1) ELSE PutDirect(k, 1)
    /\ store' = [store EXCEPT ![k] = 1]
    /\ UNCHANGED <<kind, changes>>

PutAgain(k) ==
    /\ kind = "NobufBEntry" /\ store[k] # 0 /\ changes < MaxChanges
    /\ PutDirect(k, 2)
    /\ store' = [store EXCEPT ![k] = 2]
    /\ changes' = changes + 1
    /\ UNCHANGED kind

\* What both classes do in the tree; the calls come in a tree that is not set
\* up only to BEntry.
UpdateTree(k) == clevel' = C!Update(clevel, k, 2)
DeleteTree(k) == clevel' = IF C!HasSetup(clevel) THEN C!Delete(clevel, k) ELSE clevel
GetTree(k) == IF C!HasSetup(clevel) THEN C!Get(clevel, k) ELSE 0

\* Update asserts that the key is somewhere.
Update(k) ==
    /\ store[k] # 0 /\ changes < MaxChanges
    /\ LET at == K!Find(buf, k)
       IN  IF at # 0
           THEN buf' = K!Update(buf, at, 2) /\ UNCHANGED clevel
           ELSE UpdateTree(k) /\ UNCHANGED buf
    /\ store' = [store EXCEPT ![k] = 2]
    /\ changes' = changes + 1
    /\ UNCHANGED kind

\* Delete of any key: of one in neither part it changes nothing.
Delete(k) ==
    /\ changes < MaxChanges
    /\ LET at == K!Find(buf, k)
       IN  IF at # 0
           THEN buf' = K!Delete(buf, at) /\ UNCHANGED clevel
           ELSE DeleteTree(k) /\ UNCHANGED buf
    /\ store' = [store EXCEPT ![k] = 0]
    /\ changes' = changes + 1
    /\ UNCHANGED kind

Next == \/ \E k \in Keys : Put(k)
        \/ \E k \in ChangeKeys : PutAgain(k) \/ Update(k) \/ Delete(k)

Spec == Init /\ [][Next]_vars

-----------------------------------------------------------------------------
(* Reads *)

Get(k) ==
    LET at == K!Find(buf, k) IN IF at # 0 THEN buf[at].value ELSE GetTree(k)

\* next() of BEntry::Iter: point_to_clevel_ says which of the two is behind.
Merge(c, b) ==
    LET merge[at \in (1..Len(c)+1) \X (1..Len(b)+1)] ==
            LET i == at[1]
                j == at[2]
            IN  IF i > Len(c) THEN SubSeq(b, j, Len(b))
                ELSE IF j > Len(b) \/ c[i].key < b[j].key THEN <<c[i]>> \o merge[<<i + 1, j>>]
                ELSE <<b[j]>> \o merge[<<i, j + 1>>]
    IN  merge[<<1, 1>>]

SortedBuf == LET sorted == K!GetSortedIndex(buf)
             IN  [i \in DOMAIN sorted |-> buf[sorted[i] + 1]]

FromTree(pairs) == IF C!HasSetup(clevel) THEN pairs ELSE <<>>

\* The loop of both constructors: pairs below the start key are passed over.
PassOver(pairs, k) ==
    LET from == {i \in DOMAIN pairs : pairs[i].key >= k}
    IN  IF from = {} THEN <<>> ELSE SubSeq(pairs, Min(from), Len(pairs))

\* BEntry::Iter from the start and from a key: the tree is entered at the key,
\* the buffer at its start.
BufIterAll == Merge(FromTree(C!Iter(clevel)), SortedBuf)
BufIterFrom(k) ==
    IF k <= EntryKey THEN BufIterAll
    ELSE PassOver(Merge(FromTree(C!IterFrom(clevel, EntryKey, k)), SortedBuf), k)

\* NobufBEntry::Iter.
NobufIterAll == FromTree(C!Iter(clevel))
NobufIterFrom(k) == PassOver(FromTree(C!IterFrom(clevel, EntryKey, k)), k)

IterAll == IF kind = "BEntry" THEN BufIterAll ELSE NobufIterAll
IterFrom(k) == IF kind = "BEntry" THEN BufIterFrom(k) ELSE NobufIterFrom(k)

\* NoSortIter: the buffer as it is, then the tree; from a key, too.
\* NobufBEntry::NoSortIter is its Iter.
NoSortIter == IF kind = "BEntry" THEN buf \o FromTree(C!NoSortIter(clevel))
              ELSE NobufIterAll
NoSortIterFrom(k) == IF kind = "BEntry" THEN buf \o FromTree(C!NoSortIterFrom(clevel, k))
                     ELSE NobufIterFrom(k)

-----------------------------------------------------------------------------
(* What the properties speak of *)

Nodes == DOMAIN clevel.nodes
IsLeaf(n) == clevel.nodes[n].type = "LEAF"
Buffer(n) == clevel.nodes[n].buf
Children(n) == [i \in 0..Buffer(n).entries |-> C!GetChild(clevel.nodes[n], i)]

\* The leaves below a node from left to right, and the levels of leaves below
\* it, the node's own being 0.
LeavesBelow(n) ==
    LET below[m \in Nodes] ==
            IF IsLeaf(m) THEN <<m>>
            ELSE FlattenSeq([i \in 1..Buffer(m).entries + 1 |-> below[Children(m)[i - 1]]])
    IN  below[n]
LevelsBelow(n) ==
    LET levels[m \in Nodes] ==
            IF IsLeaf(m) THEN {0}
            ELSE UNION {{l + 1 : l \in levels[Children(m)[i]]} : i \in 0..Buffer(m).entries}
    IN  levels[n]

KeysBelow(n) ==
    UNION {{C!B!Rec(Buffer(leaf), r).key : r \in 0..Buffer(leaf).entries-1} :
              leaf \in Range(LeavesBelow(n))}

\* The pairs of the map from key k on, and what it is to list them in order.
Stored(k) == {[key |-> x, value |-> store[x]] : x \in {y \in Keys : y >= k /\ store[y] # 0}}
InOrder(pairs, k) ==
    /\ Range(pairs) = Stored(k)
    /\ \A m, n \in DOMAIN pairs : m < n => pairs[m].key < pairs[n].key

-----------------------------------------------------------------------------
(* Properties *)

\* Type invariant; a node is linked to a node that exists.
TypeOK ==
    /\ kind \in Kinds
    /\ Len(buf) <= MaxEntries
    /\ clevel.root \in Nodes \union {0}
    /\ \A n \in Nodes :
         /\ clevel.nodes[n].type \in {"LEAF", "INDEX"}
         /\ clevel.nodes[n].link \in Nodes \union {0}
         /\ Buffer(n).entries \in 0..MaxEntries
    /\ store \in [Keys -> 0..2] /\ changes \in 0..MaxChanges

\* Get finds every pair with its last value and nothing that was deleted,
\* whether the pair is in the buffer, was flushed, or was moved by splits.
GetAgrees == \A k \in Keys : Get(k) = store[k]

\* Iter, from the start or from any key, yields the pairs of the map in key
\* order: the merge of buffer and tree neither loses nor repeats one, and
\* leaves that Delete has emptied are passed over.  NoSortIter promises no
\* order, and from a key it may begin early, but it too yields each pair once.
IterationInOrder ==
    /\ InOrder(IterAll, 0)
    /\ \A k \in 0..MaxKey :
         /\ InOrder(IterFrom(k), k)
         /\ \A pairs \in {NoSortIter, NoSortIterFrom(k)} :
              /\ Stored(k) \subseteq Range(pairs)
              /\ Range(pairs) \subseteq Stored(0) /\ IsInjective(pairs)

\* Between calls no node is full, so the asserts of SortBuffer::Put
\* (target_idx < max_entries) and PutChild hold in the next one: the slot that
\* is taken next is one that has its bytes in the buffer.
NodesHaveRoom ==
    \A n \in Nodes : /\ Buffer(n).entries < MaxEntries
                     /\ C!B!NextSlot(Buffer(n)) < MaxEntries

\* In every node the ranks name different slots and go up in key order, also
\* after the rotations of splits and deletes.
RanksInOrder ==
    \A n \in Nodes : LET b == Buffer(n) IN
        /\ \A r, s \in C!B!Ranks : b.index[r] = b.index[s] => r = s
        /\ \A r \in 1..b.entries-1 : C!B!Rec(b, r - 1).key < C!B!Rec(b, r).key

\* A tree of nodes: the keys below child i lie between the separators beside it,
\* and all leaves have the same depth.
ChildrenBetweenSeparators ==
    /\ \A n \in Nodes : ~IsLeaf(n) =>
         \A i \in 0..Buffer(n).entries : \A k \in KeysBelow(Children(n)[i]) :
           /\ i > 0 => C!B!Rec(Buffer(n), i - 1).key <= k
           /\ i < Buffer(n).entries => k < C!B!Rec(Buffer(n), i).key
    /\ Cardinality(LevelsBelow(clevel.root)) = 1

\* The next pointers lead through the leaves of the tree from left to right,
\* and there is no leaf that the tree does not reach.
ChainIsFrontier ==
    LET leaves == LeavesBelow(clevel.root)
    IN  /\ C!Chain(clevel.nodes, C!FindHead(clevel)) = leaves
        /\ Range(leaves) = {n \in Nodes : IsLeaf(n)}

\* The splits of Node::Put, up to the root, leave a B+ tree: searches from the
\* root and walks along the chain of leaves meet the same leaves, each with
\* exactly the keys that its separators admit; the nodes have room for the next
\* call and their ranks are in order.
TreeSound ==
    /\ NodesHaveRoom /\ RanksInOrder
    /\ C!HasSetup(clevel) => ChildrenBetweenSeparators /\ ChainIsFrontier
=============================================================================
