----------------------------- MODULE CLevel -----------------------------
(***************************************************************************)
(* The C level of an entry (clevel.h, clevel.cc): a B+ tree of nodes with  *)
(* a sorted buffer each, whose leaves are chained.  Here as operators on a *)
(* tree t == [nodes, root]: nodes in order of allocation, a node named by  *)
(* its place there, 0 for nullptr and for a tree that is not set up.       *)
(*                                                                         *)
(* A node splits as soon as it is full, so that its parent always finds    *)
(* room; NewNode gives both types the max_entries of a leaf.               *)
(***************************************************************************)
EXTENDS Integers, Sequences, SequencesExt, FiniteSetsExt

CONSTANTS Slots, MaxEntries

B == INSTANCE SortBuffer

\* link is the union of next (LEAF) and first_child (INDEX).
Node(type, link, buf) == [type |-> type, link |-> link, buf |-> buf]

NotSetup == [nodes |-> <<>>, root |-> 0]
HasSetup(t) == t.root # 0
Setup == [nodes |-> <<Node("LEAF", 0, B!Blank)>>, root |-> 1]

\* Setup from the buffer of the entry.
SetupFrom(n, slots, sorted) ==
    [nodes |-> <<Node("LEAF", 0, B!FromKVBuffer(n, slots, sorted))>>, root |-> 1]

\* GetChild: child 0 is first_child, child i the value of rank i - 1.
GetChild(node, i) == IF i = 0 THEN node.link ELSE B!Rec(node.buf, i - 1).value
ChildFor(node, key) == GetChild(node, B!FindLE(node.buf, key) + 1)

\* FindLeaf and FindHead.
FindLeaf(t, key) ==
    LET down[n \in DOMAIN t.nodes] ==
            IF t.nodes[n].type = "LEAF" THEN n ELSE down[ChildFor(t.nodes[n], key)]
    IN  down[t.root]
FindHead(t) ==
    LET down[n \in DOMAIN t.nodes] ==
            IF t.nodes[n].type = "LEAF" THEN n ELSE down[GetChild(t.nodes[n], 0)]
    IN  down[t.root]

PutChild(buf, key, child) == B!Put(buf, B!Find(buf, key).pos, key, child)

\* The end of every split: the new node goes into the parent under key, or
\* into a new root above both; kept is what stays in node n.
Attach(nodes, n, kept, new, key, parent) ==
    LET id   == Len(nodes) + 1
        both == Append([nodes EXCEPT ![n] = kept], new)
    IN  IF parent = 0
        THEN [nodes |-> Append(both, Node("INDEX", n, PutChild(B!Blank, key, id))),
              ret   |-> id + 1]
        ELSE [nodes |-> [both EXCEPT ![parent].buf = PutChild(@, key, id)],
              ret   |-> id]

\* Mutant of SplitLeaf: the new leaf does not take over the next pointer.
SplitLeafDropsNext(nodes, n, parent) ==
    LET buf == nodes[n].buf
        new == B!CopyData(buf, buf.entries \div 2)
    IN  Attach(nodes, n,
               Node("LEAF", Len(nodes) + 1, B!DeleteData(buf, buf.entries \div 2)),
               Node("LEAF", 0, new), B!Rec(new, 0).key, parent)

\* A full leaf gives its upper half to a new leaf behind it in the chain.
SplitLeaf(nodes, n, parent) ==
    LET buf == nodes[n].buf
        new == B!CopyData(buf, buf.entries \div 2)
    IN  Attach(nodes, n,
               Node("LEAF", Len(nodes) + 1, B!DeleteData(buf, buf.entries \div 2)),
               Node("LEAF", nodes[n].link, new), B!Rec(new, 0).key, parent)

\* A full index node gives up the entries above the middle one, whose child
\* becomes the first of the new node and whose key goes up.
SplitIndex(nodes, n, parent) ==
    LET buf    == nodes[n].buf
        half   == (buf.entries + 1) \div 2
        middle == B!Rec(buf, half - 1)
    IN  Attach(nodes, n,
               Node("INDEX", nodes[n].link, B!DeleteData(buf, half - 1)),
               Node("INDEX", middle.value, B!CopyData(buf, half)), middle.key, parent)

IsFull(buf) == buf.entries = MaxEntries

\* Node::Put of a leaf and of an index node, whose child has answered with r.
\* Each returns the node itself unless it split: then the new node, or the new
\* root.
PutLeaf(nodes, n, key, value, parent) ==
    LET buf   == nodes[n].buf
        f     == B!Find(buf, key)
        after == IF f.exist THEN B!Update(buf, f.pos, value) ELSE B!Put(buf, f.pos, key, value)
        put   == [nodes EXCEPT ![n].buf = after]
    IN  IF ~f.exist /\ IsFull(after) THEN SplitLeaf(put, n, parent)
        ELSE [nodes |-> put, ret |-> n]

PutIndex(r, n, child, parent) ==
    IF r.ret # child /\ IsFull(r.nodes[n].buf) THEN SplitIndex(r.nodes, n, parent)
    ELSE [nodes |-> r.nodes, ret |-> n]

\* Node::Put, from the root down; at is a node and its parent.
NodePut(nodes, root, key, value) ==
    LET put[at \in (1..Len(nodes)) \X (0..Len(nodes))] ==
            LET n     == at[1]
                child == ChildFor(nodes[n], key)
            IN  IF nodes[n].type = "LEAF" THEN PutLeaf(nodes, n, key, value, at[2])
                ELSE PutIndex(put[<<child, n>>], n, child, at[2])
    IN  put[<<root, 0>>]

\* CLevel::Put, which stores a root that has changed.
Put(t, key, value) ==
    LET r == NodePut(t.nodes, t.root, key, value)
    IN  [nodes |-> r.nodes, root |-> r.ret]

\* Get: 0 when the key is absent.
Get(t, key) ==
    LET buf == t.nodes[FindLeaf(t, key)].buf
        f   == B!Find(buf, key)
    IN  IF f.exist THEN B!Rec(buf, f.pos).value ELSE 0

\* Update of a key that is there (it asserts so), and Delete, which does
\* nothing when it is not; nodes are never merged or freed.
Update(t, key, value) ==
    [t EXCEPT !.nodes[FindLeaf(t, key)].buf = B!Update(@, B!Find(@, key).pos, value)]
Delete(t, key) ==
    [t EXCEPT !.nodes[FindLeaf(t, key)].buf =
        LET f == B!Find(@, key) IN IF f.exist THEN B!Delete(@, f.pos) ELSE @]

\* The leaves that GetNext leads through, from leaf n on.
Chain(nodes, n) ==
    LET from[m \in {0} \union {i \in DOMAIN nodes : nodes[i].type = "LEAF"}] ==
            IF m = 0 THEN <<>> ELSE <<m>> \o from[nodes[m].link]
    IN  from[n]

\* The pairs of the leaves in order: the iterators pass over empty leaves.
PairsOf(nodes, leaves) ==
    FlattenSeq([i \in DOMAIN leaves |-> B!Pairs(nodes[leaves[i]].buf)])

\* Mutant of Iter: an empty leaf ends the iteration.
IterStopsAtEmpty(t) ==
    LET leaves == Chain(t.nodes, FindHead(t))
        empty  == {i \in DOMAIN leaves : t.nodes[leaves[i]].buf.entries = 0}
        stop   == IF empty = {} THEN Len(leaves) ELSE CHOOSE i \in empty : \A j \in empty : i <= j
    IN  PairsOf(t.nodes, SubSeq(leaves, 1, stop))

\* Iter from the head, and from a start key: the first leaf that is not empty
\* is searched, and the iteration begins in it or right behind it.  A key not
\* above prefix_key, which is the entry's, begins where that one's leaf does.
Iter(t) == PairsOf(t.nodes, Chain(t.nodes, FindHead(t)))

IterFrom(t, prefix_key, key) ==
    LET leaves == Chain(t.nodes, FindLeaf(t, IF key <= prefix_key THEN prefix_key ELSE key))
        begins == {i \in DOMAIN leaves : t.nodes[leaves[i]].buf.entries > 0}
        i      == Min(begins)
        buf    == t.nodes[leaves[i]].buf
        le     == B!FindLE(buf, key)
        first  == IF key <= prefix_key THEN 0
                  ELSE IF le >= 0 /\ B!Rec(buf, le).key = key THEN le ELSE le + 1
    IN  IF begins = {} THEN <<>>
        ELSE SubSeq(B!Pairs(buf), first + 1, buf.entries)
                \o PairsOf(t.nodes, SubSeq(leaves, i + 1, Len(leaves)))

\* NoSortIter has the same steps, but from a key it takes in the whole of the
\* first leaf.
NoSortIter(t) == PairsOf(t.nodes, Chain(t.nodes, FindHead(t)))
NoSortIterFrom(t, key) == PairsOf(t.nodes, Chain(t.nodes, FindLeaf(t, key)))
=============================================================================
