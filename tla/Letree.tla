------------------------------ MODULE Letree ------------------------------
(***************************************************************************)
(* The learned tree of letree.h: a model predicts the group of a key, a    *)
(* second model inside the group its entry, and a search corrects the      *)
(* prediction.  A full entry makes its group expand, every pointer then    *)
(* becoming an entry of its own; a group with too many entries makes the   *)
(* whole tree expand: the root model is trained again and the entries are  *)
(* dealt out to new groups.                                                *)
(*                                                                         *)
(* A bucket is the default one, SortBuncket, told by its labels: the keys  *)
(* of its pairs, and the deleted keys whose slots are still holes.  While  *)
(* the keys ascend from slot to slot, the labels tell the slots, a hole    *)
(* before the pair of its own key; LetreeBuckets checks this against the   *)
(* slots themselves.  A Put that meets a hole of a greater key stores its  *)
(* pair behind it (PutBufKV), and the keys may ascend no longer; min_key   *)
(* reads nothing from a hole in slot 0.  Both make the tree dirty, and a   *)
(* dirty tree is not followed further: what then happens inside a bucket   *)
(* is PointerBEntry's.  Values are left to that module too, so Update has  *)
(* no step here.                                                           *)
(*                                                                         *)
(* The regressions are doubles; what the tree relies on is that a trained  *)
(* line does not descend (LinearModelBuilder::build), so a model is any    *)
(* monotone function of the key.  Calls come one at a time, but a Put runs *)
(* in the steps of its retry loop so that its ending is a question.        *)
(***************************************************************************)
EXTENDS Integers, Sequences, FiniteSets, FiniteSetsExt

CONSTANTS
    MaxKey,          \* bound: keys are 1..MaxKey
    BulkLoads,       \* the sets of keys a tree may be bulk loaded with
    MaxEntries,      \* max_entries of a bucket
    EntryCount,      \* entry_count: pointers of an entry
    MaxEntryCount,   \* max_entry_count: 4096 entries in a group
    MinEntryCount,   \* min_entry_count: 64 predicted entries to a group
    LinearLimit,     \* 6: shorter ranges are searched linearly
    InitPrefix,      \* the largest key not above 8, the prefix_len of group::Init
    MaxDeletes,      \* bound: calls to Delete that find their key
    MayOverflow      \* whether a prediction may leave the range of int

ASSUME LetreeAssumption ==
    /\ MaxKey \in Nat /\ MaxDeletes \in Nat /\ InitPrefix \in 0..MaxKey
    /\ \A d \in BulkLoads : d \subseteq 1..MaxKey /\ Cardinality(d) >= MinEntryCount
    /\ {MaxEntries, EntryCount} \subseteq Nat \ {0, 1} /\ MinEntryCount \in Nat \ {0}
    /\ {MaxEntryCount, LinearLimit} \subseteq Nat
    /\ MayOverflow \in BOOLEAN

VARIABLES
    groups,   \* group_space: entries, next_entry_count and min_key of each
    route,    \* the root model: the group it predicts for each key, from 1
    put,      \* the key being put, 0 if none
    stage,    \* where the Put in progress is: trying, or about to expand
    at,       \* the group it is in, 0 until find_group has named one
    tries,    \* how often it has come by one of the two labels retry0
    store,    \* the keys a set would hold
    deletes,  \* calls to Delete that found their key
    dirty     \* a Put met a hole of a greater key, or an entry key was read from a hole

vars == <<groups, route, put, stage, at, tries, store, deletes, dirty>>

Keys == 1..MaxKey

-----------------------------------------------------------------------------
(* Searches *)

\* The members of a finite set in the order of a set of pairs.
Listed(S, before) ==
    [n \in 1..Cardinality(S) |->
       CHOOSE x \in S : Cardinality({y \in S : <<y, x>> \in before}) = n - 1]

\* The sorted sequence of a set of numbers.
Ordered(ks) == Listed(ks, {d \in ks \X ks : d[1] < d[2]})

\* The order of the numbered parts of numbered parts.
Lexical(S) == {d \in S \X S : \E n \in DOMAIN d[1] :
                 d[1][n] < d[2][n] /\ \A m \in 1..n-1 : d[1][m] = d[2][m]}

\* group::entry_space[i].entry_key, entries from 0 as in the source.
EntryKey(g, i) == g.bents[i + 1][1].key

\* Where the doubling loop stops, beyond being the distances at which the
\* entry is still on the same side of the key.
Bound(size, beyond) ==
    LET doubled[j \in 0..size] == IF j = 0 THEN 1 ELSE 2 * doubled[j - 1]
    IN  Min({b \in {doubled[j] : j \in 0..size} : b >= size \/ b \notin beyond})

\* binary_search_upper_bound and linear_search_upper_bound over [l, r).
LinearUpper(g, lo, hi, k) == Min({i \in lo..hi-1 : EntryKey(g, i) > k} \union {hi})
BinaryUpper(g, lo, hi, k) ==
    LET search[range \in (lo..hi) \X (lo..hi)] ==
            LET l   == range[1]
                r   == range[2]
                mid == l + (r - l) \div 2
            IN  IF l >= r THEN l
                ELSE IF EntryKey(g, mid) <= k THEN search[<<mid + 1, r>>] ELSE search[<<l, mid>>]
    IN  search[<<lo, hi>>]

\* Mutant of FindEntry: upwards, the range is left one short.
FindEntryShort(g, m, k) ==
    LET n    == Len(g.bents)
        down == Bound(m, {b \in 1..m : EntryKey(g, m - b) > k})
        up   == Bound(n - m, {b \in 1..n-m-1 : EntryKey(g, m + b) <= k})
        l    == IF EntryKey(g, m) > k THEN m - Min({down, m}) ELSE m + up \div 2
        r    == IF EntryKey(g, m) > k THEN m - down \div 2 ELSE m + Min({up, n - m}) - 1
    IN  Max({LinearUpper(g, l, r, k) - 1, 0})

\* find_entry, the prediction being m: exponential_search_upper_bound.
FindEntry(g, m, k) ==
    LET n    == Len(g.bents)
        down == Bound(m, {b \in 1..m : EntryKey(g, m - b) > k})
        up   == Bound(n - m, {b \in 1..n-m-1 : EntryKey(g, m + b) <= k})
        l    == IF EntryKey(g, m) > k THEN m - Min({down, m}) ELSE m + up \div 2
        r    == IF EntryKey(g, m) > k THEN m - down \div 2 ELSE m + Min({up, n - m})
        hit  == IF r - l < LinearLimit THEN LinearUpper(g, l, r, k) ELSE BinaryUpper(g, l, r, k)
    IN  Max({hit - 1, 0})

Predictions(g) == 0..Len(g.bents)-1

\* PointerBEntry::Find_pos
FindPos(bent, k) ==
    LET above == {i \in 1..Len(bent) : bent[i].key > k}
    IN  Max({1, Min(above \union {Len(bent) + 1}) - 1})

Bare(gs, i) == gs[i].bents = <<>>

\* Mutant of FindGroup: groups that begin above the key are not passed over.
FindGroupNonBare(gs, r, k) ==
    Min({i \in Max({j \in 2..r[k] : ~Bare(gs, j)} \union {1})..Len(gs) : ~Bare(gs, i)})

\* find_group: down past bare groups and groups that begin above the key, then
\* up past bare ones.
FindGroup(gs, r, k) ==
    LET fits == {i \in 2..r[k] : ~Bare(gs, i) /\ EntryKey(gs[i], 0) <= k}
        down == Max(fits \union {1})
    IN  Min({i \in down..Len(gs) : ~Bare(gs, i)})

-----------------------------------------------------------------------------
(* The root model *)

\* Mutant of Routes: a line that descends.
RoutesAny(n, trained) == [Keys -> 1..n]

\* What training may yield for n groups: a monotone function.  The product of
\* slope and key is cast to int: beyond its range the result is undefined, on
\* x86-64 INT_MIN, which the clamp turns into the first group.  Keys up to the
\* last trained one stay in range.
Routes(n, trained) ==
    LET cuts == IF MayOverflow THEN {c \in Keys : \A t \in trained : c > t} ELSE {}
    IN  {[k \in Keys |-> IF k >= c THEN 1 ELSE 1 + Cardinality({s \in 1..n-1 : k >= f[s]})] :
           c \in cuts \union {MaxKey + 1}, f \in [1..n-1 -> 1..MaxKey+1]}

\* ceil(a / b)
Ceil(a, b) == (a + b - 1) \div b

\* Init without data: one group of one entry with key 0 and no pair; min_key is
\* not set, so it is any value, of which the extremes stand for all.
EmptyTree ==
    /\ store = {}
    /\ route = [k \in Keys |-> 1]
    /\ \E any \in {0, MaxKey} :
         groups = <<[bents |-> <<<<[key |-> 0, keys |-> {}, holes |-> {}, prefix |-> InitPrefix]>>>>,
                     next_entry_count |-> 1, min_key |-> any]>>

\* group::bulk_load: count of the pairs ks, from start on, become entries; the
\* least key of all, not of these, becomes min_key.
GroupLoaded(ks, start, count) ==
    [bents |-> [j \in 1..count |-> <<[key |-> ks[start + j], keys |-> {ks[start + j]},
                                      holes |-> {}, prefix |-> 0]>>],
     next_entry_count |-> count, min_key |-> ks[1]]

\* bulk_load: each group takes as many of the next pairs as the model predicts
\* into it; one that has none stays as memset left it.
BulkLoaded ==
    \E d \in BulkLoads :
      LET n  == Cardinality(d) \div MinEntryCount
      IN  /\ store = d
          /\ route \in Routes(n, d)
          /\ groups = [i \in 1..n |->
               LET mine  == Cardinality({k \in d : route[k] = i})
                   start == Cardinality({k \in d : route[k] < i})
               IN  IF mine = 0 THEN [bents |-> <<>>, next_entry_count |-> 0, min_key |-> 0]
                   ELSE GroupLoaded(Ordered(d), start, mine)]

Init ==
    /\ EmptyTree \/ BulkLoaded
    /\ put = 0 /\ stage = "idle" /\ at = 0 /\ tries = 0
    /\ deletes = 0 /\ dirty = FALSE

-----------------------------------------------------------------------------
(* Put *)

Call(k) ==
    /\ stage = "idle" /\ ~dirty
    /\ k \notin store
    /\ put' = k /\ stage' = "try" /\ at' = 0 /\ tries' = 0
    /\ UNCHANGED <<groups, route, store, deletes, dirty>>

\* The split of a full bucket (Expand_): the slots from last_pos/2 on go to a
\* new bucket.  A full bucket has no slot for a hole, so slot i holds the key of
\* rank i.  The prefix stays with the lower half.
Halves(b) ==
    LET split_key == Ordered(b.keys)[Cardinality(b.keys) \div 2 + 1]
    IN  <<[key |-> b.key, keys |-> {x \in b.keys : x < split_key},
           holes |-> b.holes, prefix |-> b.prefix],
          [key |-> split_key, keys |-> {x \in b.keys : x >= split_key},
           holes |-> {}, prefix |-> 0]>>

SplitAt(bent, pos) ==
    [i \in 1..Len(bent)+1 |-> IF i < pos THEN bent[i]
                             ELSE IF i > pos + 1 THEN bent[i - 1]
                             ELSE Halves(bent[pos])[i - pos + 1]]

\* Mutant of Kept: no hole is closed.
KeptAll(b) == b.holes

\* The holes a Put leaves: when the slots are used up, or all but one, the last
\* hole is closed first.
Kept(b) ==
    IF b.holes # {} /\ Cardinality(b.keys) + Cardinality(b.holes) >= MaxEntries - 1
    THEN b.holes \ {Max(b.holes)} ELSE b.holes

\* Whether PutBufKV may store k out of order.  Its shift goes down to a key not
\* above k or to a hole, whatever the keys below that hole; without a pair it
\* takes slot 0 and counts it beside the holes.
Misled(b, k) == \/ \E h \in Kept(b) : h > k
                \/ b.keys = {} /\ b.holes # {}

\* The bucket after PutBufKV, unless misled.
Stored(b, k) ==
    [key |-> b.key, keys |-> b.keys \union {k}, holes |-> Kept(b), prefix |-> b.prefix]

\* The pair goes to its bucket, and the entry's key down with it if need be.
Insert(bent, k) ==
    [i \in DOMAIN bent |->
       LET b == IF i = FindPos(bent, k) THEN Stored(bent[i], k) ELSE bent[i]
       IN  [key  |-> IF i = 1 THEN Min({k, b.key}) ELSE b.key,
            keys |-> b.keys, holes |-> b.holes, prefix |-> b.prefix]]

FullBucket(bent, k) == Cardinality(bent[FindPos(bent, k)].keys) >= MaxEntries

Done == put' = 0 /\ stage' = "idle" /\ at' = 0 /\ store' = store \union {put}

\* group::Put when the bucket takes the pair.
PutFits(g, e) ==
    LET bent == groups[g].bents[e + 1]
    IN  /\ ~FullBucket(bent, put)
        /\ groups' = [groups EXCEPT ![g].bents[e + 1] = Insert(bent, put)]
        /\ dirty' = Misled(bent[FindPos(bent, put)], put)
        /\ Done

\* When PointerBEntry::Put splits the bucket and retries: the halves have pairs
\* and no holes, so the pair goes to its place.
PutSplits(g, e) ==
    LET bent == groups[g].bents[e + 1]
    IN  /\ FullBucket(bent, put) /\ Len(bent) < EntryCount
        /\ groups' = [groups EXCEPT
             ![g].bents[e + 1] = Insert(SplitAt(bent, FindPos(bent, put)), put),
             ![g].next_entry_count = @ + 1]
        /\ Done
        /\ UNCHANGED dirty

\* When it reports Full: the group expands, or Full is passed on to the tree.
PutFull(g, e) ==
    LET bent == groups[g].bents[e + 1]
    IN  /\ FullBucket(bent, put) /\ Len(bent) = EntryCount
        /\ stage' = IF groups[g].next_entry_count > MaxEntryCount THEN "root" ELSE "group"
        /\ at' = g
        /\ UNCHANGED <<groups, put, store, dirty>>

\* letree::Put names the group, group::Put the entry; once its group has
\* expanded, it looks for the entry again in the same group.
TryPut ==
    /\ stage = "try" /\ ~dirty
    /\ LET g == IF at = 0 THEN FindGroup(groups, route, put) ELSE at
       IN  \E m \in Predictions(groups[g]) :
             LET e == FindEntry(groups[g], m, put)
             IN  PutFits(g, e) \/ PutSplits(g, e) \/ PutFull(g, e)
    /\ tries' = tries + 1
    /\ UNCHANGED <<route, deletes>>

-----------------------------------------------------------------------------
(* Expansions *)

\* Slot 0 holds a pair: its key is below every hole.
Headed(b) == \E k \in b.keys : \A h \in b.holes : k < h

\* AdjustEntryKey: the first entry's key becomes min_key of its bucket, the key
\* in slot 0; without a pair in slot 0 min_key ends without a value.
Unreadable(g) == ~Bare(<<g>>, 1) /\ ~Headed(g.bents[1][1])
Adjusted(g) ==
    IF Bare(<<g>>, 1) \/ Unreadable(g) THEN g
    ELSE [g EXCEPT !.bents[1][1].key = Min(g.bents[1][1].keys)]

\* EntryIter over the groups: all pointers, in order of group, entry and place
\* in the entry.
Places(gs) ==
    UNION {UNION {{<<i, j, p>> : p \in DOMAIN gs[i].bents[j]} : j \in DOMAIN gs[i].bents} :
             i \in DOMAIN gs}
PointerAt(gs, place) == gs[place[1]].bents[place[2]][place[3]]
Pointers(gs) ==
    LET visit == Listed(Places(gs), Lexical(Places(gs)))
    IN  [n \in DOMAIN visit |-> PointerAt(gs, visit[n])]

Singles(ps) == [i \in DOMAIN ps |-> <<ps[i]>>]

\* group::expand: every pointer becomes an entry.
ExpandGroup ==
    /\ stage = "group"
    /\ LET ps == Pointers(<<Adjusted(groups[at])>>)
       IN  groups' = [groups EXCEPT ![at].bents = Singles(ps),
                                    ![at].next_entry_count = Len(ps)]
    /\ dirty' = Unreadable(groups[at])
    /\ stage' = "try"
    /\ UNCHANGED <<route, put, at, tries, store, deletes>>

\* Mutant of ExpandTree: the model alone is trained again.
ExpandTreeKeepsGroups ==
    /\ stage = "root"
    /\ stage' = "try" /\ at' = 0
    /\ UNCHANGED <<groups, route, put, tries, store, deletes, dirty>>

\* The members of a sequence at some of its places, in their order.
Picked(ps, places) == [n \in 1..Cardinality(places) |-> ps[Ordered(places)[n]]]

\* letree::ExpandTree: every pointer becomes an entry of the group that the new
\* model predicts for its key; a group appends its entries in the old order.
ExpandTree ==
    /\ stage = "root"
    /\ LET adjusted == [i \in DOMAIN groups |-> Adjusted(groups[i])]
           ps == Pointers(adjusted)
           entry_count[i \in 0..Len(groups)] ==
             IF i = 0 THEN 0 ELSE entry_count[i - 1] + groups[i].next_entry_count
           n  == Ceil(entry_count[Len(groups)], MinEntryCount)
       IN  \E r \in Routes(n, {ps[i].key : i \in DOMAIN ps}) :
             /\ route' = r
             /\ groups' = [i \in 1..n |->
                  LET mine == Picked(ps, {j \in DOMAIN ps : r[ps[j].key] = i})
                  IN  [bents |-> Singles(mine), next_entry_count |-> Len(mine),
                       min_key |-> IF mine = <<>> THEN 0 ELSE mine[1].key]]
    /\ dirty' = \E i \in DOMAIN groups : Unreadable(groups[i])
    /\ stage' = "try" /\ at' = 0
    /\ UNCHANGED <<put, tries, store, deletes>>

-----------------------------------------------------------------------------
(* The other calls *)

\* remove_key leaves a hole in the slot of the pair.
Vacated(b, k) ==
    [key |-> b.key, keys |-> b.keys \ {k}, holes |-> b.holes \union {k}, prefix |-> b.prefix]

\* remove_key looks for the key up to the first hole only; a call that does not
\* find it changes nothing.
Delete(k) ==
    /\ stage = "idle" /\ ~dirty /\ deletes < MaxDeletes
    /\ LET g == FindGroup(groups, route, k)
       IN  \E m \in Predictions(groups[g]) :
             LET e   == FindEntry(groups[g], m, k) + 1
                 pos == FindPos(groups[g].bents[e], k)
             IN  /\ k \in groups[g].bents[e][pos].keys
                 /\ \A h \in groups[g].bents[e][pos].holes : k < h
                 /\ groups' = [groups EXCEPT ![g].bents[e][pos] = Vacated(@, k)]
    /\ store' = store \ {k}
    /\ deletes' = deletes + 1
    /\ UNCHANGED <<route, put, stage, at, tries, dirty>>

\* group::Get with prediction m: LinearFind passes over holes, whose key 0 is
\* below every key, and the keys ascend.
GroupGet(g, m, k) ==
    LET bent == groups[g].bents[FindEntry(groups[g], m, k) + 1]
    IN  k \in bent[FindPos(bent, k)].keys

\* find_fast: a look into the predicted group as it is.
FastHit(k) ==
    LET g == route[k]
    IN  /\ ~Bare(groups, g) /\ k >= groups[g].min_key
        /\ \E m \in Predictions(groups[g]) : GroupGet(g, m, k)

KeysOf(ps) ==
    LET pairs == UNION {{<<i, k>> : k \in ps[i].keys} : i \in DOMAIN ps}
        visit == Listed(pairs, Lexical(pairs))
    IN  [n \in DOMAIN visit |-> visit[n][2]]

\* The bucket an iterator from a key starts in.
StartBucket(g, k) ==
    LET bent == g.bents[FindEntry(g, 0, k) + 1] IN bent[FindPos(bent, k)]

\* group::Iter from a key, in the entry that find_entry leads to: what that
\* entry's iterator has left, which goes on from pointer to pointer, and then
\* the entries behind.  A key within the prefix starts at slot 0, another where
\* Find leads: the sequence is the code's while the first bucket has no hole
\* and slot 0 of the others holds a pair.
GroupIterFrom(g, k) ==
    LET e     == FindEntry(g, 0, k) + 1
        bent  == g.bents[e]
        pos   == FindPos(bent, k)
        start == bent[pos]
    IN  Ordered({x \in start.keys : k <= start.prefix \/ x >= k})
          \o KeysOf(SubSeq(bent, pos + 1, Len(bent)))
          \o KeysOf(Pointers(<<[g EXCEPT !.bents = SubSeq(@, e + 1, Len(@))]>>))

\* letree::Iter from a key.  A group that has no key left is not left at once:
\* the caller is given no valid pair (0 here) before the first of the next
\* group.
IterFrom(k) ==
    LET g    == FindGroup(groups, route, k)
        rest == GroupIterFrom(groups[g], k)
    IN  (IF rest = <<>> THEN <<0>> ELSE rest)
          \o KeysOf(Pointers(SubSeq(groups, g + 1, Len(groups))))

Next == \/ \E k \in Keys : Call(k) \/ Delete(k)
        \/ TryPut \/ ExpandGroup \/ ExpandTree

Spec == Init /\ [][Next]_vars

-----------------------------------------------------------------------------
(* Properties *)

\* Type invariant.
TypeOK ==
    /\ put \in 0..MaxKey /\ stage \in {"idle", "try", "group", "root"}
    /\ at \in 0..Len(groups)
    /\ route \in [Keys -> 1..Len(groups)]
    /\ \A i \in DOMAIN groups :
         /\ groups[i].min_key \in 0..MaxKey
         /\ \A j \in DOMAIN groups[i].bents : Len(groups[i].bents[j]) \in 1..EntryCount
    /\ \A place \in Places(groups) :
         LET pointer == PointerAt(groups, place)
         IN  /\ pointer.key \in 0..MaxKey /\ pointer.prefix \in {0, InitPrefix}
             /\ pointer.keys \subseteq Keys /\ pointer.holes \subseteq Keys
             /\ Cardinality(pointer.keys) + Cardinality(pointer.holes) <= MaxEntries
    /\ store \subseteq Keys /\ deletes \in 0..MaxDeletes /\ dirty \in BOOLEAN
    /\ tries \in 0..2

\* Every key is found and no other, before, between and after expansions, with
\* holes in the buckets, and whatever the models predict: Get tries find_fast
\* and then find_slow.  Excepted is a tree where a Put met a hole of a greater
\* key or an expansion read a hole in slot 0.
GetFinds ==
    ~dirty => \A k \in Keys :
      LET slow == FindGroup(groups, route, k)
      IN  /\ FastHit(k) => k \in store
          /\ \A m \in Predictions(groups[slow]) : GroupGet(slow, m, k) <=> k \in store

\* The correction makes the prediction irrelevant: the search ends at the same
\* entry from every start, also while the group is about to expand, and also
\* with holes in the buckets until one misleads a Put or hides an entry's key.
PredictionIrrelevant ==
    ~dirty => \A i \in DOMAIN groups : \A k \in Keys : \A m \in Predictions(groups[i]) :
       FindEntry(groups[i], m, k)
         = Max({LinearUpper(groups[i], 0, Len(groups[i].bents), k) - 1, 0})

\* An iterator started at a key yields the keys from there on, in order, and
\* first the rest of the first bucket if the key is within its prefix: when the
\* first bucket has no hole, every bucket has a pair in slot 0, and the key's
\* own group has a key to begin with.
IterFromInOrder ==
    (~dirty /\ \A place \in Places(groups) : Headed(PointerAt(groups, place))) =>
      \A k \in Keys :
        LET start == StartBucket(groups[FindGroup(groups, route, k)], k)
            first == IF k <= start.prefix THEN Min(start.keys) ELSE k
        IN  (start.holes = {} /\ IterFrom(k)[1] # 0) =>
              IterFrom(k) = Ordered({x \in store : x >= first})

\* Across all groups the pointers' keys ascend and bound the keys of their
\* buckets, as the asserts that ExpandTree has commented out say, until a hole
\* misleads a Put or hides an entry's key.
EntriesOrdered ==
    ~dirty => LET ps == Pointers(groups)
              IN  \A i \in 1..Len(ps) - 1 : /\ ps[i].key < ps[i + 1].key
                                            /\ \A k \in ps[i].keys : k < ps[i + 1].key
                                            /\ \A k \in ps[i + 1].keys : k >= ps[i + 1].key

\* next_entry_count, by which an expansion reserves its space, is the number of
\* pointers it will find.
NextCountExact ==
    \A i \in DOMAIN groups : groups[i].next_entry_count = Len(Pointers(<<groups[i]>>))

\* The two together: what the groups say of their entries is true, through
\* splits, group expansions and tree expansions.
GroupsMatchEntries == EntriesOrdered /\ NextCountExact
=============================================================================
