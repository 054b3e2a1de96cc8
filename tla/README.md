# ComboTree in TLA+

This directory holds TLA+ models of the ComboTree in `src/src` (a three-level
key-value index for persistent memory: a learned index on top, the *B level*,
an array of entries, below it, and one small B+ tree, the *C level*, per entry),
the TLC runs that check them, and proofs that TLAPS checks.

The build that is modelled is the one `CMakeLists.txt` makes: `BRANGE`,
`NO_ENTRY_BUF` (an entry is a `NobufBEntry`) and `USE_LIBPMEM` are on; `NO_LOCK`,
`BUF_SORT`, `STREAMING_*` and `POINTER_BENTRY` are off; `EXPAND_THREADS` is 4,
`BLEVEL_EXPAND_BUF_KEY` 4, `EXPANSION_FACTOR` 2, `PMEMKV_THRESHOLD` 10000.

## The system

| part | state | operations | talks to |
|---|---|---|---|
| `ComboTree` (combotree.cc) | `status_`, `learn_index_`, `blevel_`, `old_blevel_`, `pmemkv_`, `permit_delete_`, `need_sleep_`, `sleeped_threads_` | `Put`, `Update`, `Get`, `Delete`, `Scan`, iterators; `ChangeToComboTree_` on a client's thread; `ExpandComboTree_` on a detached one | everything below |
| `PmemKV` (pmemkv.h) | a `std::map`, `write_ref_`, `read_ref_`, `write_valid_`, `read_valid_` | `Put`, `Update`, `Get`, `Delete`, `Scan`, `Size` | polled by `ChangeToComboTree_` |
| B level (blevel.h, blevel.cc) | `entries_` with a lock each, `ranges_`, `size_`, interval sizes; static `expanded_max_key_`, `expanded_entries_`, `expand_data_` | `Put` … `Delete` by position, range or hint; `Expansion`, `PrepareExpansion`, `IsKeyExpanded`, `PutRange` | its old self during an expansion; the C level |
| entry (bentry.h, kvbuffer.h) | `BEntry`: an unsorted buffer before a C level; `NobufBEntry`: the C level alone | `Put`, `Update`, `Get`, `Delete`, `FlushToCLevel`, `Iter`, `NoSortIter` | its C level |
| C level (clevel.h, clevel.cc, sortbuffer.h) | a B+ tree of 128-byte nodes; a node is a `SortBuffer`, whose header ranks its slots | `Setup`, `Put`, `Update`, `Get`, `Delete`, iterators | `MemControl`, a bump allocator |
| index over the B level (learn_index, alevel, pgm_index, rmi_index) | regression models, built once per level | predict a position | read by every operation |
| pointer entry (pointer_bentry.h) | up to 12 pointers to 256-byte buckets, each with its least key; one of three bucket classes | `Put` with the split of a full bucket, `Update`, `Get`, `Delete`, iterators, `Scan` | the allocator |
| letree (letree.h) | a root model over groups, a model per group over pointer entries, `next_entry_count`, `min_key` | bulk load, `Put` with `expand` and `ExpandTree`, `Get`, `Delete`, iterators, `Scan` | pointer entries; not used by `ComboTree` |
| learned groups (learn_group.h) | an earlier relative of letree | the same | pointer entries |
| manifest, slab, pmem | paths and pools | file mapping | - |

A tree goes through five states:

    USING_PMEMKV -> PMEMKV_TO_COMBO_TREE -> USING_COMBO_TREE
        -> PREPARE_EXPANDING -> COMBO_TREE_EXPANDING -> USING_COMBO_TREE -> ...

Every operation loops over `status_` and goes where the state sends it, with no
lock that would keep the state from changing on the way. What is hard in this
code is all there:

* a `Put` during an expansion must choose between two levels while four threads
  move the keys, with two atomics per range to tell it where the move is;
* the level, the index above it and `PmemKV` are replaced and deleted under
  clients that may be about to use them;
* writers sleep on a condition variable for the expansion to begin;
* detached threads race to start an expansion, some of them long after the `Put`
  that started them;
* the migration waits for reference counts that clients raise and lower.

The entry, the C level, the pointer entry and letree run one call at a time: the B
level's locks see to that for the first two, and the last two are single-threaded.
There the difficulty is in long sequences of legal calls: splits that climb to the
root, slots recycled by rotations of 4-bit ranks, leaves and buckets that `Delete` has
emptied, and expansions of a group or of the tree in the middle of a `Put`.

There is no recovery: the constructor starts an empty tree and `Manifest` refuses
to open an existing one (`manifest.h`), so crashes and restarts are not modelled.

What makes each part correct:

* **expansion of the B level** – no value is lost, overwritten by an older one or
  put where no search finds it, whatever the writers do meanwhile; it ends;
* **ComboTree** – one expansion at a time; who works without a lock in
  `USING_COMBO_TREE` starts from a complete level; a `Put` that returns OK is in
  the tree; sleepers wake up;
* **PmemKV** – one migration; nobody writes to the map while it is scanned; the
  migration changes no key; it ends;
* **range partition** – every old entry goes to exactly one range, and
  `EXPAND_THREADS` ranges come out;
* **search** – from any hint, the search ends at the entry whose key bounds hold
  the key;
* **entry and C level** – an entry is a sorted map, with every leaf reachable from
  the root and in the chain, and no node full between calls;
* **pointer entry** – pointers, chain and counts say what is in the buckets; an
  entry is a map;
* **letree** – a key is found whatever the models predict, before, between and after
  expansions; a `Put` does not expand for ever.

## Modules

| module | models | how |
|---|---|---|
| `KVStore` | what a map promises its writers: each Put changes its key in one step between call and return | abstract specification, refined by `BLevelExpansion` |
| `BLevelExpansion` | `BLevel::Expansion` against the writers of state `COMBO_TREE_EXPANDING` | one process per range and per writer |
| `BLevelExpansion_proofs` | theorems about it | TLAPS |
| `ComboTree` | `status_`, `ExpandComboTree_`, the sleep protocol, `Put`, `Update`, `Get`, `Delete` over several expansions | one process per client and per detached thread |
| `ComboTree_proofs` | theorems about it | TLAPS |
| `PmemKVMigration` | `PmemKV` and `ChangeToComboTree_` | one process per client |
| `PmemKVMigration_proofs` | theorems about it | TLAPS |
| `BLevelSearch` | physical and logical positions, `FindNearPos_`, `Find_`, `BinarySearch_` | operators on a level |
| `BLevelSearch_proofs` | theorems about searches, brackets and iterators in one level | TLAPS |
| `BLevelIterators` | `BLevel::Iter` | operators on a level |
| `BLevelIndex` | what `Learn_Index`, `ALevel` and `RMI_Index` answer a search with | operators on a level |
| `BLevelGenerations` | bulk load, Puts and Deletes through the index, `PrepareExpansion` and the next level, several times over | state machine, one operation a step |
| `BLevelGenerations_proofs` | theorems about it | TLAPS |
| `SortBuffer`, `KVBuffer` | the two buffers: slots and ranks, unsorted pairs | operators on their values |
| `CLevel` | the B+ tree of one entry | operators on a tree |
| `BEntry` | one entry of either class over its tree | state machine, one call a step |
| `BEntry_proofs` | theorems about the sorted buffer, the tree and the entry | TLAPS |
| `SortBuncket`, `UnSortBuncket`, `Buncket` | the three bucket classes | operators on a bucket |
| `PointerBEntry` | one pointer entry over any of them | state machine, one call a step |
| `PointerBEntry_proofs` | theorems about the buckets and the entry | TLAPS |
| `Letree` | the groups, the models and both expansions | state machine, a `Put` in the steps of its retry loop |
| `LetreeBuckets` | its buckets, told by keys and holes, against the slots of `SortBuncket` | a property |
| `Letree_proofs` | theorems about it | TLAPS |
| `MC*` | constants for TLC | |

The modules divide the tree between them by what they hold fixed.
`BLevelExpansion` looks inside one expansion, entry by entry. `ComboTree` takes the
move of a key as one step, which is what `ExpansionInvisible` shows a writer sees
of it, and looks at what surrounds the expansions. `PmemKVMigration` ends where
`ComboTree` begins. `BLevelGenerations` is about places: it runs one operation at a
time, but on ranges, intervals and entries as they are laid out, from the bulk load
through one expansion after another, and so shows where the partition comes from that
`BLevelExpansion` has as a constant. All of them take an entry for a map, which is what
`BEntry` is about; `Letree` tells a bucket by the keys of its pairs and of its holes, and
`LetreeBuckets` holds that against the slots with which `PointerBEntry` works.

### BLevelExpansion

*State.* `oldKV`, `oldValid`, `oldSize` are the old level (values, `IsValid()` per
entry, `size_`); `entryKey`, `newKV`, `newSize` the new one, per range;
`expandedEntries` and `maxKey` the published marks; `expPc`, `cur`, `todo`, `buf`,
`nextEntryKey`, `dataSize` the locals of each `ExpandRange_` with its `ExpandData`;
`wPc`, `request`, `wEnd` the writers.

*Actions.* `LockEntry` takes the lock of an old entry and begins its iterator;
`ExpandPut` buffers a key; `ExpandPutFlush` builds an entry from a full buffer (or
spills it into the last entry of a range that has no room) and counts it;
`ExpandPutPublish` stores `expanded_max_key_`; `Invalidate` is `SetInvalid` and the
unlock; `ExpandFinish` and `ExpandFinishPublish` end the range; `Install` ends the
expansion. A writer's `CheckExpanded` and `LoadEnd` are the two loads of
`IsKeyExpanded`; `PutRange`, `PutOld`, `PutOldFails`, `PutInstalled` are where they
lead.

The partition of the old entries is a constant, with the assumption that it has no
empty part (`SharesPartition` of `BLevelGenerations`). `FindByRange` is the search among
the first `end` entries of a range.

### ComboTree

A level is a number; expansion *g* moves level *g* to *g* + 1. `content`, `valid`,
`size`, `prepared`, `complete`, `deleted` say of each level what it holds, which of
its entries are valid, `size_` modulo `WordSize`, whether `ranges_` and
`nr_entries_` are set, whether it is freed. `moved` is the static
`expanded_max_key_`: one for all levels.

`ExpandComboTree_` is cut at every shared access: `StartExpansion` / `GiveUp` (the
compare-exchange), `MarkExpanding`, `NewBLevel`, `PrepareExpansion`,
`BeginExpansion`, `ReleaseSleepers`, `NotifySleepers`, `MoveKey`,
`FinishExpansion`, `Install`, `EndExpansion`, `PermitDelete`. A client's
`RouteUsing`, `RouteSleep` and `CheckExpanded` are the branches of the loop over
`status_`; `DecideSleep` and `Wait` the critical section that ends in
`expand_wait_cv.wait`, and `SpuriousWakeup` is what a condition variable may do;
`IsKeyExpanded`, `PutRange`, `LockShared`, `PutShared` the Put during an expansion;
`PutUsing`, `PutReturn`, `GetUsing`, `DeleteUsing` the calls outside one;
`UseDeleted` is the access to a freed level. An Update goes the way of a Put up to
its write: `UpdateLevel` overwrites a key that is there and goes round again
otherwise; `UpdateRange` passes a range and an end where `Find_` takes two positions,
so it ends at the key's entry, at another, or outside the level, and the model
allows all three. `Requests` says which calls a run's clients make.

### PmemKVMigration

`kv` is the map, `tree` the B level it is moved to, `writeRef`, `readRef`,
`writeValid`, `readValid` the handshake, `freed` whether `pmemkv_` is deleted. The
actions are the calls of `PmemKV` cut at each atomic access, and the steps of
`ChangeToComboTree_`. With `DelayedStore` the release store of `SetWriteUnvalid` may
become visible (`StoreArrives`) after the loads that follow it, which both x86 and
the C++ memory model allow. `overtaken` is a history variable: the migrator read
`write_ref_` while its store was still on its way. It only serves to state what holds
when that has not happened.

### BLevelSearch, BLevelIterators, BLevelIndex and BLevelGenerations

A level is a record: `entryKey` and `held` by physical position (the entry's key and
the keys in it), `ranges` (`ranges_` with its sentinel), `interval` and `sizes`
(`interval_size_`, `size_per_interval_`), `size`. `FindNearPos` walks from a predicted
position, `Find` halves a bracket once and then walks, `BinarySearch` is what the
iterators use; `Home` is where all of them should end. `WellFormed` is what the searches
rely on: ranges in order, keys that ascend within each, and nothing before a range, used
or not, with a key above the range's start. `NextIndex`, `Visit` and `IterKeys` are
`BLevel::Iter`, which steps over the gap behind each range and over entries that have
no key to give.

An index is a function of the level, as it is built once per level. `Learn_Index`
promises a bracket of `epsilon` around the key and any position as a hint, so the model
takes *every* bracket that holds the key's entry and *every* position. `ALevel` is
modelled in full (`CDFIndex`, the filled gaps of `ALevelOffset`, the two cases of
`ALevelBracket`), `RMI_Index` from the position that its models predict on (`WidenDown`
and `WidenUp`, whose steps `Reach` adds up). `ALevel`'s last entry is set to the level's
last although the cdf index of earlier entries may be the same (alevel.cc:53): its bracket
then begins one behind the key's entry. `Find_` makes up for it, as it answers with the
entry before the bracket when all in it are above the key.

`LoadedLevel` is `Expansion(data)`; `Put` and `Delete` go through the index to an entry
and `Count` its interval; `Expand` is one expansion: `Cut` the greedy division of
`PrepareExpansion`, `OldEntries` the share of each thread, `Filled`, `FillHeld` and
`FillKey` what `ExpandPut_` and `ExpandFinish_` make of it, `ExpandedLevel` the whole
with `FinishExpansion_`. `Abort` is the assertion that fails when fewer ranges come out
than there are threads.

### SortBuffer, KVBuffer, CLevel and BEntry

A `SortBuffer` is `recs`, the pairs by slot, `index`, the slot of each rank in the
header, and `entries`: `RotateUp` and `RotateDown` are `circular_lshift` and
`circular_rshift`, and `NextSlot` reads the slot that `Put` takes next out of the
ranks behind the last. `Delete` and `DeleteData` leave pairs behind in `recs`, as the
code does. A tree of `CLevel` is the nodes allocated and the root; `SplitLeaf` and
`SplitIndex` are the two branches of `Node::Put`, `Attach` what both do with the
parent. `PutChild` has no check, so the model has none either: that there is room is
a property.

`BEntry` has `kind` (the class), `buf`, `clevel`, and `store`, the map that a caller
expects. `PutBuffered` flushes (`NeedsFlush`, `Flushed`) and puts; `PutDirect` is the
class without a buffer. The iterators are operators on a state: `BufIterAll` and
`BufIterFrom` merge buffer and tree as `BEntry::Iter` does, `NobufIterAll` and
`NobufIterFrom` are those of `NobufBEntry`, `NoSortIter` the unordered one.

### SortBuncket, UnSortBuncket, Buncket and PointerBEntry

`SortBuncket` keeps its pairs in place in key order; `Delete` leaves a pair with key
0, a hole, and `Shift` and `Compact` are the two ways `PutBufKV` makes room.
`UnSortBuncket` appends and fills the gap of a removed pair with the last one;
`Buncket` has a bitmap and a sorted index. `PointerBEntry` has `heap`, the buckets in
order of allocation, `ents`, the pointers, and the actions `Put`, `Update`, `Delete`
and `AdjustEntryKey` (which the group above calls before it expands). `Retried` is the
loop that `goto retry` makes in `Put`, a `Split` in each turn until the bucket of the key
has room or no pointer is free, and `PutFrom` what `Put` does after it. The loops of the
buckets are recursive functions over their slots or ranks: `Find`, `From` (the iterator of
the sorted bucket), and the turns of `Expand_`. `dirty` is set
when the code goes where it promises nothing, namely a `Put` into a sorted bucket with
holes and `AdjustEntryKey` on an empty bucket; such a state is not followed further.

### Letree

`groups` holds the entries of each group with `next_entry_count` and `min_key`, `route`
the group that the root model predicts for each key. The regressions are sums of
doubles; what the tree relies on is that a trained line does not descend
(`LinearModelBuilder::build`), so the root model is *any* monotone function, chosen
anew at each expansion, and the prediction inside a group is *any* entry of it.
`TryPut` is one pass of a label `retry0`: `PutFits`, `PutSplits`, or `PutFull`, which leads
to `ExpandGroup` or `ExpandTree`. `at` is the group a `Put` is in: `letree::Put` names it by
`FindGroup`, and again after `ExpandTree`, while `group::Put` comes back from `expand` to the
same group and only looks for the entry anew. `FindEntry` is the exponential search, the
linear or binary search inside its bounds included; `FindGroup` the walk over groups without
entries. `Pointers` is what `EntryIter` gives out: the pointers of all groups, listed in the
order of their places.

A bucket is that of the default build, `SortBuncket` with `USE_DELETE_0`, where a Delete
leaves a hole: a slot of key 0. `Letree` tells a bucket by `keys`, those of its pairs, and
`holes`, the deleted keys whose slots are still holes; while the keys ascend from slot to
slot these labels say what is in each slot, a hole before the pair that was put again under
its key. The operations are those of the slots:

* `Delete` finds a key only in front of the first hole (`remove_key` ends there) and leaves
  a hole (`Vacated`);
* a Put closes the last hole when the slots are used up or all but one (`Kept`) and shifts
  down to a key not above its own, or to a hole: `Misled` says that a hole of a greater key
  stayed, or that there are holes and no pair, in which case the pair may be stored out of
  order or counted past `last_pos`;
* a full bucket has no room for holes, so that `Expand_`, which cuts at slot `last_pos / 2`,
  cuts at the middle key (`Halves`);
* `min_key` reads slot 0 (`Headed`), and `AdjustEntryKey` has no value if that is a hole
  (`Unreadable`);
* an iterator from a key that is not above the `prefix` of its pointer (8 in the entry that
  `group::Init` makes, 0 in all others, kept by the lower half of a split) begins at slot 0.
  `InitPrefix` is the largest key of the instance that is not above 8.

`dirty` is set by a misled Put and by an expansion that reads `Unreadable`. Either may break
the order of keys and buckets: from [2, 4, hole, 7] a Put of 3 gives [2, 4, hole, 3, 7], where
`LinearFind` no longer comes to 3. A dirty tree is not followed further; every property except
`TypeOK` and the exact counts excepts it. `Misled` is on the safe side: a hole of a
greater key does no harm when no pair between it and the new key is left, and the tree is
dirty all the same. What a bucket itself does from there on is in `SortBuncket`.

`LetreeBuckets` shows that the labels say the truth: it lays each bucket of the tree out in
slots, with what an earlier use may have left behind `last_pos`, does each call of
`SortBuncket` there, and compares the slots afterwards with the labels afterwards.

`MayOverflow` adds the models whose prediction, a double cast to `int`, is out of range
beyond the trained keys. Nothing in the code keeps such keys out; the run leaves the case
off, and the theorems assume that it does not come.

## Runs

| run | what it checks | bounds |
|---|---|---|
| `BLevelExpansion_moves` | `TypeOK`, `EndFindsHome`, `NoStaleCopy`, `KeysInPlace`, `SizeCoversKeys`, `ExpandedForever`, `ExpansionInvisible` (the refinement of `KVStore`), `PutsReturn`, `ExpansionEnds` | 2 ranges, 3 old entries, 6 keys of which 5 are there, 2 values, 2 writers, one Put each, `BufKey` 1 |
| `BLevelExpansion_emptied` | violation of `ExpansionEnds` | one old entry whose only key was deleted |
| `ComboTree_expansions` | `TypeOK`, `UsingComplete`, `OneExpander`, `LockedPutLive`, `ExpansionKeeps`, `RoutedPutApplied`, `ExpansionsEnd` | 2 clients with two calls each of any kind, 2 detached threads, 2 expansions, 1 key, 2 values |
| `ComboTree_lost` | violation of `PutStored` | 1 key, 2 values |
| `ComboTree_wakeup` | violation of `PutsReturn` | 1 key, 1 value |
| `PmemKVMigration_handshake` | `TypeOK`, `NoWriterInScan`, `OneMigrator`, `MigrationKeeps`, `MigrationEndsOrLeaks` | 3 clients with two calls each of Put, Get or Delete, 1 key and 1 value, a threshold of 1, the store delayed or not |
| `PmemKVMigration_leak` | violation of `MigrationEnds` | 2 clients with every operation |
| `BLevelGenerations_searches` | `TypeOK`, `SearchesAgree`, `BracketsHold`, `IterationInOrder`, `SharesPartition` | 3 threads, 10 keys, `BufKey` 2, a load of 5 keys, 2 expansions, 1 Delete, one key put again and again |
| `BLevelGenerations_skewed` | violation of `NeverAborts` | the same |
| `BEntry_tree` | `TypeOK`, `GetAgrees`, `IterationInOrder`, `TreeSound` | both classes, nodes of 3 entries and 4 slots (7 to 12 and 12 in the code), 7 keys, 2 changes on keys 2 and 4 |
| `PointerBEntry_buckets` | `TypeOK`, `LookupAgrees`, `EntriesMatchBuckets`, `IterationInOrder` | the three bucket classes, buckets of 3, 3 pointers, 6 keys, 2 changes on keys 2, 3 and 5 |
| `Letree_grow` | `TypeOK`, `GetFinds`, `PredictionIrrelevant`, `IterFromInOrder`, `GroupsMatchEntries`, `BucketsAgree` | 7 keys, an empty tree with prefix 3 or bulk loads of 2 and 4 keys, buckets of 3, 2 pointers, groups of 3 entries, 2 Deletes |

**Why the bounds are enough.** Ranges share nothing but the old entries' locks, so
two of them show what one can do to another. The first range has one physical entry
for the keys of one old entry, so that it spills from `ExpandFinish_` and, if a writer
fills in the missing key in time, from `ExpandPut_` too; the second has room for all
keys but one, so that the bound of a new entry falls inside an old one and a key waits
in the buffer when its old entry is given up. These are the cases `ExpandPut_` tells
apart. Two writers are enough to race with each other and with both expanders; a second
Put of the same writer would meet states that the other writer's meets already. What a
longer buffer or more ranges could change is what the theorems below are about.

In `ComboTree` two expansions are needed for everything that one generation can do
to the next (a client still routed by the first meets the second; a detached thread
started before the first runs in the second), and two detached threads for the race
of the compare-exchange. `SleepLimit` 2 lets the one sleeper that `EXPAND_THREADS` = 2
leaves room for clear `need_sleep_` itself. `Limit` is *g* keys for level *g*, so
that a Put of the bounded run starts an expansion. `WordSize` is 16, far above what
the Puts count and reached only from below zero.

In `PmemKVMigration` three clients are a migrator, one that arrives late and one on
its way; with a threshold of one key the first Put starts the migration.

In `BLevelGenerations` three threads are the fewest with a range between two others,
and two expansions give a level whose ranges were cut from ranges that were themselves
cut: shares begin and end inside old ranges, and there are unused entries behind them.
The key that is put again and again drives the counters away from the keys that are
there, which is what it takes to make an expansion due with ten keys and what moves the
cuts. `MaxSize` 20 is above what makes the second expansion due.

In `BEntry` nodes of three entries and seven insertions in every order make trees of
three levels: leaves split, index nodes split, the root splits twice, and a leaf may
be emptied by the two changes and filled again. The fourth slot stands for the ranks
that a header has beyond `max_entries` (12 less 7 to 12 of them). In `PointerBEntry`
three buckets of three are nine places for six keys: each bucket can split with its
new key below, at and above the middle, and the array runs out of pointers. In
`Letree` the tree goes from one entry through splits and a group expansion, or from
a bulk load of one or two groups through a tree expansion, to three groups, some of
them without an entry; `LinearLimit` 2 takes both searches. Buckets of three with two
Deletes are the smallest in which a hole lies before, between and behind pairs, two holes
lie in one bucket, a Put closes the last of them and leaves the other, and an iterator from
a key within the prefix 3 begins before it; the 111,940 states of the run have every such bucket
in a tree that goes on to split and expand.

`Terminated` in each module of threads is the stuttering of a finished bounded run, so
that TLC's deadlock check stays on; only `BLevelExpansion_emptied`, in which a
thread faults, turns it off. The modules without threads (`BLevelGenerations`, `BEntry`,
`PointerBEntry`, `Letree`) run out of keys and changes, where they stop; their runs do
without the check, which has nothing to find where calls come one at a time.

**Fairness.** `FairSpec` gives weak fairness to every thread: a thread that can go on
does so. A thread that waits for a lock is not enabled while the lock is held, and
weak fairness does not promise it the lock; none of the liveness properties needs it
to. `Call` is not fair, nor is a spurious wakeup.

### What the properties say

* `EndFindsHome`: a writer acts on the range and the end it got from two unlocked
  loads; whatever the expander did since, the entry it will write to exists and is
  where any search for the key ends. This is what the commented-out assertions of
  `PutRange` ask.
* `NoStaleCopy`: no key on its way to the new level has a value there yet.
* `KeysInPlace`: no key of the new level is in an entry where no search finds it.
* `ExpandedForever`: the marks never go back, and a mark is never ahead of the first
  entry.
* `ExpansionInvisible`: the whole, with the value of a key defined by where a search
  would find it after the expansion, implements the plain map.
* `SizeCoversKeys`: the new level's `size_` is at least the number of its keys.
* `UsingComplete`, `OneExpander`, `LockedPutLive`: what `status_`, the
  compare-exchange and `alevel_lock_` are there for.
* `ExpansionKeeps`: no step of an expander changes what the tree holds.
* `RoutedPutApplied`: a Put routed in `COMBO_TREE_EXPANDING` that returns has stored
  its value where the tree looks for it, though that expansion may be over.
* `NoWriterInScan`: the two halves of the handshake never miss each other, unless the
  store was overtaken.
* `MigrationEndsOrLeaks`: the early returns are the only reason for which the
  migration may not end: as long as both counts are right, it does, the store
  delayed or not.
* `MigrationKeeps`, `OneMigrator`, `MigrationEnds`, `ExpansionsEnd`, `PutsReturn`,
  `ExpansionEnds` as their names say.
* `GetAgrees`, `LookupAgrees`, `GetFinds`: reads answer as a map would, wherever
  flushes, splits and expansions have taken a pair.
* `BucketsAgree`: while a tree is not dirty, a Put, Get, Delete, iterator, `min_key` or split
  does to the slots of a bucket with holes what `Letree` does to its keys and holes.
* `IterationInOrder`, `IterFromInOrder`: so do iterators (of a level, an entry, a pointer
  entry or the letree), from the start or from any key.
* `TreeSound`: what is reachable from the root and what is in the chain of leaves are
  the same, each leaf between its separators; every node has room for one more pair
  between calls, as the assertions of `SortBuffer::Put` ask; and the rotations keep a
  header a permutation whose first ranks go up in key order.
* `EntriesMatchBuckets`: pointer keys bound the keys of their buckets, the chain
  follows the pointers, each bucket's counts agree.
* `PredictionIrrelevant`: the exponential search ends at the same entry from every
  predicted start.
* `GroupsMatchEntries`: pointer keys increase through all groups, whatever the new
  model, and `next_entry_count` is what an expansion will need. That an expansion makes
  room for the `Put` that asked for it is in `TypeOK`, which bounds its retries.
* `SearchesAgree`: from every prediction and every bracket, `FindNearPos_` and `Find_`
  end at the entry that holds the key, and no entry holds a key that they would not find
  there, across the gaps and after each expansion.
* `BracketsHold`: what `RMI_Index` widens to holds the key's entry, what `ALevel`
  interpolates holds it or begins right behind it; `Find_`, which looks no further, ends
  at the key's entry from both.
* `SharesPartition`: whatever Puts and Deletes did to the counters, if `PrepareExpansion`
  passes its assertion each old entry is in the share of exactly one thread, and the
  shares are in order and not empty.

### Where the code does not do what is expected of it

* **An emptied entry** (`BLevelExpansion_emptied`). If every key of an old entry has
  been deleted, `ExpandRange_` still reads a key from its iterator
  (blevel.cc:446), through the null leaf. The passing runs start from levels in which
  each old entry has a key.
* **A lost Put** (`ComboTree_lost`). In `USING_COMBO_TREE` the answer of
  `learn_index_->Put` is dropped; if the entry has moved meanwhile it is
  `status::Failed`, and Put returns OK.
* **A lost wakeup** (`ComboTree_wakeup`). `need_sleep_` is cleared and the condition
  variable notified without the mutex.
* **A leaked reference** (`PmemKVMigration_leak`). A second writer that finds
  `write_valid_` cleared, or a Size that finds `read_valid_` cleared, returns
  without giving up its reference; the migrator spins for ever. Without such a
  return it ends (`MigrationEndsOrLeaks`).
* **A level that cannot be divided** (`BLevelGenerations_skewed`). The cut of
  `PrepareExpansion` goes by interval counters; if most Puts went to one interval, as
  with keys inserted in ascending order, no cut is made inside it, fewer than
  `EXPAND_THREADS` ranges come out and the assertion at blevel.cc:350 fails. The counters
  of a level of 10000 loaded and 10000 appended keys give three ranges of the four. In
  a build without assertions the ranges that were not cut are used as they were; the
  model ends there.

Further properties of the modules that TLC refutes when they are added to a
configuration, and that no run lists: `GetFinds` (Get answers "absent" from an
entry that has moved), `NoFault` of `ComboTree` and of `PmemKVMigration` (a client
works on a level, or on `pmemkv_`, that has been deleted), `DeleteWhenIdle`
(`permit_delete_` is true while an expansion runs), and `NoWriterInScan` without the
exception for `overtaken`; `GetFinds` and `GroupsMatchEntries` of `Letree` with
`MayOverflow = TRUE` (a key far beyond the trained ones goes to the first group).

The models contain further behaviour of this kind, which their properties except:

* An Update of an absent key never returns (`UpdateLevel`, combotree.cc:379), and one
  of a key that has moved may look in a wrong entry or outside the level
  (`UpdateRange`, blevel.cc:856).
* A sorted bucket after a Delete has a hole; `remove_key`, `Find` and the shift of
  `PutBufKV` stop at it or are misled by it (pointer_bentry.h:966). `holed` and
  `dirty` of `PointerBEntry` except it from the first Put after a Delete.
* So does `Letree`, which goes on through the Puts that no hole misleads. `Find` takes the
  count of pairs for that of slots (pointer_bentry.h:1135), so `IterFromInOrder` excepts
  a start in a bucket with holes.
* An emptied bucket ends the iteration over a pointer entry (pointer_bentry.h:2243),
  and a first bucket with a hole in slot 0, emptied or not, has no key to adjust an
  entry's key by (`min_key`, pointer_bentry.h:1181).
* An iterator of letree from a key up to 8 begins at the first pair of its bucket if that
  still has the prefix of `group::Init` (letree.h:58), so it may give out lesser keys;
  `IterFromInOrder` says which.
* The root model of letree may route a key far beyond the trained ones to the first
  group (letree.h:745).
* The buffered `BEntry`, which the default build does not use, takes a second pair for
  a key that it already has; in `BEntry` only absent keys are put, as the B level is
  asked to. `FlushToEntry` may leave its first leaf without a free slot.
* `NewNode` gives index nodes the `max_entries` of the leaf they come from
  (clevel.h:144); it is never more than the node holds.
* `Scan` of letree begins at the first pair of the key's group instead of the key
  (letree.h:798).

## Theorems

Each theorem holds for every value of the constants that satisfies the assumptions
stated with them; the runs evaluate the same assumptions on their instances.

**`BLevelExpansion_proofs`**, from the assumptions of `BLevelExpansion` (the partition
covers the old entries in order and leaves no range empty, every range has room for an
entry, `BufKey` is positive, the old entries' keys increase from 0): `TypeCorrect`,
`EndAlwaysFindsHome`, `AlwaysExpandedForever`, and `Invariance`, the inductive invariant
they follow from. `EndFindsHome` is not inductive: it speaks of the end a writer holds
and says nothing of how expanders keep entries in order. The invariant is `TypeOK` and
three parts:

* `ControlInv` – each expander's cursor is in its share of the old entries, and
  what it still has to copy lies in the entry it holds;
* `Frontier` – within a range, the keys of the entries increase from the range's
  start key, every published mark is at or below the next entry's key, and the
  buffer and the rest of the old entries lie above all entries built so far;
* `WriterInv` – the key of a writer that was told "expanded" lies below the mark it
  saw, and the end it holds covers all entries up to that mark.

`StepControl`, `StepFrontier` and `StepWriters` show action by action that a step
keeps each part; `MarksStay` and `FlushMarks` that the marks only rise; and
`FrontierFindsHome` that the search for a key below the mark has the same answer
among the first `end` entries as among all of them.

The second half of the module goes on to where the values are, with the further
assumption that `None` is neither a value nor a request. `Passed(r)` are the keys that
expander *r* has left behind or is copying under a lock, `NewKeys(r)` those in the new
entries of its range, `Floor(r)` a lower bound of what it has yet to write. For each range
the invariant (`RangeInv`) says:

* `TodoOf`, `BufOf` – a key still to be handed over or in the buffer is passed, not in the
  new level, at or above the floor and the mark, and the buffer has the old value;
* `FloorOf`, `OrderOf` – the floor is not above the bound of the old entry in hand, new
  entries ascend and lie below the next entry's key;
* `EntriesOf` – each key of a new entry is passed, at or above the entry's key and below
  the next one's;
* `OldOf` – the old entries behind the cursor are exactly the invalid ones, and every
  passed key that the old level has is still to be handed over, buffered or in the new
  level.

`ValuesInvariance` proves it; `NoStaleCopyAlways` and `KeysInPlaceAlways` follow from it. `ImplementsKVStore` is the
refinement: a search that finds nothing in the new level answers with the old value,
valid entry or not (`LookupOld`), so no expander's step changes an answer
(`ExpanderLookup`), and a `Put` changes the one of its key (`PutsAtLookup`,
`PutOldLookup`).

`SizeCoversAlways` comes last. `Moved(r)`, the old keys in the buffer or the new entries
of a range, are never more than the expander's `size`; `Counted`, the new keys that a
writer added or whose expander is done, never more than `size_`. A writer that puts a
key an expander has moved counts it again, so neither is an equality. When all expanders
are done, whatever a search finds is counted.

**`BLevelSearch_proofs`** is about one level. In any that is `WellFormed`,
`FindNearPosFindsHome` (from every predicted position, in a gap or in another range, the
walk of `FindNearPos_` ends at the key's entry), `FindFindsHome` (so does `Find_`, when the
bracket holds the entry's logical position), `FindFindsBefore` (and when it begins right
behind) and `BinarySearchIs`. In one that is `Built`, whose entry keys ascend through all
ranges, `LearnedAnswers` and `BracketAnswers` show what brackets and positions the three
indexes give and that the searches end at the key's entry from all of them, and
`IteratorsAre` that iterators give out the keys in order. The recursive functions there
(the bisection, the iterator's turns, the widening) are given in closed form: `Bisected`,
`Iterator` and a bound on `Reach`.

**`BLevelGenerations_proofs`** shows that levels are like that: `TypeCorrect`,
`SearchesAgreeAlways`, `BracketsHoldAlways`, `IterationInOrderAlways` and
`SharesPartitionAlways`, for every number of threads from two up, every set of loads with
more keys than `BufKey` entries for all threads but one need, every interval length, buffer
size, expansion factor and `Span` up to the number of threads, and through any number of
generations. The invariant, of `level` and `stored`:

* `Built` – `WellFormed`; the first range begins at entry 0; entry keys ascend through all
  ranges, and the domains are what the constructor allocates;
* `Content` – each entry holds exactly those of the stored keys that a search looks for
  in it;
* `Peopled` – no entry in use is without a key: an expander starts the next range at
  the entry key of its first old entry and would build no entry of a share without keys
  (`Delete` leaves out the deletions that empty an entry; `BLevelExpansion_emptied` has
  what they lead to);
* `Counted` – each range has a counter for every `interval_size_` entries and the rest,
  and each is a word.

A `Put` or a `Delete` changes what one entry holds, the entry that all searches of the key
end at, so nothing moves; the counter it changes exists, as the entry lies in the key's
range. An expansion has to build such a level anew. `IntervalsListed` puts the intervals of
all ranges in a row; whatever the counters say, the greedy cut begins at the first one and
goes up (`CutIs`), so its shares partition the entries (`SharesPart`), and the shares' keys
lie between the start keys of the next level (`KeysOfAre`). `FillIs` is what becomes of them
in the room each thread has, the last entry taking the keys that no room is left for;
`RoomFor`, that the constructor's file has room for an entry in every range: an expansion
that is due has enough keys for that.

The theorems have a hypothesis, `[]Countable(level)`: the counter of the first interval is
not 2^64 - 1, as it would be after a `Delete` of an absent key from a counter of 0
(blevel.h:581). The proof of the first turn of the cut fails there for a reason: the running
sum would be as far from its target as `min_diff` begins with, and the cut would begin its
second share at the first interval, the first share being empty. Every state of the run
satisfies it. That the counters count the keys is neither needed nor true.

**`BEntry_proofs`** goes from a node's buffer to the tree and on to the entry. The
buffer comes first, for every number of ranks in the header and every `max_entries` up to
it. `Sound` says that no slot has two ranks, that
the slots beyond `max_entries`, for which there are no bytes, are exactly the first of
the free ranks, and that keys ascend. A new buffer and one made of a `KVBuffer` are
sound, and `PutSound`, `UpdateSound`, `DeleteSound`, `CopyDataSound` and `DeleteDataSound`
say that each operation keeps it so and what becomes of every pair; `NextSlotFree`, that
the slot `Put` takes is then inside the buffer, as the code asserts, and unused. The far
slots must be where `Sound` puts them because every operation rotates a whole tail:
were one of them behind the others it would come up last, where `Put` reads. That the
bisections of `Find` and `FindLE` answer with the rank `Put` needs, `FindFinds` and
`FindLEIs` show.

`TypeCorrect`, `GetAlwaysAgrees`, `TreeAlwaysSound` and `IterationAlwaysInOrder` hold for
both classes, every size of a node from three entries up, every number of keys from one up, and any
number of updates and deletes. None of the four invariants is inductive: that the leaves
below a node keep to its separators says nothing of the node that a split has yet to enter
into its parent. The inductive one, `BInv` (`Invariant`), has no recursion in it. It says
that there is a function that assigns to each node a span, that is a height and the keys
from `lo` up to but not including `hi`, such that (`Tree`):

* `Inside` – the keys of a node are in its span, its buffer is sound, and leaves are the
  nodes of height 0;
* `Shared` – the children of an index node share out its span, one height below;
* `Linked` – a leaf is linked to the one that goes on where it ends, the last one to none;
* `Apart` – no two nodes of one height share a key;
* the root has all keys and is the only node of its height, and every node but the one
  about to split has a free place.

Besides the tree it says that the buffer has each key once (`GoodBuf`), that no key is in
both and both together are the map (`Together`), and that a buffer without a tree leaves
room in the leaf it is to become (`TreeGood`).

`Node::Put` is shown by induction on the height of the node it is called on
(`NodePutGood`): what it answers with is a tree again, in which at most the parent is full
and nothing above the parent has changed (`Grown`). A split cuts the node's span in two at
the separator that it enters into its parent, or into a new root one level higher
(`SplitGood`). A flush is as many `Put`s as the buffer has pairs (`FlushGood`), or
the first leaf (`SetupFromGood`). For `TreeSound` and `IterationInOrder` a row of leaves,
each beginning where the one before ends, is a `Frontier`. The leaves below a node are one over
its span (`LeavesFrontier`), and so is the chain from any leaf on (`ChainFrontier`); two
over the same span are the same row (`FrontierSame`). The pairs in a row are then a
listing, in order, of those that the tree has in its span (`PairsRow`); `MergeLists`,
`PassOverLists` and `BothOnce` are what the iterators make of it and of the buffer.

Every recursive operator of the three modules is a function of a bounded argument, and
`Recursion` shows once that such a definition has a function, given a rank that goes down
with every turn: the height of a node, the keys that are left behind a leaf, the pairs that
are still to be merged.

**`ComboTree_proofs`**: `TypeCorrect`, `OneExpanderAlways`, `UsingCompleteAlways`,
`LockedPutLiveAlways`, `ExpansionKeepsAlways` and `RoutedPutAppliedAlways`, for every set
of clients and detached threads, every finite set of keys smaller than `WordSize`, every
sleep limit and any number of expansions. `OneExpander` alone says nothing of the
thread that starts the next expansion late, so the invariant is `TypeOK` and:

* `Levels` – what is deleted lies behind, what is to come is untouched, and a holder of
  the lock works on the level that `learn_index_` leads to;
* `Expansion` – at most one thread is past the compare-exchange; what `status_`, the two
  B levels and the valid entries are at each place where it can be (`Stages`); and
  without one, or in `USING_COMBO_TREE`, the one level is complete and valid (`Settled`);
* `Routed` – the key of a Put that was told "expanded" has left the old level.

**`PmemKVMigration_proofs`**: `TypeCorrect`, `OneMigratorAlways`, `NoWriterInScanAlways`
and `MigrationKeepsAlways`, for every finite set of clients. The invariant is `TypeOK`
and:

* `Counted` – each count is at least the number of clients inside, an early return
  having left the count higher than that;
* `Handshake` – what the flags and the migrator's store are at each place of the
  migrator, and that there is one;
* `Quiet` – once the migrator has seen a count of zero that its store was not overtaken
  by, nobody is inside who can still write.

**`Letree_proofs`**: `TypeCorrect`, `GetFindsAlways`, `PredictionIrrelevantAlways`,
`GroupsMatchEntriesAlways` and `IterFromInOrderAlways`, for every number of keys, every
capacity of buckets, entries and groups, every bulk load, every monotone model at every
training, every prediction, and any number of Deletes with the holes they leave. They assume
`~ MayOverflow`, that a prediction stays in the range of `int`, which nothing in the code
guarantees: with an overflow the root model descends, and the tree does lose keys. And they
claim nothing of a dirty tree: none once a Put has met a hole of a greater key, and none once
an expansion has read the key of an entry from a hole in slot 0; what Deletes do short of that
is proved harmless. Only `TypeCorrect` and the exact counts of `GroupsMatchEntriesAlways` hold
without the exception. `IterFromInOrderAlways` has besides the exceptions of `IterFromInOrder`.
That the labels of a bucket say what its slots do (`BucketsAgree`) is model-checked, not
proved. None of the properties is inductive. `GetFinds` says nothing of the keys by which the
searches go, and `GroupsMatchEntries` nothing of the models. The invariant is:

* `Shape` – types; the root model does not descend; `next_entry_count` of each group is its
  number of pointers (`Counted`);
* `Content`, unless the tree is dirty – the tree is `Sound` (over all groups the
  pointers' keys ascend, `Chain`, and no bucket has a key below its pointer's, `Floors`), its
  buckets hold the stored keys and no others (`Holds`), there is an entry (`Inhabited`), and
  the model sends no key to a group before its own (`Covers`: but for the first, a group
  that begins at or below a key is not behind the group predicted for it);
* `Idle`, `Trying` or `Expanding` – where the `Put` in progress is. One that is in a group is
  in the group `find_group` would name (`Named`), and one that comes by `retry0` a second time
  meets entries of one pointer each (`Single`), so that its bucket can split: a `Put` expands at
  most once.

The argument goes by places. `Owns` names the one place of a sound tree that a key belongs to:
the last pointer whose key is not above it, or the first of all. `FindGroup` leads to its
group from every prediction (`GroupFound`), `FindEntry` to its entry (`EntryOwned`; the
exponential search needs its doubling bound, the binary search a well-founded descent on the
width of the range), `FindPos` to the pointer (`PlaceOwned`). A `Put` or `Delete` there keeps the tree
sound and changes what it holds by its key; a split puts one place in; an expansion lists the
same pointers in new places, so that what is to show is that a model which does not descend
deals a sorted sequence out in order.

That `group::Put` goes on in the group it is in after `expand` (letree.h:246) is not obvious:
`AdjustEntryKey` may raise the group's first key above the key being put, and `find_group`
would now name an earlier group. `Named` is kept all the same (`GroupExpandedContent`): all
pairs of the earlier groups are below the key, and the pair put lowers the first key again.

**`PointerBEntry_proofs`**: `TypeCorrect`, `LookupAlwaysAgrees`,
`EntriesAlwaysMatchBuckets`, `IterationAlwaysInOrder` and `StatusesAreTruthful`, for each of
the three bucket classes, every size of a bucket from two slots up, every number of pointers
and of keys, and any number of updates and deletes. `StatusesAreTruthful` is of single steps and
no run lists its property: `Update` and `Delete` answer OK exactly when the key was there; one
`Put` splits at most once, and answers `Full` only when no pointer is left, having changed
nothing, so that the group above can expand and put the key again. None of the four invariants
is inductive:
that `Get` finds a key now says nothing of the boundary that the next split draws. The
inductive one, `IInv` (`Invariant`), has these parts:

* `Shape` – as many buckets as entries, each behind one entry, and `next_bucket` links them
  in the order of the entries; `AllTyped`, that every bucket has the shape of its class;
* `Between`, unless `dirty` – entry keys ascend, and the keys of a bucket are not below its
  entry and below the next one. The first entry is not above its keys either, which
  `KeysBetweenEntries` does not ask for: `Put` lowers its key for that, and without it the
  next split would put the second entry in the wrong place;
* `AllGood` and `Agrees`, unless `dirty` – each bucket is right in itself, and the pairs of
  all of them are the map;
* `AllClean`, unless `dirty` or `holed` – a sorted bucket has no holes. Only then does `Find`
  know what it looks at, on which `Update` and the iterators from a key depend.

What a bucket promises is said three times, in growing strength: `KTyped`, `KGood` and
`KClean`. For the sorted bucket `SGood` allows for holes (the pairs ascend around them and
are counted) and `SClean` does not; the other two classes leave no holes, and `UGood` and
`XGood` are always true of them. Lemmas about each class say which pairs an operation leaves,
in terms of `KPairs`; above them the classes are no longer told apart. The unsorted bucket's
split is the hard one: it takes the upper half out one by one while the last pair fills
each gap, which may itself be one that is to go; what its proof (`UCutIs`) carries from turn to
turn is that the slot from which the next turn reads its key has not been written to.

`SplitGood` shows that the upper half in a new bucket behind the next pointer keeps all of it,
with the new entry's key as the boundary; `RetriedGood`, that one turn of the retry is enough,
as both halves of a full bucket have room. The iterators are `FlattenSeq` of ascending
sequences whose bounds ascend (`FlattenAscends`).

Recursive functions come from `CHOOSE` in TLA+, and a property of one is worth nothing before
a function of that definition is shown to exist. `StepsExist` does it once for every loop that
goes from slot to slot, and the bisection of `Find` has a lemma of its own.

**Only model-checked.** Liveness under fairness (`PutsReturn`,
`ExpansionEnds`, `ExpansionsEnd`, `MigrationEndsOrLeaks`) is beyond the prover, as is
`ENABLED`. Every invariant and every action property that a passing run checks is a theorem.

## Not modelled

* **The vendored indexes** (alex, stx, fast-fair, pgm, xindex and the other baselines
  of the benchmarks): third-party code, not the program's, though it is most of the
  lines of the repository.
* **The regressions of the index** (`pgm_index`, `rmi_model`, `learn_index`): floating
  point; a search goes on from any position or bracket they may give.
* **learn_group.h**: only the YCSB driver and `bucket_test` use it; letree took its
  place. **bucket.h** likewise.
* **`Scan`** of pointer entries and of letree (the inner loop of letree's has a `pos` that
  hides the outer one, and begins at the group's first pair), and `Update` of letree,
  which is that of the pointer entry below.
* **The iterators and `Scan` of `ComboTree`**: thin layers over `BLevel::Iter`
  (`BLevelIterators`) that take no lock and are only used when no one writes. `Scan`
  reads its first pair before it asks whether there is one. Its destructor.
* `NearPosRange_` of the B level, which nothing calls; builds without `BRANGE`.
* The inside of `std::map`, which concurrent Puts corrupt (pmemkv.h:97): in
  `PmemKVMigration` a call on it is one step.
* `Buncket::Delete` reads the value it gives out after the `memmove` that closed the gap
  (pointer_bentry.h:689): `Buncket` deletes the pair and gives out no value.
* Two trees in one process: `write_valid_` and `read_valid_` are static and are
  never set again, so the second tree's Puts fail.
* Persistence: flushes and fences have no reader, since nothing recovers.
* Builds with `BUF_SORT`, `USET_PREFIX_COMPRESS` or without `USE_DELETE_0`; the direct
  fill of an entry's buffer by `ExpandData`.
* Manifest, slab, configuration, tests and benchmarks.

## Plan

Modelled first was what the threads of a tree do to each other, then what an entry
does by itself, then the learned tree and the places of the B level; proved first was
the expansion, then the tree's states, the migration, the search, the sorted buffer, the
learned tree, the generations of B levels, the pointer entry and the tree of an entry.
What could follow:

1. `Scan` of `ComboTree`, `PointerBEntry` and `Letree`.
2. `UpdateRange`, `GetRange` and `DeleteRange` at the level of positions: they pass a range
   number where `Find_` takes a position; `ComboTree` takes any outcome of it.
