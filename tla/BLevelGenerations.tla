--------------------------- MODULE BLevelGenerations ---------------------------
(***************************************************************************)
(* One B-level after the other (src/src/blevel.cc): the bulk load, Puts    *)
(* and Deletes through the index, and the expansion into the next level    *)
(* whose old entries PrepareExpansion divides among EXPAND_THREADS threads *)
(* by the sizes of their intervals.                                        *)
(*                                                                         *)
(* The module is about places: which entry a key is put into, and whether  *)
(* every search, iterator and expander agrees with it afterwards.  One     *)
(* operation runs at a time, an expansion included; BLevelExpansion has    *)
(* the Puts that run against an expansion.                                 *)
(***************************************************************************)
EXTENDS BLevelIndex, BLevelIterators

CONSTANTS
  BufKey,           (* BLEVEL_EXPAND_BUF_KEY: keys put into one new entry. *)
  LoadInterval,     (* Least interval_size_ of a loaded level (4).         *)
  ExpandInterval,   (* Least interval_size_ of an expanded level (8).      *)
  IntervalsPerRange,(* Intervals that a large range is cut into (128).     *)
  ExpansionFactor,  (* EXPANSION_FACTOR.                                   *)
  WordSize,         (* 2^64, the modulus of size_t.                        *)
  Loads,            (* The sets of keys that the bulk load may find.       *)
  MaxSize,          (* Bound: size_.                                       *)
  Repeats,          (* Bound: the keys that are put again while stored.    *)
  Victims,          (* Bound: the keys that are deleted.                   *)
  MaxDeletes,       (* Bound: Deletes.                                     *)
  MaxGeneration     (* Bound: expansions.                                  *)

ASSUME GenerationAssumption ==
  /\ BufKey \in Nat \ {0}
  /\ LoadInterval \in Nat \ {0}
  /\ ExpandInterval \in Nat \ {0}
  /\ IntervalsPerRange \in Nat \ {0}
  /\ ExpansionFactor \in Nat \ {0}
  /\ WordSize \in Nat \ {0, 1}
  /\ \A load \in Loads :
       /\ load \subseteq Key
       /\ (Threads - 1) * BufKey < Cardinality(load) /\ Cardinality(load) < WordSize
  /\ Victims \subseteq Key

VARIABLES
  level,        (* The B-level that learn_index_ leads to.                 *)
  stored,       (* The keys put and not deleted since.                     *)
  generation,   (* Expansions so far.                                      *)
  deletes,      (* Deletes so far.                                         *)
  aborted       (* The assertion at the end of PrepareExpansion failed.    *)

vars == <<level, stored, generation, deletes, aborted>>

CeilDiv(a, b) == (a + b - 1) \div b

(* The constructor of BLevel: the entries that the file has room for, with *)
(* ENTRY_SIZE_FACTOR 1.2.                                                  *)
PhysicalEntries(size) == (CeilDiv(size + 1, BufKey) * 6) \div 5

(***************************************************************************)
(* Fill: what ExpandPut_ and ExpandFinish_ build from keys in order, in    *)
(* the room entries from first on.  Every BufKey keys make an entry; those *)
(* that no room is left for are put into the last one.                     *)
(***************************************************************************)
(* Mutant: the keys left in the buffer at the end make no entry. *)
FilledWhole(keys, room) == Min({room, Len(keys) \div BufKey})

Filled(keys, room) == Min({room, CeilDiv(Len(keys), BufKey)})

FillHeld(keys, room, e) ==
  {keys[i] : i \in e * BufKey + 1 ..
                   IF e + 1 = room THEN Len(keys)
                                   ELSE Min({Len(keys), (e + 1) * BufKey})}

FillKey(keys, start, e) == IF e = 0 THEN start ELSE keys[e * BufKey + 1]

(* size_per_interval_ of a range of entries new entries: what the expander *)
(* assumes, BufKey keys in each.                                           *)
IntervalSizes(entries, interval) ==
  LET n == CeilDiv(entries, interval)
  IN [j \in 0 .. n - 1 |->
        ((IF j < n - 1 THEN interval ELSE entries - interval * (n - 1)) * BufKey) % WordSize]

(***************************************************************************)
(* Expansion(data): all entries in a row, then divided into ranges.        *)
(***************************************************************************)
LoadedLevel(load) ==
  LET keys     == Ascending(load)
      physical == PhysicalEntries(Len(keys))
      entries  == Filled(keys, physical)
      share    == entries \div Threads
      interval == Max({LoadInterval, share \div IntervalsPerRange})
      count    == [r \in RangeNum |->
                     IF r < Threads - 1 THEN share ELSE entries - (Threads - 1) * share]
      entryKey == [p \in 0 .. physical - 1 |->
                     IF p < entries THEN FillKey(keys, 0, p) ELSE 0]
  IN [entryKey |-> entryKey,
      held     |-> [p \in 0 .. physical - 1 |->
                      IF p < entries THEN FillHeld(keys, physical, p) ELSE {}],
      ranges   |-> [r \in 0 .. Threads |->
                      [start    |-> IF r = Threads THEN MaxKey ELSE entryKey[r * share],
                       logical  |-> IF r = Threads THEN entries ELSE r * share,
                       physical |-> IF r = Threads THEN entries ELSE r * share,
                       entries  |-> IF r = Threads THEN -1 ELSE count[r]]],
      interval |-> interval,
      sizes    |-> [r \in RangeNum |-> IntervalSizes(count[r], interval)],
      size     |-> Len(keys)]

(***************************************************************************)
(* PrepareExpansion: the old intervals <<range, interval>> in order, the   *)
(* running sums of their sizes, and the greedy cut.  A range ends where    *)
(* the sum's distance from its target has stopped shrinking.               *)
(***************************************************************************)
IntervalsOf(lv, r) == [j \in 1 .. Cardinality(DOMAIN lv.sizes[r]) |-> <<r, j - 1>>]

Intervals(lv) ==
  LET before[r \in 0 .. Threads] ==
        IF r = 0 THEN <<>> ELSE before[r - 1] \o IntervalsOf(lv, r - 1)
  IN before[Threads]

SizeOf(lv, interval) == lv.sizes[interval[1]][interval[2]]

SumTo(lv, n) ==
  LET intervals == Intervals(lv)
      sum[i \in 0 .. Len(intervals)] ==
        IF i = 0 THEN 0 ELSE (sum[i - 1] + SizeOf(lv, intervals[i])) % WordSize
  IN sum[n]

Distance(a, b) == IF a > b THEN a - b ELSE b - a

CutStep(lv, share, cut, n) ==
  LET sum  == SumTo(lv, n)
      next == IF Len(cut.begins) = Threads - 1 THEN WordSize - 1
              ELSE (cut.target + share) % WordSize
  IN IF Distance(sum, cut.target) < cut.least
     THEN [cut EXCEPT !.least = Distance(sum, cut.target)]
     ELSE [begins |-> Append(cut.begins, n), target |-> next, least |-> Distance(sum, next)]

(* The numbers of the intervals at which the ranges of the next level      *)
(* begin.                                                                  *)
Cut(lv) ==
  LET n     == Len(Intervals(lv))
      share == SumTo(lv, n) \div Threads
      cut[i \in 0 .. n] ==
        IF i = 0 THEN [begins |-> <<1>>, target |-> share, least |-> WordSize - 1]
        ELSE CutStep(lv, share, cut[i - 1], i)
  IN cut[n].begins

(* assert(cur_range == EXPAND_THREADS - 1) *)
RangesAllCut(lv) == Len(Cut(lv)) = Threads

BeginInterval(lv, r) == Intervals(lv)[Cut(lv)[r + 1]]

EndInterval(lv, r) ==
  Intervals(lv)[IF r = Threads - 1 THEN Len(Intervals(lv)) ELSE Cut(lv)[r + 2] - 1]

(* The first old entry of an interval. *)
IntervalEntry(lv, interval) ==
  lv.ranges[interval[1]].physical + lv.interval * interval[2]

NextStart(lv, r) ==
  IF r = 0 THEN 0
  ELSE IF r = Threads THEN MaxKey
  ELSE lv.entryKey[IntervalEntry(lv, BeginInterval(lv, r))]

(***************************************************************************)
(* ExpandRange_: the old entries that thread r moves.  They begin and end  *)
(* at an interval, or where an old range does.                             *)
(***************************************************************************)
(* Mutant: the last interval of the share is left out when it is short. *)
PhysicalEndWhole(lv, interval) ==
  lv.ranges[interval[1]].physical +
    lv.interval * Min({lv.ranges[interval[1]].entries \div lv.interval, interval[2] + 1})

PhysicalEnd(lv, interval) ==
  lv.ranges[interval[1]].physical +
    Min({lv.ranges[interval[1]].entries, lv.interval * (interval[2] + 1)})

OldEntries(lv, r) ==
  LET begin == BeginInterval(lv, r)
      end   == EndInterval(lv, r)
  IN UNION {(IF q = begin[1] THEN IntervalEntry(lv, begin) ELSE lv.ranges[q].physical)
            .. (IF q = end[1] THEN PhysicalEnd(lv, end) ELSE LastPhysical(lv.ranges[q]) + 1) - 1
              : q \in begin[1] .. end[1]}

Moved(lv, r) ==
  LET entries == Ascending(OldEntries(lv, r))
      keys[i \in 0 .. Len(entries)] ==
        IF i = 0 THEN <<>> ELSE keys[i - 1] \o Ascending(lv.held[entries[i]])
  IN keys[Len(entries)]

(***************************************************************************)
(* PrepareExpansion, ExpandRange_ by every thread and FinishExpansion_.    *)
(***************************************************************************)
SumBelow(numbers, n) ==
  LET sum[r \in RangeNum \cup {Threads}] ==
        IF r = 0 THEN 0 ELSE sum[r - 1] + numbers[r - 1]
  IN sum[n]

ExpandedLevel(lv) ==
  LET physical == PhysicalEntries(lv.size)
      share    == physical \div Threads
      start    == [r \in 0 .. Threads |-> IF r = Threads THEN physical ELSE r * share]
      room     == [r \in RangeNum |-> start[r + 1] - start[r]]
      keys     == [r \in RangeNum |-> Moved(lv, r)]
      entries  == [r \in RangeNum |-> Filled(keys[r], room[r])]
      interval == Max({ExpandInterval, share \div IntervalsPerRange})
      rangeAt(p) == Max({r \in RangeNum : start[r] <= p})
      built(p)   == p - start[rangeAt(p)] < entries[rangeAt(p)]
  IN [entryKey |-> [p \in 0 .. physical - 1 |->
                      LET r == rangeAt(p)
                      IN IF built(p) THEN FillKey(keys[r], NextStart(lv, r), p - start[r]) ELSE 0],
      held     |-> [p \in 0 .. physical - 1 |->
                      LET r == rangeAt(p)
                      IN IF built(p) THEN FillHeld(keys[r], room[r], p - start[r]) ELSE {}],
      ranges   |-> [r \in 0 .. Threads |->
                      [start    |-> NextStart(lv, r),
                       logical  |-> SumBelow(entries, r),
                       physical |-> start[r],
                       entries  |-> IF r = Threads THEN -1 ELSE entries[r]]],
      interval |-> interval,
      sizes    |-> [r \in RangeNum |-> IntervalSizes(entries[r], interval)],
      size     |-> SumBelow([r \in RangeNum |-> Len(keys[r])], Threads) % WordSize]

(***************************************************************************)
(* The steps.                                                              *)
(***************************************************************************)
Init ==
  /\ \E load \in Loads : level = LoadedLevel(load) /\ stored = load
  /\ generation = 0
  /\ deletes = 0
  /\ aborted = FALSE

(* The counters of the entry's interval and of the level. *)
Count(lv, r, p, by) ==
  LET j == (p - lv.ranges[r].physical) \div lv.interval
  IN [lv EXCEPT !.sizes[r][j] = (@ + by) % WordSize, !.size = (@ + by) % WordSize]

(* Learn_Index::Put, BLevel::PutNearPos and Put_. *)
Put(key) ==
  /\ ~aborted
  /\ level.size < MaxSize
  /\ key \in stored => key \in Repeats
  /\ \E pos \in NearPositions(level, key) :
       LET p == FindNearPos(level, key, pos)
       IN level' = Count([level EXCEPT !.held[p] = @ \cup {key}],
                         FindBRangeByKey(level, key), p, 1)
  /\ stored' = stored \cup {key}
  /\ UNCHANGED <<generation, deletes, aborted>>

(***************************************************************************)
(* Learn_Index::Delete, BLevel::Delete and Delete_: the counters go down   *)
(* whether or not the key was there.  Deletes that leave an entry without  *)
(* a key are left out: the next expander would not survive it (see         *)
(* BLevelExpansion).                                                       *)
(***************************************************************************)
Delete(key) ==
  /\ ~aborted
  /\ deletes < MaxDeletes
  /\ \E bracket \in LearnBrackets(level, key) :
       LET p == Find(level, key, bracket[1], bracket[2])
       IN /\ level.held[p] # {key}
          /\ level' = Count([level EXCEPT !.held[p] = @ \ {key}],
                            FindBRangeByKey(level, key), p, -1)
  /\ stored' = stored \ {key}
  /\ deletes' = deletes + 1
  /\ UNCHANGED <<generation, aborted>>

(* ComboTree::Put asks for an expansion when the level is this full. *)
Due == level.size >= ExpansionFactor * BufKey * Entries(level)

Expand ==
  /\ ~aborted
  /\ Due
  /\ generation < MaxGeneration
  /\ RangesAllCut(level)
  /\ level' = ExpandedLevel(level)
  /\ generation' = generation + 1
  /\ UNCHANGED <<stored, deletes, aborted>>

Abort ==
  /\ ~aborted
  /\ Due
  /\ ~RangesAllCut(level)
  /\ aborted' = TRUE
  /\ UNCHANGED <<level, stored, generation, deletes>>

Next ==
  \/ \E key \in Key : Put(key)
  \/ \E key \in Victims : Delete(key)
  \/ Expand
  \/ Abort

Spec == Init /\ [][Next]_vars

--------------------------------------------------------------------------------
(***************************************************************************)
(* Properties.                                                             *)
(***************************************************************************)
(* The shape of a level, with all that its searches rely on.               *)
TypeOK ==
  /\ WellFormed(level)
  /\ \A p \in DOMAIN level.held : level.held[p] \subseteq Key
  /\ DOMAIN level.held = DOMAIN level.entryKey
  /\ DOMAIN level.ranges = 0 .. Threads
  /\ LastPhysical(level.ranges[Threads - 1]) < level.ranges[Threads].physical
  /\ level.size \in 0 .. WordSize - 1
  /\ stored \subseteq Key
  /\ aborted \in BOOLEAN

(***************************************************************************)
(* Wherever the index predicts a key to be, and whichever bracket it       *)
(* gives, FindNearPos_ and Find_ end at the one entry that holds the key,  *)
(* if the tree has it at all; and no entry holds a key that a search would *)
(* not find there.  Gaps behind the ranges and positions in other ranges   *)
(* must not mislead them.                                                  *)
(***************************************************************************)
SearchesAgree ==
  /\ \A key \in Key :
       LET home == Home(level, key)
       IN /\ \A pos \in NearPositions(level, key) : FindNearPos(level, key, pos) = home
          /\ \A b \in LearnBrackets(level, key) : Find(level, key, b[1], b[2]) = home
  /\ \A p \in DOMAIN level.held :
       level.held[p] = {k \in stored : p = Home(level, k)}

(***************************************************************************)
(* Find_ ends at the key's entry in the brackets that ALevel interpolates  *)
(* and that RMI_Index widens from any prediction.  RMI_Index's contain the *)
(* entry.  ALevel's last entry stands for the level's last even where more *)
(* entries have its cdf index, so its bracket may begin right behind the   *)
(* key's entry: Find_ then answers with begin - 1.                         *)
(***************************************************************************)
BracketsHold ==
  \A key \in Key :
    LET alevel == ALevelBracket(level, key)
        rmi    == {RMIBracket(level, key, p) : p \in 0 .. LastEntry(level)}
    IN /\ rmi \subseteq LearnBrackets(level, key)
       /\ alevel[1] - 1 <= LogicalHome(level, key) /\ LogicalHome(level, key) <= alevel[2]
       /\ \A b \in rmi \cup {alevel} : Find(level, key, b[1], b[2]) = Home(level, key)

(***************************************************************************)
(* An iterator from the start or from any key gives out exactly the stored *)
(* keys from there on, in order, across the gaps between the ranges and    *)
(* past the entries that have no key to give.                              *)
(***************************************************************************)
IterationInOrder ==
  /\ IterAll(level) = Ascending(stored)
  /\ \A key \in Key :
       LET from == Ascending({k \in stored : k >= key})
       IN \A b \in LearnBrackets(level, key) : IterFrom(level, key, b[1], b[2]) = from

(***************************************************************************)
(* Whatever Puts and Deletes did to the interval counters: if              *)
(* PrepareExpansion passes its assertion, every old entry is in the share  *)
(* of exactly one thread, no share is empty, and the shares are in the     *)
(* order of the start keys.                                                *)
(***************************************************************************)
SharesPartition ==
  RangesAllCut(level) =>
    /\ UNION {OldEntries(level, r) : r \in RangeNum} = Used(level)
    /\ \A r \in RangeNum :
         /\ OldEntries(level, r) # {}
         /\ r + 1 \in RangeNum =>
              Max(OldEntries(level, r)) < Min(OldEntries(level, r + 1))

(***************************************************************************)
(* What assert(cur_range == EXPAND_THREADS - 1) says in blevel.cc:350.     *)
(***************************************************************************)
NeverAborts == ~aborted
================================================================================
