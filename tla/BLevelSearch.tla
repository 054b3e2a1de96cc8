------------------------------ MODULE BLevelSearch ------------------------------
(***************************************************************************)
(* Where a key is in a B-level at rest (src/src/blevel.h and blevel.cc).   *)
(*                                                                         *)
(* The entries of a B-level lie in EXPAND_THREADS ranges.  Each range has  *)
(* room for more entries than it holds, so the entries are numbered twice: *)
(* by their place in the file (physical), with gaps behind each range, and *)
(* without the gaps (logical).  The index over the B-level predicts        *)
(* logical positions; the searches turn them into physical ones inside     *)
(* the range that ranges_ names for the key.                               *)
(*                                                                         *)
(* A level is a record lv of                                               *)
(*   entryKey   entry_key of each physical entry; 0, as the fresh file     *)
(*              has it, where no entry was built;                          *)
(*   held       the keys that each physical entry holds;                   *)
(*   ranges     ranges_[0 .. Threads]: the last one is the sentinel;       *)
(*   interval   interval_size_;                                            *)
(*   sizes      size_per_interval_[0 .. Threads - 1];                      *)
(*   size       size_.                                                     *)
(* Positions, ranges and intervals are numbered from 0 as in the code.     *)
(***************************************************************************)
EXTENDS Integers, FiniteSets, SequencesExt

CONSTANTS
  Threads,    (* EXPAND_THREADS: the ranges of a B-level.                  *)
  MaxKey      (* UINT64_MAX.                                               *)

ASSUME SearchAssumption ==
  /\ Threads \in Nat \ {0}
  /\ MaxKey \in Nat

Key      == 0 .. MaxKey
RangeNum == 0 .. Threads - 1

(* The members of S in order. *)
Ascending(S) ==
  [i \in 1 .. Cardinality(S) |-> CHOOSE k \in S : Cardinality({j \in S : j < k}) = i - 1]

(* FindBRangeByKey_ and FindBRange_: the last range that starts at or      *)
(* below the key, or the logical position.                                 *)
FindBRangeByKey(lv, key) == Max({r \in RangeNum : key >= lv.ranges[r].start})
FindBRange(lv, idx)      == Max({r \in RangeNum : idx >= lv.ranges[r].logical})

GetPhysical(range, idx) == range.physical + (idx - range.logical)
GetLogical(range, idx)  == range.logical + (idx - range.physical)

LastPhysical(range) == range.physical + range.entries - 1

Entries(lv) == lv.ranges[Threads].logical

EntryKey(lv, idx) == lv.entryKey[GetPhysical(lv.ranges[FindBRange(lv, idx)], idx)]

(* The physical positions in use, and the one whose keys include key: what *)
(* every search is to find.                                                *)
Used(lv) == UNION {lv.ranges[r].physical .. LastPhysical(lv.ranges[r]) : r \in RangeNum}

Home(lv, key) ==
  CHOOSE p \in Used(lv) :
    /\ lv.entryKey[p] <= key
    /\ \A q \in Used(lv) : lv.entryKey[q] <= key => q <= p

LogicalHome(lv, key) ==
  LET range == lv.ranges[FindBRangeByKey(lv, key)]
  IN GetLogical(range, Home(lv, key))

(***************************************************************************)
(* What the searches rely on: ranges follow one another, with or without a *)
(* gap, and every key is at or above the first one's start; entry keys     *)
(* ascend within a range; and no entry before a range, in use or not, has  *)
(* a key above the range's start.                                          *)
(***************************************************************************)
WellFormed(lv) ==
  /\ lv.entryKey \in [DOMAIN lv.entryKey -> Key]
  /\ \A r \in 0 .. Threads :
       lv.ranges[r].physical \in Nat /\ lv.ranges[r].logical \in 0 .. lv.ranges[r].physical
  /\ \A r \in RangeNum :
       LET range == lv.ranges[r]
       IN /\ range.entries \in Nat \ {0}
          /\ 0 .. LastPhysical(range) \subseteq DOMAIN lv.entryKey
          /\ range.start = lv.entryKey[range.physical]
          /\ lv.ranges[r + 1].logical = range.logical + range.entries
          /\ \A p \in 0 .. range.physical - 1 : lv.entryKey[p] <= range.start
          /\ \A p, q \in range.physical .. LastPhysical(range) :
               p < q => lv.entryKey[p] < lv.entryKey[q]
  /\ \A r, s \in RangeNum : r < s => LastPhysical(lv.ranges[r]) < lv.ranges[s].physical
  /\ lv.ranges[0].start = 0

(***************************************************************************)
(* FindNearPos_: from the predicted position up while the next entry still *)
(* starts at or below the key, else down.                                  *)
(***************************************************************************)
NearPosStart(lv, range, next, pos) ==
  IF pos < next.logical THEN GetPhysical(range, pos) ELSE LastPhysical(range)

(* Mutant: one step instead of a walk. *)
WalkUpOnce(lv, key, pos, last) ==
  IF pos < last /\ lv.entryKey[pos + 1] <= key THEN pos + 1 ELSE pos

WalkUp(lv, key, pos, last) ==
  Max({p \in pos .. last : \A q \in pos + 1 .. p : lv.entryKey[q] <= key})

WalkDown(lv, key, pos, first) ==
  IF pos <= first THEN pos
                  ELSE Max({first} \cup {p \in first .. pos : lv.entryKey[p] <= key})

FindNearPos(lv, key, pos) ==
  LET t     == FindBRangeByKey(lv, key)
      range == lv.ranges[t]
      start == NearPosStart(lv, range, lv.ranges[t + 1], pos)
  IN IF lv.entryKey[start] <= key
     THEN WalkUp(lv, key, start, LastPhysical(range))
     ELSE WalkDown(lv, key, start - 1, range.physical)

(***************************************************************************)
(* Find_ in the logical positions begin .. end: those of the key's range,  *)
(* halved once and then searched entry by entry.                           *)
(***************************************************************************)
FirstOf(lv, t, begin) ==
  IF begin >= lv.ranges[t].logical THEN GetPhysical(lv.ranges[t], begin)
                                   ELSE lv.ranges[t].physical

LastOf(lv, t, end) ==
  IF end < lv.ranges[t + 1].logical THEN GetPhysical(lv.ranges[t], end)
                                    ELSE LastPhysical(lv.ranges[t])

Find(lv, key, begin, end) ==
  LET t      == FindBRangeByKey(lv, key)
      left   == FirstOf(lv, t, begin)
      right  == LastOf(lv, t, end)
      middle == (left + right) \div 2
  IN IF lv.entryKey[middle] = key THEN middle
     ELSE IF lv.entryKey[middle] < key THEN WalkUp(lv, key, middle, right)
     ELSE Max({left - 1} \cup {p \in left .. middle - 1 : lv.entryKey[p] <= key})

(* BinarySearch_ between two physical positions. *)
Middle(bounds) == (bounds[1] + bounds[2]) \div 2

BinarySearch(lv, key, begin, end) ==
  LET bisect[bounds \in (begin .. end + 1) \X (begin - 1 .. end)] ==
        IF bounds[1] > bounds[2] THEN bounds[2]
        ELSE IF lv.entryKey[Middle(bounds)] = key THEN Middle(bounds)
        ELSE IF lv.entryKey[Middle(bounds)] < key THEN bisect[<<Middle(bounds) + 1, bounds[2]>>]
        ELSE bisect[<<bounds[1], Middle(bounds) - 1>>]
  IN bisect[<<begin, end>>]
================================================================================
