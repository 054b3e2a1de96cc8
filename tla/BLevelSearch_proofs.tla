-------------------------- MODULE BLevelSearch_proofs --------------------------
(***************************************************************************)
(* Searches, brackets and iterators in every level that the bulk load and  *)
(* the expansions build, whatever the number of its ranges and entries and *)
(* wherever the gaps lie: FindNearPos_ and Find_ end at the key's entry,   *)
(* from every prediction and bracket of Learn_Index, ALevel and RMI_Index, *)
(* and iterators give out the keys in order.  BLevelGenerations_proofs     *)
(* shows that levels are built like that from the bulk load on.            *)
(***************************************************************************)
EXTENDS BLevelIndex, BLevelIterators, TLAPS, WellFoundedInduction, FiniteSetTheorems, SequenceTheorems

(* A set of integers that has an upper bound has a greatest member, and    *)
(* Max picks it.                                                           *)
LEMMA MaxProperty ==
  ASSUME NEW S \in SUBSET Int, S # {}, NEW hi \in Int, \A x \in S : x <= hi
  PROVE  Max(S) \in S /\ \A y \in S : y <= Max(S)
<1> DEFINE lt == OpToRel(<, Nat)
<1>1. IsWellFoundedOn(lt, Nat)
  BY NatLessThanWellFounded, Zenon
<1> DEFINE T == {hi - x : x \in S}
<1>2. T \subseteq Nat /\ T # {}
  <2>1. \A x \in S : hi - x \in Nat
    <3> SUFFICES ASSUME NEW x \in S PROVE hi - x \in Nat
      OBVIOUS
    <3>1. x \in Int /\ x <= hi
      OBVIOUS
    <3>2. QED
      BY <3>1
  <2>2. QED
    BY <2>1, Zenon
<1>3. \E n \in T : \A m \in T : ~ (<<m, n>> \in lt)
  <2> HIDE DEF lt, T
  <2>1. QED
    BY <1>1, <1>2, WFMin
<1>4. PICK n \in T : \A m \in T : ~ (<<m, n>> \in lt)
  BY <1>3
<1>5. \A m \in T : n <= m
  <2> SUFFICES ASSUME NEW m \in T, m < n PROVE FALSE
    BY <1>2
  <2>1. m \in Nat /\ n \in Nat
    BY <1>2
  <2>2. <<m, n>> \in lt
    BY <2>1 DEF OpToRel
  <2>3. QED
    BY <2>2, <1>4
<1>6. PICK x \in S : n = hi - x
  OBVIOUS
<1>7. \A y \in S : x >= y
  <2> SUFFICES ASSUME NEW y \in S PROVE x >= y
    OBVIOUS
  <2>1. hi - y \in T
    OBVIOUS
  <2>2. n <= hi - y
    BY <2>1, <1>5
  <2>3. QED
    BY <2>2, <1>6
<1>8. QED
  BY <1>7 DEF Max

(* The greatest member, given one that no other exceeds. *)
LEMMA MaxIs ==
  ASSUME NEW S \in SUBSET Int, NEW x \in S, \A y \in S : y <= x
  PROVE  Max(S) = x
<1>1. S # {} /\ x \in Int
  OBVIOUS
<1>2. Max(S) \in S /\ \A y \in S : y <= Max(S)
  BY <1>1, MaxProperty
<1>3. Max(S) \in Int /\ Max(S) <= x /\ x <= Max(S)
  BY <1>2
<1>4. QED
  BY <1>1, <1>3

(* FindBRangeByKey_ names the range whose start is the last one at or      *)
(* below the key.                                                          *)
LEMMA RangeOfKey ==
  ASSUME NEW lv, WellFormed(lv), NEW key \in Key
  PROVE  LET t == FindBRangeByKey(lv, key)
         IN /\ t \in RangeNum
            /\ lv.ranges[t].start <= key
            /\ \A s \in RangeNum : lv.ranges[s].start <= key => s <= t
<1> DEFINE R == {r \in RangeNum : key >= lv.ranges[r].start}
<1>1. R \subseteq Int /\ \A r \in R : r <= Threads
  BY SearchAssumption DEF RangeNum
<1>2. 0 \in R
  BY SearchAssumption DEF RangeNum, WellFormed, Key
<1>3. Max(R) \in R /\ \A r \in R : r <= Max(R)
  <2> HIDE DEF R
  <2>1. QED
    BY <1>1, <1>2, MaxProperty, SearchAssumption
<1>4. Max(R) = FindBRangeByKey(lv, key)
  BY DEF FindBRangeByKey
<1>5. \A r \in RangeNum : lv.ranges[r].start \in Int
  <2> SUFFICES ASSUME NEW r \in RangeNum PROVE lv.ranges[r].start \in Int
    OBVIOUS
  <2>1. r \in 0 .. Threads
    BY SearchAssumption DEF RangeNum
  <2>2. lv.ranges[r].physical \in Nat
    BY <2>1 DEF WellFormed
  <2>3. /\ lv.ranges[r].entries \in Nat \ {0}
        /\ 0 .. LastPhysical(lv.ranges[r]) \subseteq DOMAIN lv.entryKey
        /\ lv.ranges[r].start = lv.entryKey[lv.ranges[r].physical]
    BY DEF WellFormed
  <2>4. lv.ranges[r].physical \in DOMAIN lv.entryKey
    BY <2>2, <2>3 DEF LastPhysical
  <2>5. QED
    BY <2>3, <2>4 DEF WellFormed, Key
<1>6. QED
  BY <1>3, <1>4, <1>5

(* What range t of the key looks like: the facts of WellFormed about it.   *)
Bounds(lv, key, first, last) ==
  /\ first \in Nat /\ last \in Nat /\ first <= last
  /\ \A p \in 0 .. last : lv.entryKey[p] \in Int
  /\ lv.entryKey[first] <= key
  /\ \A p \in 0 .. first - 1 : lv.entryKey[p] <= key
  /\ \A p, q \in first .. last : p < q => lv.entryKey[p] < lv.entryKey[q]

LEMMA RangeBounds ==
  ASSUME NEW lv, WellFormed(lv), NEW key \in Key
  PROVE  LET range == lv.ranges[FindBRangeByKey(lv, key)]
         IN Bounds(lv, key, range.physical, LastPhysical(range))
<1> DEFINE t == FindBRangeByKey(lv, key)
           range == lv.ranges[t]
<1>1. t \in RangeNum /\ range.start <= key
  BY RangeOfKey
<1> HIDE DEF t
<1>2. t \in 0 .. Threads
  BY <1>1, SearchAssumption DEF RangeNum
<1>3. range.physical \in Nat
  BY <1>2 DEF WellFormed
<1>4. /\ range.entries \in Nat \ {0}
      /\ 0 .. LastPhysical(range) \subseteq DOMAIN lv.entryKey
      /\ range.start = lv.entryKey[range.physical]
      /\ \A p \in 0 .. range.physical - 1 : lv.entryKey[p] <= range.start
      /\ \A p, q \in range.physical .. LastPhysical(range) :
           p < q => lv.entryKey[p] < lv.entryKey[q]
  BY <1>1 DEF WellFormed
<1>5. LastPhysical(range) \in Nat /\ range.physical <= LastPhysical(range)
  BY <1>3, <1>4 DEF LastPhysical
<1>6. \A p \in 0 .. LastPhysical(range) : lv.entryKey[p] \in Int
  BY <1>4 DEF WellFormed, Key
<1>7. key \in Int
  BY DEF Key
<1>8. \A p \in 0 .. range.physical - 1 : lv.entryKey[p] <= key
  <2> SUFFICES ASSUME NEW p \in 0 .. range.physical - 1 PROVE lv.entryKey[p] <= key
    OBVIOUS
  <2>1. lv.entryKey[p] \in Int /\ lv.entryKey[range.physical] \in Int
    BY <1>3, <1>5, <1>6
  <2>2. lv.entryKey[p] <= range.start
    BY <1>4
  <2>3. QED
    BY <2>1, <2>2, <1>1, <1>4, <1>7
<1>9. QED
  BY <1>1, <1>3, <1>4, <1>5, <1>6, <1>8 DEF Bounds, t

(* The entry that the searches are to find is in the key's range, and is   *)
(* the only one there whose key is the last at or below the key.           *)
LEMMA HomeInRange ==
  ASSUME NEW lv, WellFormed(lv), NEW key \in Key
  PROVE  LET range == lv.ranges[FindBRangeByKey(lv, key)]
             home  == Home(lv, key)
         IN /\ home \in range.physical .. LastPhysical(range)
            /\ lv.entryKey[home] <= key
            /\ \A p \in home + 1 .. LastPhysical(range) : lv.entryKey[p] > key
            /\ home \in Used(lv)
            /\ \A q \in Used(lv) : lv.entryKey[q] <= key => q <= home
<1> DEFINE t     == FindBRangeByKey(lv, key)
           first == lv.ranges[t].physical
           last  == LastPhysical(lv.ranges[t])
           S     == {p \in first .. last : lv.entryKey[p] <= key}
           IsHome(h) == /\ h \in Used(lv)
                        /\ lv.entryKey[h] <= key
                        /\ \A q \in Used(lv) : lv.entryKey[q] <= key => q <= h
<1>1. t \in RangeNum /\ \A s \in RangeNum : lv.ranges[s].start <= key => s <= t
  BY RangeOfKey
<1>2. Bounds(lv, key, first, last)
  BY RangeBounds
<1> HIDE DEF t
<1>3. first .. last \subseteq Used(lv)
  BY <1>1 DEF Used
<1>4. \A q \in Used(lv) : lv.entryKey[q] <= key => q \in Int /\ q <= last
  <2> SUFFICES ASSUME NEW q \in Used(lv), lv.entryKey[q] <= key
               PROVE  q \in Int /\ q <= last
    OBVIOUS
  <2>1. PICK s \in RangeNum : q \in lv.ranges[s].physical .. LastPhysical(lv.ranges[s])
    BY DEF Used
  <2>2. s \in 0 .. Threads /\ s \in Int /\ t \in Int
    BY <1>1, SearchAssumption DEF RangeNum
  <2>3. lv.ranges[s].physical \in Nat
    BY <2>2 DEF WellFormed
  <2>4. /\ lv.ranges[s].entries \in Nat \ {0}
        /\ 0 .. LastPhysical(lv.ranges[s]) \subseteq DOMAIN lv.entryKey
        /\ lv.ranges[s].start = lv.entryKey[lv.ranges[s].physical]
        /\ \A a, b \in lv.ranges[s].physical .. LastPhysical(lv.ranges[s]) :
             a < b => lv.entryKey[a] < lv.entryKey[b]
    BY <2>1 DEF WellFormed
  <2>5. LastPhysical(lv.ranges[s]) \in Nat /\ q \in Nat
    BY <2>1, <2>3, <2>4 DEF LastPhysical
  <2>6. lv.ranges[s].physical \in lv.ranges[s].physical .. LastPhysical(lv.ranges[s])
    BY <2>1, <2>3, <2>5
  <2>7. lv.entryKey[lv.ranges[s].physical] \in Int /\ lv.entryKey[q] \in Int /\ key \in Int
    BY <2>1, <2>3, <2>4, <2>5 DEF WellFormed, Key
  <2>8. lv.entryKey[lv.ranges[s].physical] <= lv.entryKey[q]
    <3>1. CASE q = lv.ranges[s].physical
      BY <3>1, <2>7
    <3>2. CASE lv.ranges[s].physical < q
      BY <3>2, <2>1, <2>4, <2>6, <2>7
    <3>3. QED
      BY <3>1, <3>2, <2>1, <2>3, <2>5
  <2>9. s <= t
    BY <2>4, <2>7, <2>8, <1>1
  <2>10. CASE s = t
    BY <2>10, <2>1, <2>5
  <2>11. CASE s < t
    <3>1. LastPhysical(lv.ranges[s]) < first
      BY <2>11, <1>1 DEF WellFormed
    <3>2. QED
      BY <3>1, <2>1, <2>3, <2>5, <1>2 DEF Bounds
  <2>12. QED
    BY <2>2, <2>9, <2>10, <2>11
<1>5. S \subseteq Int /\ first \in S /\ \A p \in S : p <= last
  BY <1>2 DEF Bounds
<1>6. Max(S) \in S /\ \A p \in S : p <= Max(S)
  <2> HIDE DEF S
  <2>1. last \in Int
    BY <1>2 DEF Bounds
  <2>2. QED
    BY <1>5, <2>1, MaxProperty
<1>7. IsHome(Max(S))
  <2>1. Max(S) \in Used(lv) /\ lv.entryKey[Max(S)] <= key
    BY <1>3, <1>6
  <2>2. ASSUME NEW q \in Used(lv), lv.entryKey[q] <= key PROVE q <= Max(S)
    <3>1. q \in Int /\ q <= last
      BY <2>2, <1>4
    <3>2. Max(S) \in Int /\ first <= Max(S) /\ first \in Int
      BY <1>5, <1>6
    <3>3. CASE q < first
      BY <3>1, <3>2, <3>3
    <3>4. CASE first <= q
      BY <3>1, <3>2, <3>4, <2>2, <1>6
    <3>5. QED
      BY <3>1, <3>2, <3>3, <3>4
  <2>3. QED
    BY <2>1, <2>2
<1>8. Home(lv, key) = CHOOSE p \in Used(lv) : /\ lv.entryKey[p] <= key
                                              /\ \A q \in Used(lv) : lv.entryKey[q] <= key => q <= p
  BY DEF Home
<1>9. IsHome(Home(lv, key))
  BY <1>7, <1>8
<1>10. Home(lv, key) = Max(S)
  <2>1. Home(lv, key) \in Int /\ Max(S) \in Int
    BY <1>4, <1>5, <1>6, <1>9
  <2>2. Home(lv, key) <= Max(S) /\ Max(S) <= Home(lv, key)
    BY <1>7, <1>9
  <2>3. QED
    BY <2>1, <2>2
<1>11. \A p \in Max(S) + 1 .. last : lv.entryKey[p] > key
  <2> SUFFICES ASSUME NEW p \in Max(S) + 1 .. last PROVE lv.entryKey[p] > key
    OBVIOUS
  <2>1. Max(S) \in Int /\ first <= Max(S) /\ first \in Nat /\ last \in Nat
    BY <1>2, <1>5, <1>6 DEF Bounds
  <2>2. p \in first .. last /\ p \in 0 .. last /\ ~ (p <= Max(S))
    BY <2>1
  <2>3. ~ (lv.entryKey[p] <= key)
    BY <2>2, <1>6
  <2>4. lv.entryKey[p] \in Int /\ key \in Int
    BY <2>2, <1>2 DEF Bounds, Key
  <2>5. QED
    BY <2>3, <2>4
<1>12. Max(S) \in first .. last /\ lv.entryKey[Max(S)] <= key
  BY <1>6
<1>13. QED
  BY <1>9, <1>10, <1>11, <1>12 DEF t

(* Entry h is where the search for the key is to end, in a range from      *)
(* first to last: the entries up to h, gaps included, are at or below the  *)
(* key, and those behind it are above.                                     *)
Parted(lv, key, first, last, h) ==
  /\ first \in Nat /\ last \in Nat /\ h \in first .. last
  /\ \A p \in 0 .. last : lv.entryKey[p] \in Int
  /\ \A p \in 0 .. h : lv.entryKey[p] <= key
  /\ \A p \in h + 1 .. last : lv.entryKey[p] > key

LEMMA HomeParts ==
  ASSUME NEW lv, WellFormed(lv), NEW key \in Key
  PROVE  LET range == lv.ranges[FindBRangeByKey(lv, key)]
         IN Parted(lv, key, range.physical, LastPhysical(range), Home(lv, key))
<1> DEFINE first == lv.ranges[FindBRangeByKey(lv, key)].physical
           last  == LastPhysical(lv.ranges[FindBRangeByKey(lv, key)])
           h     == Home(lv, key)
<1>1. Bounds(lv, key, first, last)
  BY RangeBounds
<1>2. /\ h \in first .. last
      /\ lv.entryKey[h] <= key
      /\ \A p \in h + 1 .. last : lv.entryKey[p] > key
  BY HomeInRange
<1> HIDE DEF first, last, h
<1>3. \A p \in 0 .. h : lv.entryKey[p] <= key
  <2> SUFFICES ASSUME NEW p \in 0 .. h PROVE lv.entryKey[p] <= key
    OBVIOUS
  <2>1. first \in Nat /\ last \in Nat /\ h \in Int /\ first <= h /\ h <= last /\ key \in Int
    BY <1>1, <1>2 DEF Bounds, Key
  <2>2. lv.entryKey[p] \in Int /\ lv.entryKey[h] \in Int
    BY <1>1, <2>1 DEF Bounds
  <2>3. CASE p < first
    BY <2>1, <2>3, <1>1 DEF Bounds
  <2>4. CASE first <= p /\ p < h
    <3>1. lv.entryKey[p] < lv.entryKey[h]
      BY <2>1, <2>4, <1>1 DEF Bounds
    <3>2. QED
      BY <3>1, <2>1, <2>2, <1>2
  <2>5. CASE p = h
    BY <2>5, <1>2
  <2>6. QED
    BY <2>1, <2>3, <2>4, <2>5
<1>4. QED
  BY <1>1, <1>2, <1>3 DEF Parted, Bounds, first, last, h

(* A walk up that begins at or before h, a gap on its way or not, ends     *)
(* there.                                                                  *)
LEMMA WalkUpEnds ==
  ASSUME NEW lv, NEW key \in Key, NEW first, NEW last, NEW h,
         Parted(lv, key, first, last, h),
         NEW pos \in 0 .. h, NEW right \in h .. last
  PROVE  WalkUp(lv, key, pos, right) = h
<1> DEFINE S == {p \in pos .. right : \A q \in pos + 1 .. p : lv.entryKey[q] <= key}
<1>1. first \in Nat /\ last \in Nat /\ h \in Nat /\ pos \in Nat /\ right \in Nat /\ key \in Nat
  BY DEF Parted, Key
<1>2. S \in SUBSET Int
  BY <1>1
<1>3. h \in S
  <2>1. h \in pos .. right
    BY <1>1
  <2>2. \A q \in pos + 1 .. h : lv.entryKey[q] <= key
    BY <1>1 DEF Parted
  <2>3. QED
    BY <2>1, <2>2
<1>4. \A p \in S : p <= h
  <2> SUFFICES ASSUME NEW p \in S, h < p PROVE FALSE
    BY <1>1, <1>2
  <2>1. p \in Int /\ h + 1 \in pos + 1 .. p /\ h + 1 \in h + 1 .. last /\ h + 1 \in 0 .. last
    BY <1>1
  <2>2. lv.entryKey[h + 1] <= key
    BY <2>1
  <2>3. lv.entryKey[h + 1] > key /\ lv.entryKey[h + 1] \in Int
    BY <2>1 DEF Parted
  <2>4. QED
    BY <2>2, <2>3, <1>1
<1>5. Max(S) = h
  <2> HIDE DEF S
  <2>1. QED
    BY <1>2, <1>3, <1>4, MaxIs
<1>6. QED
  BY <1>5 DEF WalkUp

(* The entries at or below the key among those from left to right, where h *)
(* is one of them, reach up to h.                                          *)
LEMMA LastBelow ==
  ASSUME NEW lv, NEW key \in Key, NEW first, NEW last, NEW h,
         Parted(lv, key, first, last, h),
         NEW left \in Nat, left <= h, NEW right \in h .. last, NEW other \in Int, other <= h,
         NEW S, S = {other} \cup {p \in left .. right : lv.entryKey[p] <= key}
  PROVE  Max(S) = h
<1>1. first \in Nat /\ last \in Nat /\ h \in Nat /\ right \in Nat /\ key \in Nat
  BY DEF Parted, Key
<1>2. S \in SUBSET Int
  BY <1>1
<1>3. h \in S
  BY <1>1 DEF Parted
<1>4. \A p \in S : p <= h
  <2> SUFFICES ASSUME NEW p \in S, h < p PROVE FALSE
    BY <1>1, <1>2
  <2>1. p \in left .. right /\ lv.entryKey[p] <= key
    BY <1>1
  <2>2. p \in h + 1 .. last /\ p \in 0 .. last
    BY <2>1, <1>1
  <2>3. lv.entryKey[p] > key /\ lv.entryKey[p] \in Int
    BY <2>2 DEF Parted
  <2>4. QED
    BY <2>1, <2>3, <1>1
<1>5. QED
  BY <1>2, <1>3, <1>4, MaxIs

(* The range behind the key's range, in logical positions.                 *)
LEMMA NextRange ==
  ASSUME NEW lv, WellFormed(lv), NEW key \in Key
  PROVE  LET t     == FindBRangeByKey(lv, key)
             range == lv.ranges[t]
         IN /\ range.logical \in Nat /\ range.entries \in Nat /\ range.physical \in Nat
            /\ range.logical <= range.physical
            /\ lv.ranges[t + 1].logical = range.logical + range.entries
            /\ LastPhysical(range) = range.physical + range.entries - 1
<1>1. FindBRangeByKey(lv, key) \in RangeNum
  BY RangeOfKey
<1>2. FindBRangeByKey(lv, key) \in 0 .. Threads
  BY <1>1, SearchAssumption DEF RangeNum
<1>3. /\ lv.ranges[FindBRangeByKey(lv, key)].physical \in Nat
      /\ lv.ranges[FindBRangeByKey(lv, key)].logical \in 0 .. lv.ranges[FindBRangeByKey(lv, key)].physical
  BY <1>2 DEF WellFormed
<1>4. /\ lv.ranges[FindBRangeByKey(lv, key)].entries \in Nat \ {0}
      /\ lv.ranges[FindBRangeByKey(lv, key) + 1].logical
           = lv.ranges[FindBRangeByKey(lv, key)].logical + lv.ranges[FindBRangeByKey(lv, key)].entries
  BY <1>1 DEF WellFormed
<1>5. QED
  BY <1>3, <1>4 DEF LastPhysical

(***************************************************************************)
(* FindNearPos_ ends at the key's entry from every predicted position, of  *)
(* the key's range, of another one, or beyond the last: also when the walk *)
(* begins in the gap before the key's range (blevel.cc:714).               *)
(***************************************************************************)
THEOREM FindNearPosFindsHome ==
  ASSUME NEW lv, WellFormed(lv), NEW key \in Key, NEW pos \in Nat
  PROVE  FindNearPos(lv, key, pos) = Home(lv, key)
<1> DEFINE t     == FindBRangeByKey(lv, key)
           range == lv.ranges[t]
           first == range.physical
           last  == LastPhysical(range)
           h     == Home(lv, key)
           start == NearPosStart(lv, range, lv.ranges[t + 1], pos)
<1>1. Parted(lv, key, first, last, h)
  BY HomeParts
<1>2. /\ range.logical \in Nat /\ range.entries \in Nat /\ first \in Nat
      /\ range.logical <= first
      /\ lv.ranges[t + 1].logical = range.logical + range.entries
      /\ last = first + range.entries - 1
  BY NextRange
<1>3. FindNearPos(lv, key, pos) =
        IF lv.entryKey[start] <= key
        THEN WalkUp(lv, key, start, last) ELSE WalkDown(lv, key, start - 1, first)
  BY DEF FindNearPos
<1> HIDE DEF t, h
<1>4. start \in 0 .. last
  <2>1. last \in Nat
    BY <1>1 DEF Parted
  <2>2. CASE pos < lv.ranges[t + 1].logical
    <3>1. start = first + (pos - range.logical)
      BY <2>2 DEF NearPosStart, GetPhysical
    <3>2. QED
      BY <3>1, <2>1, <2>2, <1>2
  <2>3. CASE ~ (pos < lv.ranges[t + 1].logical)
    BY <2>1, <2>3 DEF NearPosStart
  <2>4. QED
    BY <2>2, <2>3
<1> HIDE DEF start, last, first
<1>5. /\ first \in Nat /\ last \in Nat /\ h \in Nat /\ first <= h /\ h <= last
      /\ start \in Nat /\ lv.entryKey[start] \in Int /\ key \in Nat
  BY <1>1, <1>4 DEF Parted, Key
<1>6. CASE lv.entryKey[start] <= key
  <2>1. start \in 0 .. h
    <3> SUFFICES ASSUME h < start PROVE FALSE
      BY <1>4, <1>5
    <3>1. start \in h + 1 .. last
      BY <1>4, <1>5
    <3>2. lv.entryKey[start] > key
      BY <3>1, <1>1 DEF Parted
    <3>3. QED
      BY <3>2, <1>5, <1>6
  <2>2. last \in h .. last
    BY <1>5
  <2>3. WalkUp(lv, key, start, last) = h
    BY <1>1, <2>1, <2>2, WalkUpEnds
  <2>4. QED
    BY <2>3, <1>3, <1>6 DEF h
<1>7. CASE ~ (lv.entryKey[start] <= key)
  <2>1. h < start
    <3> SUFFICES ASSUME start <= h PROVE FALSE
      BY <1>5
    <3>1. start \in 0 .. h
      BY <1>5
    <3>2. QED
      BY <3>1, <1>1, <1>7 DEF Parted
  <2>2. start - 1 \in h .. last /\ first <= start - 1
    BY <2>1, <1>4, <1>5
  <2>3. CASE start - 1 <= first
    <3>1. WalkDown(lv, key, start - 1, first) = start - 1
      BY <2>3 DEF WalkDown
    <3>2. start - 1 = h
      BY <2>2, <2>3, <1>5
    <3>3. QED
      BY <3>1, <3>2, <1>3, <1>7 DEF h
  <2>4. CASE ~ (start - 1 <= first)
    <3> DEFINE S == {first} \cup {p \in first .. start - 1 : lv.entryKey[p] <= key}
    <3>1. WalkDown(lv, key, start - 1, first) = Max(S)
      BY <2>4 DEF WalkDown
    <3>2. h \in S /\ S \in SUBSET Int
      BY <1>1, <1>5, <2>2 DEF Parted
    <3>3. \A p \in S : p <= h
      <4> SUFFICES ASSUME NEW p \in first .. start - 1, lv.entryKey[p] <= key, h < p
                   PROVE  FALSE
        BY <1>5
      <4>1. p \in h + 1 .. last /\ p \in 0 .. last
        BY <1>5, <2>2
      <4>2. lv.entryKey[p] > key /\ lv.entryKey[p] \in Int
        BY <4>1, <1>1 DEF Parted
      <4>3. QED
        BY <4>2, <1>5
    <3> HIDE DEF S
    <3>4. Max(S) = h
      BY <3>2, <3>3, MaxIs
    <3>5. QED
      BY <3>1, <3>4, <1>3, <1>7 DEF h
  <2>5. QED
    BY <2>3, <2>4
<1>8. QED
  BY <1>6, <1>7 DEF h

(***************************************************************************)
(* Find_ ends at the key's entry from every bracket of logical positions   *)
(* that holds it, however far the bracket reaches into other ranges        *)
(* (blevel.cc:577).                                                        *)
(***************************************************************************)
THEOREM FindFindsHome ==
  ASSUME NEW lv, WellFormed(lv), NEW key \in Key, NEW begin \in Nat, NEW end \in Nat,
         begin <= LogicalHome(lv, key), LogicalHome(lv, key) <= end
  PROVE  Find(lv, key, begin, end) = Home(lv, key)
<1> DEFINE t      == FindBRangeByKey(lv, key)
           range  == lv.ranges[t]
           first  == range.physical
           last   == LastPhysical(range)
           h      == Home(lv, key)
           left   == FirstOf(lv, t, begin)
           right  == LastOf(lv, t, end)
           middle == (left + right) \div 2
<1>1. Parted(lv, key, first, last, h)
  BY HomeParts
<1>2. /\ range.logical \in Nat /\ range.entries \in Nat /\ first \in Nat
      /\ range.logical <= first
      /\ lv.ranges[t + 1].logical = range.logical + range.entries
      /\ last = first + range.entries - 1
  BY NextRange
<1>3. LogicalHome(lv, key) = range.logical + (h - first)
  BY DEF LogicalHome, GetLogical
<1>4. Find(lv, key, begin, end) =
        IF lv.entryKey[middle] = key THEN middle
        ELSE IF lv.entryKey[middle] < key THEN WalkUp(lv, key, middle, right)
        ELSE Max({left - 1} \cup {p \in left .. middle - 1 : lv.entryKey[p] <= key})
  BY DEF Find
<1>5. Bounds(lv, key, first, last)
  BY RangeBounds
<1> HIDE DEF t, h
<1>6. /\ first \in Nat /\ last \in Nat /\ h \in Nat /\ first <= h /\ h <= last /\ key \in Nat
  BY <1>1 DEF Parted, Key
<1>7. left \in first .. h
  <2>1. CASE begin >= range.logical
    <3>1. left = first + (begin - range.logical)
      BY <2>1 DEF FirstOf, GetPhysical
    <3>2. QED
      BY <3>1, <2>1, <1>2, <1>3, <1>6
  <2>2. CASE ~ (begin >= range.logical)
    <3>1. left = first
      BY <2>2 DEF FirstOf
    <3>2. QED
      BY <3>1, <1>6
  <2>3. QED
    BY <2>1, <2>2
<1>8. right \in h .. last
  <2>1. CASE end < lv.ranges[t + 1].logical
    <3>1. right = first + (end - range.logical)
      BY <2>1 DEF LastOf, GetPhysical
    <3>2. QED
      BY <3>1, <2>1, <1>2, <1>3, <1>6
  <2>2. CASE ~ (end < lv.ranges[t + 1].logical)
    <3>1. right = last
      BY <2>2 DEF LastOf
    <3>2. QED
      BY <3>1, <1>6
  <2>3. QED
    BY <2>1, <2>2
<1> HIDE DEF left, right, last
<1>9. middle \in left .. right /\ left \in Nat /\ right \in Nat
  BY <1>6, <1>7, <1>8
<1>10. middle \in first .. last /\ middle \in 0 .. last /\ middle \in Nat
  BY <1>6, <1>7, <1>8, <1>9
<1> HIDE DEF middle
<1>11. lv.entryKey[middle] \in Int
  BY <1>1, <1>10 DEF Parted
<1>12. CASE lv.entryKey[middle] <= key
  <2>1. middle \in 0 .. h
    <3> SUFFICES ASSUME h < middle PROVE FALSE
      BY <1>6, <1>10
    <3>1. middle \in h + 1 .. last
      BY <1>6, <1>10
    <3>2. lv.entryKey[middle] > key
      BY <3>1, <1>1 DEF Parted
    <3>3. QED
      BY <3>2, <1>6, <1>11, <1>12
  <2>2. CASE lv.entryKey[middle] = key
    <3>1. ~ (middle < h)
      <4> SUFFICES ASSUME middle < h PROVE FALSE
        OBVIOUS
      <4>1. h \in first .. last /\ h \in 0 .. h
        BY <1>6
      <4>2. lv.entryKey[middle] < lv.entryKey[h]
        BY <1>5, <1>10, <4>1 DEF Bounds
      <4>3. lv.entryKey[h] <= key /\ lv.entryKey[h] \in Int
        BY <1>1, <1>6, <4>1 DEF Parted
      <4>4. QED
        BY <4>2, <4>3, <2>2, <1>6, <1>11
    <3>2. middle = h
      BY <3>1, <2>1, <1>6
    <3>3. QED
      BY <3>2, <2>2, <1>4 DEF h
  <2>3. CASE lv.entryKey[middle] # key
    <3>1. WalkUp(lv, key, middle, right) = h
      BY <1>1, <1>8, <2>1, WalkUpEnds
    <3>2. lv.entryKey[middle] < key
      BY <2>3, <1>6, <1>11, <1>12
    <3>3. QED
      BY <3>1, <3>2, <2>3, <1>4 DEF h
  <2>4. QED
    BY <2>2, <2>3
<1>13. CASE ~ (lv.entryKey[middle] <= key)
  <2>1. h < middle
    <3> SUFFICES ASSUME middle <= h PROVE FALSE
      BY <1>6, <1>10
    <3>1. middle \in 0 .. h
      BY <1>6, <1>10
    <3>2. QED
      BY <3>1, <1>1, <1>13 DEF Parted
  <2>2. middle - 1 \in h .. last /\ left - 1 \in Int /\ left - 1 <= h /\ left <= h
    BY <2>1, <1>6, <1>7, <1>9, <1>10
  <2> DEFINE S == {left - 1} \cup {p \in left .. middle - 1 : lv.entryKey[p] <= key}
  <2>3. Max(S) = h
    <3>1. S = {left - 1} \cup {p \in left .. middle - 1 : lv.entryKey[p] <= key}
      OBVIOUS
    <3> HIDE DEF S
    <3>2. QED
      BY <1>1, <1>9, <2>2, <3>1, LastBelow
  <2>4. lv.entryKey[middle] # key /\ ~ (lv.entryKey[middle] < key)
    BY <1>6, <1>11, <1>13
  <2>5. QED
    BY <2>3, <2>4, <1>4 DEF h
<1>14. QED
  BY <1>12, <1>13

-----------------------------------------------------------------------------
(* Least and greatest members. *)
LEMMA Least ==
  ASSUME NEW T \in SUBSET Nat, T # {}
  PROVE  \E n \in T : \A m \in T : n <= m
<1> DEFINE lt == OpToRel(<, Nat)
<1>1. IsWellFoundedOn(lt, Nat)
  BY NatLessThanWellFounded, Zenon
<1>2. \E n \in T : \A m \in T : ~ (<<m, n>> \in lt)
  <2> HIDE DEF lt
  <2>1. QED
    BY <1>1, WFMin
<1>3. PICK n \in T : \A m \in T : ~ (<<m, n>> \in lt)
  BY <1>2
<1>4. ASSUME NEW m \in T PROVE n <= m
  <2>1. m \in Nat /\ n \in Nat
    OBVIOUS
  <2>2. CASE m < n
    <3>1. <<m, n>> \in lt
      BY <2>1, <2>2 DEF OpToRel
    <3>2. QED
      BY <3>1, <1>3
  <2>3. CASE ~ m < n
    BY <2>1, <2>3
  <2>4. QED
    BY <2>2, <2>3
<1>5. QED
  BY <1>4

(* The operator Min on a set of integers with a lower bound: FiniteSetsExt *)
(* defines it by a choice.                                                 *)
LEMMA MinProperty ==
  ASSUME NEW S \in SUBSET Int, S # {}, NEW lo \in Int, \A x \in S : lo <= x
  PROVE  Min(S) \in S /\ \A y \in S : Min(S) <= y
<1> DEFINE T == {x - lo : x \in S}
<1>1. T \subseteq Nat /\ T # {}
  <2>1. \A x \in S : x - lo \in Nat
    <3>1. ASSUME NEW x \in S PROVE x - lo \in Nat
      <4>1. x \in Int /\ lo <= x
        OBVIOUS
      <4>2. QED
        BY <4>1
    <3>2. QED
      BY <3>1
  <2>2. QED
    BY <2>1, Zenon
<1>2. \E n \in T : \A m \in T : n <= m
  <2> HIDE DEF T
  <2>1. QED
    BY <1>1, Least
<1>3. PICK x \in S : \A m \in T : x - lo <= m
  BY <1>2
<1>4. ASSUME NEW y \in S PROVE x <= y
  <2>1. x - lo <= y - lo
    BY <1>3
  <2>2. x \in Int /\ y \in Int
    OBVIOUS
  <2>3. QED
    BY <2>1, <2>2
<1>5. QED
  BY <1>4 DEF Min

(* A member that no other is below is the least one. *)
LEMMA MinIs ==
  ASSUME NEW S \in SUBSET Int, NEW x \in S, \A y \in S : x <= y
  PROVE  Min(S) = x
<1>1. Min(S) \in S /\ \A y \in S : Min(S) <= y
  BY DEF Min
<1>2. Min(S) \in Int /\ x \in Int /\ Min(S) <= x /\ x <= Min(S)
  BY <1>1
<1>3. QED
  BY <1>2

(* Induction up to n: what 0 has and each number hands on, all have.       *)
LEMMA Induct ==
  ASSUME NEW n \in Nat, NEW G, 0 \in G, \A i \in 0 .. n - 1 : i \in G => i + 1 \in G
  PROVE  \A i \in 0 .. n : i \in G
<1> DEFINE Bad == {i \in 0 .. n : i \notin G}
<1>1. SUFFICES ASSUME Bad # {} PROVE FALSE
  OBVIOUS
<1>2. PICK i \in Bad : \A j \in Bad : i <= j
  <2>1. Bad \in SUBSET Nat
    OBVIOUS
  <2> HIDE DEF Bad
  <2>2. QED
    BY <1>1, <2>1, Least
<1>3. i \in 0 .. n /\ i \notin G /\ i # 0
  OBVIOUS
<1>4. i - 1 \in 0 .. n - 1 /\ i - 1 \in 0 .. n /\ ~ (i <= i - 1) /\ (i - 1) + 1 = i
  BY <1>3
<1>5. i - 1 \in G
  BY <1>2, <1>4
<1>6. QED
  BY <1>3, <1>4, <1>5

(* A function of turns, each of which makes a member of S of the turn      *)
(* before.                                                                 *)
Turns(f, n, S, c, F) ==
  /\ f \in [0 .. n -> S]
  /\ f[0] = c
  /\ \A i \in 1 .. n : f[i] = F[<<f[i - 1], i>>]

(* Such a function exists, whatever a turn F makes of the member before it *)
(* and of its number.                                                      *)
LEMMA TurnsExist ==
  ASSUME NEW n \in Nat, NEW S, NEW c \in S, NEW F \in [S \X (1 .. n) -> S]
  PROVE  \E f : Turns(f, n, S, c, F)
<1> DEFINE Fits(f, m) == f[0] = c /\ \A i \in 1 .. m : f[i] = F[<<f[i - 1], i>>]
           G == {m \in 0 .. n : \E f \in [0 .. n -> S] : Fits(f, m)}
<1>1. 0 \in G
  <2>1. Fits([i \in 0 .. n |-> c], 0)
    OBVIOUS
  <2>2. [i \in 0 .. n |-> c] \in [0 .. n -> S]
    OBVIOUS
  <2> HIDE DEF Fits
  <2>3. QED
    BY <2>1, <2>2
<1>2. ASSUME NEW m \in 0 .. n - 1, m \in G PROVE m + 1 \in G
  <2>1. PICK f \in [0 .. n -> S] : Fits(f, m)
    BY <1>2
  <2> DEFINE g == [i \in 0 .. n |-> IF i = m + 1 THEN F[<<f[m], m + 1>>] ELSE f[i]]
  <2>2. m \in Nat /\ m + 1 \in 1 .. n /\ m \in 0 .. n /\ m + 1 \in 0 .. n /\ m # m + 1 /\ 0 # m + 1
    OBVIOUS
  <2>3. f[m] \in S /\ F[<<f[m], m + 1>>] \in S
    BY <2>2
  <2>4. g \in [0 .. n -> S]
    BY <2>3
  <2>5. g[0] = c
    BY <2>1, <2>2
  <2>6. ASSUME NEW i \in 1 .. m + 1 PROVE g[i] = F[<<g[i - 1], i>>]
    <3>1. i \in Nat /\ i \in 0 .. n /\ i - 1 \in 0 .. n /\ i - 1 # m + 1
      BY <2>2
    <3>2. g[i - 1] = f[i - 1]
      BY <3>1
    <3>3. CASE i = m + 1
      <4>1. g[i] = F[<<f[m], m + 1>>] /\ i - 1 = m
        BY <2>2, <3>1, <3>3
      <4>2. QED
        BY <3>2, <3>3, <4>1
    <3>4. CASE i # m + 1
      <4>1. g[i] = f[i] /\ i \in 1 .. m
        BY <2>2, <3>1, <3>4
      <4>2. QED
        BY <2>1, <3>2, <4>1
    <3>5. QED
      BY <3>3, <3>4
  <2> HIDE DEF g
  <2>7. Fits(g, m + 1)
    BY <2>5, <2>6
  <2>8. QED
    BY <2>2, <2>4, <2>7
<1> HIDE DEF G
<1>3. n \in G
  <2>1. \A i \in 0 .. n : i \in G
    BY <1>1, <1>2, Induct
  <2>2. QED
    BY <2>1
<1>4. QED
  BY <1>3 DEF G, Turns

-----------------------------------------------------------------------------
(* Sorted sequences of sets of numbers *)

(* A function on 1 .. n is a sequence. *)
LEMMA FunctionSeq ==
  ASSUME NEW n \in Nat, NEW S, NEW f \in [1 .. n -> S]
  PROVE  f \in Seq(S) /\ Len(f) = n
<1>1. f \in Seq(S)
  OBVIOUS
<1>2. Len(f) \in Nat /\ DOMAIN f = 1 .. Len(f) /\ DOMAIN f = 1 .. n
  BY <1>1, LenProperties
<1>3. QED
  BY <1>1, <1>2

(* s has the members of S in ascending order. *)
Sorted(s, S) ==
  /\ s \in Seq(S)
  /\ \A m, n \in 1 .. Len(s) : m < n => s[m] < s[n]
  /\ \A x \in S : \E n \in 1 .. Len(s) : s[n] = x

(* Ascending sorts: the number of members below one is its place.          *)
LEMMA AscendingIs ==
  ASSUME NEW S \in SUBSET Int, IsFiniteSet(S)
  PROVE  /\ Cardinality(S) \in Nat /\ Sorted(Ascending(S), S)
         /\ Len(Ascending(S)) = Cardinality(S)
<1> DEFINE Below(x) == {y \in S : y < x}
           N == Cardinality(S)
           c == [x \in S |-> Cardinality(Below(x))]
           f == [x \in S |-> c[x] + 1]
           s == Ascending(S)
<1>1. N \in Nat
  BY FS_CardinalityType
<1>2. \A x \in S : IsFiniteSet(Below(x)) /\ c[x] = Cardinality(Below(x)) /\ c[x] \in 0 .. N - 1
  <2> SUFFICES ASSUME NEW x \in S
               PROVE  IsFiniteSet(Below(x)) /\ Cardinality(Below(x)) \in 0 .. N - 1
    OBVIOUS
  <2>1. Below(x) \in SUBSET (S \ {x})
    OBVIOUS
  <2>2. IsFiniteSet(S \ {x}) /\ Cardinality(S \ {x}) = N - 1
    BY FS_RemoveElement
  <2>3. IsFiniteSet(Below(x)) /\ Cardinality(Below(x)) <= N - 1
    <3> HIDE DEF Below
    <3>1. QED
      BY <2>1, <2>2, FS_Subset
  <2>4. Cardinality(Below(x)) \in Nat
    <3> HIDE DEF Below
    <3>1. QED
      BY <2>3, FS_CardinalityType
  <2>5. QED
    BY <1>1, <2>3, <2>4
<1>3. \A x, y \in S : x < y => c[x] < c[y]
  <2> SUFFICES ASSUME NEW x \in S, NEW y \in S, x < y PROVE c[x] < c[y]
    OBVIOUS
  <2> x \in Int /\ y \in Int /\ \A z \in S : z \in Int
    OBVIOUS
  <2>1. Below(x) \in SUBSET Below(y)
    <3>1. ASSUME NEW z \in S, z < x PROVE z < y
      <4>1. z \in Int
        OBVIOUS
      <4> HIDE DEF c
      <4>2. QED
        BY <3>1, <4>1
    <3>2. QED
      BY <3>1
  <2>2. x \in Below(y) /\ x \notin Below(x)
    OBVIOUS
  <2> HIDE DEF Below, c
  <2>3. IsFiniteSet(Below(y)) /\ c[x] \in Nat /\ c[y] \in Nat
        /\ c[x] = Cardinality(Below(x)) /\ c[y] = Cardinality(Below(y))
    BY <1>1, <1>2
  <2>4. c[x] <= c[y] /\ (c[y] = c[x] => Below(y) = Below(x))
    BY <2>1, <2>3, FS_Subset
  <2>5. QED
    BY <2>2, <2>3, <2>4
<1>4. \A n \in 1 .. N : s[n] = CHOOSE x \in S : c[x] = n - 1
  <2>1. \A n \in 1 .. N : s[n] = CHOOSE x \in S : Cardinality(Below(x)) = n - 1
    BY DEF Ascending
  <2> HIDE DEF s
  <2>2. ASSUME NEW n \in 1 .. N
        PROVE  (CHOOSE x \in S : Cardinality(Below(x)) = n - 1) = CHOOSE x \in S : c[x] = n - 1
    OBVIOUS
  <2>3. QED
    BY <2>1, <2>2
<1>5. DOMAIN s = 1 .. N
  BY DEF Ascending
<1> HIDE DEF Below, c, s
<1>6. \A x, y \in S : c[x] = c[y] => x = y
  <2> SUFFICES ASSUME NEW x \in S, NEW y \in S, c[x] = c[y] PROVE x = y
    OBVIOUS
  <2>1. c[x] \in Int /\ c[y] \in Int
    BY <1>1, <1>2
  <2>2. ~ (x < y) /\ ~ (y < x)
    BY <1>3, <2>1
  <2>3. QED
    BY <2>2
<1>7. f \in [S -> 1 .. N]
  <2>1. ASSUME NEW x \in S PROVE c[x] + 1 \in 1 .. N
    <3>1. c[x] \in 0 .. N - 1
      BY <1>2
    <3>2. QED
      BY <1>1, <3>1
  <2>2. QED
    BY <2>1
<1>8. f \in Injection(S, 1 .. N)
  <2>1. ASSUME NEW x \in S, NEW y \in S, f[x] = f[y] PROVE x = y
    <3>1. c[x] \in Int /\ c[y] \in Int
      BY <1>1, <1>2
    <3>2. c[x] = c[y]
      BY <2>1, <3>1
    <3>3. QED
      BY <1>6, <3>2
  <2> HIDE DEF f
  <2>2. QED
    BY <1>7, <2>1 DEF Injection, IsInjective
<1>9. f \in Surjection(S, 1 .. N)
  <2>1. IsFiniteSet(1 .. N) /\ Cardinality(1 .. N) = N
    BY <1>1, FS_Interval
  <2> HIDE DEF f
  <2>2. QED
    BY <1>8, <2>1, FS_Injection
<1>10. \A n \in 1 .. N : s[n] \in S /\ c[s[n]] = n - 1
  <2> SUFFICES ASSUME NEW n \in 1 .. N PROVE s[n] \in S /\ c[s[n]] = n - 1
    OBVIOUS
  <2>1. PICK x \in S : f[x] = n
    <3> HIDE DEF f
    <3>1. QED
      BY <1>9 DEF Surjection
  <2>2. c[x] \in Int /\ n \in Int
    BY <1>1, <1>2
  <2>3. c[x] = n - 1
    BY <2>1, <2>2
  <2>4. QED
    BY <1>4, <2>3
<1>11. \A m, n \in 1 .. N : m < n => s[m] < s[n]
  <2> SUFFICES ASSUME NEW m \in 1 .. N, NEW n \in 1 .. N, m < n PROVE s[m] < s[n]
    OBVIOUS
  <2>1. s[m] \in S /\ s[n] \in S /\ c[s[m]] = m - 1 /\ c[s[n]] = n - 1
    BY <1>10
  <2>2. m \in Int /\ n \in Int
    BY <1>1
  <2>3. c[s[m]] < c[s[n]]
    BY <2>1, <2>2
  <2>4. s[m] \in Int /\ s[n] \in Int /\ c[s[n]] \in Int /\ c[s[m]] \in Int
    <3>1. m - 1 \in Int /\ n - 1 \in Int
      BY <2>2
    <3> HIDE DEF N
    <3>2. QED
      BY <2>1, <3>1
  <2>5. s[m] # s[n]
    <3>1. SUFFICES ASSUME s[m] = s[n] PROVE FALSE
      OBVIOUS
    <3>2. c[s[m]] = c[s[n]]
      BY <3>1
    <3>3. QED
      BY ONLY <2>3, <2>4, <3>2
  <2>6. ~ (s[n] < s[m])
    <3>1. SUFFICES ASSUME s[n] < s[m] PROVE FALSE
      OBVIOUS
    <3>2. c[s[n]] < c[s[m]]
      BY <1>3, <2>1, <3>1
    <3>3. QED
      BY <2>3, <2>4, <3>2
  <2>7. QED
    BY <2>4, <2>5, <2>6
<1>12. \A x \in S : \E n \in 1 .. N : s[n] = x
  <2> SUFFICES ASSUME NEW x \in S PROVE \E n \in 1 .. N : s[n] = x
    OBVIOUS
  <2>1. f[x] \in 1 .. N /\ f[x] = c[x] + 1 /\ c[x] \in Int
    BY <1>1, <1>2, <1>7
  <2> HIDE DEF f
  <2>2. c[s[f[x]]] = c[x] /\ s[f[x]] \in S
    BY <1>10, <2>1
  <2>3. s[f[x]] = x
    BY <1>6, <2>2
  <2>4. QED
    BY <2>1, <2>3
<1> HIDE DEF f
<1>13. s \in [1 .. N -> S]
  <2>1. s = [n \in 1 .. N |-> s[n]]
    BY DEF s, Ascending
  <2>2. QED
    BY <1>10, <2>1
<1>14. s \in Seq(S) /\ Len(s) = N
  BY <1>1, <1>13, FunctionSeq
<1>15. Sorted(s, S)
  BY <1>1, <1>11, <1>12, <1>14 DEF Sorted
<1>16. QED
  BY <1>1, <1>14, <1>15 DEF s

(* What that says by places. *)
LEMMA SortedParts ==
  ASSUME NEW S, NEW s, Sorted(s, S)
  PROVE  /\ Len(s) \in Nat /\ DOMAIN s = 1 .. Len(s) /\ \A n \in 1 .. Len(s) : s[n] \in S
         /\ \A m, n \in 1 .. Len(s) : m < n => s[m] < s[n]
         /\ \A x \in S : \E n \in 1 .. Len(s) : s[n] = x
<1>1. s \in Seq(S)
  BY DEF Sorted
<1>2. Len(s) \in Nat /\ DOMAIN s = 1 .. Len(s) /\ \A n \in 1 .. Len(s) : s[n] \in S
  BY <1>1, LenProperties, ElementOfSeq
<1>3. QED
  BY <1>2 DEF Sorted

(* Two sorted sequences of a set agree at every place. *)
LEMMA SortedAgree ==
  ASSUME NEW S \in SUBSET Int, NEW s, Sorted(s, S), NEW t, Sorted(t, S)
  PROVE  \A n \in 1 .. Len(s) : n \in 1 .. Len(t) /\ s[n] = t[n]
<1> DEFINE Bad == {n \in 1 .. Len(s) : ~ (n \in 1 .. Len(t) /\ s[n] = t[n])}
<1>1. /\ Len(s) \in Nat /\ \A n \in 1 .. Len(s) : s[n] \in S
      /\ \A m, n \in 1 .. Len(s) : m < n => s[m] < s[n]
      /\ \A x \in S : \E n \in 1 .. Len(s) : s[n] = x
  BY SortedParts
<1>2. /\ Len(t) \in Nat /\ \A n \in 1 .. Len(t) : t[n] \in S
      /\ \A m, n \in 1 .. Len(t) : m < n => t[m] < t[n]
      /\ \A x \in S : \E n \in 1 .. Len(t) : t[n] = x
  BY SortedParts
<1>3. SUFFICES ASSUME Bad # {}
               PROVE  FALSE
  OBVIOUS
<1>4. PICK n \in Bad : \A m \in Bad : n <= m
  <2>1. Bad \in SUBSET Nat
    BY <1>1
  <2> HIDE DEF Bad
  <2>2. QED
    BY <1>3, <2>1, Least
<1>5. n \in 1 .. Len(s) /\ n \in Nat /\ s[n] \in Int
  <2>1. n \in 1 .. Len(s)
    OBVIOUS
  <2>2. n \in Nat /\ s[n] \in S
    BY <1>1, <2>1
  <2>3. QED
    BY <2>1, <2>2
<1>6. \A m \in 1 .. Len(s) : m < n => m \in 1 .. Len(t) /\ s[m] = t[m]
  <2>1. \A m \in 1 .. Len(s) : m \in Nat
    BY <1>1
  <2>2. QED
    BY <1>4, <1>5, <2>1
<1>7. PICK m \in 1 .. Len(t) : t[m] = s[n]
  BY <1>1, <1>2, <1>5
<1>8. ~ (m < n)
  <2>1. SUFFICES ASSUME m < n PROVE FALSE
    OBVIOUS
  <2>2. m \in 1 .. Len(s)
    BY <1>1, <1>2, <1>5, <2>1
  <2>3. s[m] = t[m] /\ s[m] < s[n]
    BY <1>1, <1>5, <1>6, <2>1, <2>2
  <2>4. QED
    BY <1>5, <1>7, <2>3
<1>9. n \in 1 .. Len(t) /\ n < m
  <2>1. n \in 1 .. Len(t)
    BY <1>2, <1>5, <1>7, <1>8
  <2>2. n # m
    BY <1>4, <1>7, <2>1
  <2>3. QED
    BY <1>2, <1>5, <1>8, <2>1, <2>2
<1>10. t[n] < s[n] /\ t[n] \in Int
  BY <1>2, <1>7, <1>9
<1>11. PICK q \in 1 .. Len(s) : s[q] = t[n]
  BY <1>1, <1>2, <1>9
<1>12. q < n
  <2>1. q \in Nat
    BY <1>1
  <2>2. q # n /\ ~ (n < q)
    BY <1>1, <1>5, <1>10, <1>11
  <2>3. QED
    BY <1>5, <2>1, <2>2
<1>13. q \in 1 .. Len(t) /\ t[q] = t[n] /\ t[q] < t[n]
  BY <1>2, <1>6, <1>9, <1>11, <1>12
<1>14. QED
  BY <1>10, <1>13

(* So there is one, which Ascending yields. *)
LEMMA SortedIs ==
  ASSUME NEW S \in SUBSET Int, IsFiniteSet(S), NEW s, Sorted(s, S)
  PROVE  s = Ascending(S)
<1> DEFINE o == Ascending(S)
<1>1. Sorted(o, S)
  BY AscendingIs
<1> HIDE DEF o
<1>2. \A n \in 1 .. Len(s) : n \in 1 .. Len(o) /\ s[n] = o[n]
  BY <1>1, SortedAgree
<1>3. \A n \in 1 .. Len(o) : n \in 1 .. Len(s) /\ o[n] = s[n]
  BY <1>1, SortedAgree
<1>4. Len(s) \in Nat /\ Len(o) \in Nat /\ DOMAIN s = 1 .. Len(s) /\ DOMAIN o = 1 .. Len(o)
  BY <1>1, SortedParts
<1>5. s \in Seq(S) /\ o \in Seq(S)
  BY <1>1 DEF Sorted
<1>6. Len(s) = Len(o)
  <2>1. Len(s) <= Len(o)
    <3>1. CASE Len(s) = 0
      BY <1>4, <3>1
    <3>2. CASE Len(s) # 0
      <4>1. Len(s) \in 1 .. Len(s)
        BY <1>4, <3>2
      <4>2. QED
        BY <1>2, <1>4, <4>1
    <3>3. QED
      BY <3>1, <3>2
  <2>2. Len(o) <= Len(s)
    <3>1. CASE Len(o) = 0
      BY <1>4, <3>1
    <3>2. CASE Len(o) # 0
      <4>1. Len(o) \in 1 .. Len(o)
        BY <1>4, <3>2
      <4>2. QED
        BY <1>3, <1>4, <4>1
    <3>3. QED
      BY <3>1, <3>2
  <2>3. Len(s) \in Nat /\ Len(o) \in Nat
    BY <1>4
  <2>4. QED
    BY <2>1, <2>2, <2>3
<1>7. s = o
  BY <1>2, <1>5, <1>6, SeqEqual
<1>8. QED
  BY <1>7 DEF o

(* Sorted sequences one behind the other. *)
LEMMA SortedConcat ==
  ASSUME NEW S \in SUBSET Int, NEW T \in SUBSET Int, NEW s, Sorted(s, S), NEW t, Sorted(t, T),
         \A x \in S : \A y \in T : x < y
  PROVE  Sorted(s \o t, S \union T)
<1> DEFINE U == S \union T
           u == s \o t
<1>1. /\ Len(s) \in Nat /\ \A n \in 1 .. Len(s) : s[n] \in S
      /\ \A m, n \in 1 .. Len(s) : m < n => s[m] < s[n]
      /\ \A x \in S : \E n \in 1 .. Len(s) : s[n] = x
  BY SortedParts
<1>2. /\ Len(t) \in Nat /\ \A n \in 1 .. Len(t) : t[n] \in T
      /\ \A m, n \in 1 .. Len(t) : m < n => t[m] < t[n]
      /\ \A x \in T : \E n \in 1 .. Len(t) : t[n] = x
  BY SortedParts
<1>3. s \in Seq(U) /\ t \in Seq(U)
  <2>1. s \in Seq(S) /\ t \in Seq(T)
    BY DEF Sorted
  <2>2. QED
    BY <2>1
<1>4. /\ u \in Seq(U) /\ Len(u) = Len(s) + Len(t)
      /\ \A i \in 1 .. Len(s) + Len(t) : u[i] = IF i <= Len(s) THEN s[i] ELSE t[i - Len(s)]
  BY <1>3, ConcatProperties
<1> HIDE DEF u
<1>5. ASSUME NEW m \in 1 .. Len(u), NEW n \in 1 .. Len(u), m < n
      PROVE  u[m] < u[n]
  <2>1. /\ m \in Nat /\ n \in Nat /\ m >= 1 /\ n >= 1
        /\ m <= Len(s) + Len(t) /\ n <= Len(s) + Len(t)
    BY <1>1, <1>2, <1>4
  <2>2. CASE n <= Len(s)
    BY <1>1, <1>4, <1>5, <2>1, <2>2
  <2>3. CASE m <= Len(s) /\ ~ (n <= Len(s))
    <3>1. m \in 1 .. Len(s) /\ n - Len(s) \in 1 .. Len(t)
      BY <1>1, <1>2, <2>1, <2>3
    <3>2. u[m] = s[m] /\ u[n] = t[n - Len(s)]
      BY <1>4, <2>3
    <3>3. QED
      BY <1>1, <1>2, <3>1, <3>2
  <2>4. CASE ~ (m <= Len(s)) /\ ~ (n <= Len(s))
    <3>1. m - Len(s) \in 1 .. Len(t) /\ n - Len(s) \in 1 .. Len(t) /\ m - Len(s) < n - Len(s)
      BY <1>1, <1>2, <1>5, <2>1, <2>4
    <3>2. u[m] = t[m - Len(s)] /\ u[n] = t[n - Len(s)]
      BY <1>4, <2>4
    <3>3. QED
      BY <1>2, <3>1, <3>2
  <2>5. QED
    BY <1>1, <1>5, <2>1, <2>2, <2>3, <2>4
<1>6. ASSUME NEW x \in U
      PROVE  \E n \in 1 .. Len(u) : u[n] = x
  <2>1. CASE x \in S
    <3>1. PICK n \in 1 .. Len(s) : s[n] = x
      BY <1>1, <2>1
    <3>2. n \in 1 .. Len(u) /\ n <= Len(s)
      BY <1>1, <1>2, <1>4
    <3>3. QED
      BY <1>4, <3>1, <3>2
  <2>2. CASE x \in T
    <3>1. PICK n \in 1 .. Len(t) : t[n] = x
      BY <1>2, <2>2
    <3>2. n + Len(s) \in 1 .. Len(u) /\ ~ (n + Len(s) <= Len(s)) /\ (n + Len(s)) - Len(s) = n
      BY <1>1, <1>2, <1>4
    <3>3. u[n + Len(s)] = x
      BY <1>4, <3>1, <3>2
    <3>4. QED
      BY <3>2, <3>3
  <2>3. QED
    BY <2>1, <2>2
<1>7. QED
  BY <1>4, <1>5, <1>6 DEF Sorted, u

-----------------------------------------------------------------------------
(* Levels *)

(* What the bulk load and every expansion build: a well-formed level whose *)
(* first range begins at entry 0 and whose entry keys ascend throughout.   *)
Built(lv) ==
  /\ WellFormed(lv)
  /\ lv.ranges[0].physical = 0 /\ lv.ranges[0].logical = 0
  /\ \A p, q \in Used(lv) : p < q => lv.entryKey[p] < lv.entryKey[q]
  /\ DOMAIN lv.held = DOMAIN lv.entryKey
  /\ DOMAIN lv.ranges = 0 .. Threads
  /\ LastPhysical(lv.ranges[Threads - 1]) < lv.ranges[Threads].physical

(* The numbers of a range. *)
LEMMA RangeIs ==
  ASSUME NEW lv, WellFormed(lv), NEW r \in RangeNum
  PROVE  /\ r \in Nat /\ r + 1 \in 0 .. Threads /\ r \in 0 .. Threads
         /\ lv.ranges[r].physical \in Nat /\ lv.ranges[r].logical \in Nat
         /\ lv.ranges[r].entries \in Nat \ {0}
         /\ LastPhysical(lv.ranges[r]) = lv.ranges[r].physical + lv.ranges[r].entries - 1
         /\ lv.ranges[r].logical <= lv.ranges[r].physical
         /\ lv.ranges[r + 1].logical = lv.ranges[r].logical + lv.ranges[r].entries
         /\ lv.ranges[r].start = lv.entryKey[lv.ranges[r].physical]
         /\ \A p \in 0 .. LastPhysical(lv.ranges[r]) : p \in DOMAIN lv.entryKey /\ lv.entryKey[p] \in Key
<1>1. r \in 0 .. Threads /\ r + 1 \in 0 .. Threads /\ r \in Nat
  BY SearchAssumption DEF RangeNum
<1>2. lv.ranges[r].physical \in Nat /\ lv.ranges[r].logical \in 0 .. lv.ranges[r].physical
  BY <1>1 DEF WellFormed
<1>3. /\ lv.ranges[r].entries \in Nat \ {0}
      /\ 0 .. LastPhysical(lv.ranges[r]) \subseteq DOMAIN lv.entryKey
      /\ lv.ranges[r].start = lv.entryKey[lv.ranges[r].physical]
      /\ lv.ranges[r + 1].logical = lv.ranges[r].logical + lv.ranges[r].entries
  BY DEF WellFormed
<1>4. \A p \in 0 .. LastPhysical(lv.ranges[r]) : p \in DOMAIN lv.entryKey /\ lv.entryKey[p] \in Key
  <2>1. lv.entryKey \in [DOMAIN lv.entryKey -> Key]
    BY DEF WellFormed
  <2>2. QED
    BY <1>3, <2>1
<1>5. QED
  BY <1>1, <1>2, <1>3, <1>4 DEF LastPhysical

(* Entries of different ranges lie in the order of the ranges. *)
LEMMA RangesApart ==
  ASSUME NEW lv, WellFormed(lv), NEW r \in RangeNum, NEW s \in RangeNum,
         NEW p \in lv.ranges[r].physical .. LastPhysical(lv.ranges[r]),
         NEW q \in lv.ranges[s].physical .. LastPhysical(lv.ranges[s])
  PROVE  /\ p \in Nat /\ q \in Nat /\ p \in Used(lv) /\ q \in Used(lv)
         /\ r < s => p < q
         /\ p <= q => r <= s
<1>1. /\ lv.ranges[r].physical \in Nat /\ LastPhysical(lv.ranges[r]) \in Int /\ r \in Nat
      /\ lv.ranges[s].physical \in Nat /\ LastPhysical(lv.ranges[s]) \in Int /\ s \in Nat
  BY RangeIs
<1>2. p \in Used(lv) /\ q \in Used(lv)
  BY DEF Used
<1>3. \A a, b \in RangeNum : a < b => LastPhysical(lv.ranges[a]) < lv.ranges[b].physical
  BY DEF WellFormed
<1>4. p \in Nat /\ q \in Nat
  BY <1>1
<1>5. r < s => p < q
  BY <1>1, <1>3, <1>4
<1>6. s < r => q < p
  BY <1>1, <1>3, <1>4
<1>7. QED
  BY <1>1, <1>2, <1>4, <1>5, <1>6

(* An entry in use lies in the file and in one of the ranges.              *)
LEMMA UsedIs ==
  ASSUME NEW lv, WellFormed(lv), NEW p \in Used(lv)
  PROVE  /\ p \in Nat /\ p \in DOMAIN lv.entryKey /\ lv.entryKey[p] \in Key
         /\ \E r \in RangeNum : p \in lv.ranges[r].physical .. LastPhysical(lv.ranges[r])
<1>1. PICK r \in RangeNum : p \in lv.ranges[r].physical .. LastPhysical(lv.ranges[r])
  BY DEF Used
<1>2. /\ lv.ranges[r].physical \in Nat /\ LastPhysical(lv.ranges[r]) \in Int
      /\ \A q \in 0 .. LastPhysical(lv.ranges[r]) : q \in DOMAIN lv.entryKey /\ lv.entryKey[q] \in Key
  BY RangeIs
<1>3. p \in 0 .. LastPhysical(lv.ranges[r])
  BY <1>1, <1>2
<1>4. QED
  BY <1>1, <1>2, <1>3

(* Logical positions count the entries of the ranges before. *)
LEMMA LogicalOrder ==
  ASSUME NEW lv, WellFormed(lv), lv.ranges[0].logical = 0, NEW s \in 0 .. Threads
  PROVE  /\ lv.ranges[s].logical \in Nat /\ s <= lv.ranges[s].logical
         /\ \A r \in 0 .. s - 1 : lv.ranges[r + 1].logical <= lv.ranges[s].logical
<1> DEFINE G == {i \in 0 .. Threads :
                   /\ i <= lv.ranges[i].logical
                   /\ \A r \in 0 .. i - 1 : lv.ranges[r + 1].logical <= lv.ranges[i].logical}
<1>1. \A i \in 0 .. Threads : lv.ranges[i].logical \in Nat
  BY DEF WellFormed
<1>2. 0 \in G
  BY SearchAssumption
<1>3. ASSUME NEW i \in 0 .. Threads - 1, i \in G PROVE i + 1 \in G
  <2>1. i \in RangeNum
    BY DEF RangeNum
  <2>2. /\ i \in Nat /\ i + 1 \in 0 .. Threads /\ i \in 0 .. Threads
        /\ lv.ranges[i].logical \in Nat /\ lv.ranges[i].entries \in Nat \ {0}
        /\ lv.ranges[i + 1].logical = lv.ranges[i].logical + lv.ranges[i].entries
    BY <2>1, RangeIs
  <2>3. i + 1 <= lv.ranges[i + 1].logical
    BY <1>3, <2>2
  <2>4. ASSUME NEW r \in 0 .. (i + 1) - 1
        PROVE  lv.ranges[r + 1].logical <= lv.ranges[i + 1].logical
    <3>1. CASE r = i
      BY <2>2, <3>1
    <3>2. CASE r # i
      <4>1. r \in 0 .. i - 1 /\ r + 1 \in 0 .. Threads
        <5>1. r \in Nat /\ r <= i /\ i + 1 <= Threads /\ Threads \in Nat
          BY <2>2, SearchAssumption
        <5>2. QED
          BY <2>2, <3>2, <5>1
      <4>2. lv.ranges[r + 1].logical <= lv.ranges[i].logical /\ lv.ranges[r + 1].logical \in Nat
        BY <1>1, <1>3, <4>1
      <4>3. QED
        BY <2>2, <4>2
    <3>3. QED
      BY <3>1, <3>2
  <2>5. QED
    BY <2>2, <2>3, <2>4
<1>4. s \in G
  <2>1. Threads \in Nat
    BY SearchAssumption
  <2> HIDE DEF G
  <2>2. QED
    BY <1>2, <1>3, <2>1, Induct
<1>5. QED
  BY <1>1, <1>4

(* The physical position of a logical one. *)
Place(lv, i) == GetPhysical(lv.ranges[FindBRange(lv, i)], i)

(* A logical position between the logical starts of a range and of the     *)
(* next belongs to that range: FindBRange_ finds it.                       *)
LEMMA PlaceInRange ==
  ASSUME NEW lv, WellFormed(lv), lv.ranges[0].logical = 0, NEW r \in RangeNum, NEW i \in Nat,
         lv.ranges[r].logical <= i, i < lv.ranges[r + 1].logical
  PROVE  /\ FindBRange(lv, i) = r
         /\ Place(lv, i) = lv.ranges[r].physical + (i - lv.ranges[r].logical)
         /\ Place(lv, i) \in lv.ranges[r].physical .. LastPhysical(lv.ranges[r])
         /\ i \in 0 .. Entries(lv) - 1
         /\ EntryKey(lv, i) = lv.entryKey[Place(lv, i)]
<1> DEFINE R == {s \in RangeNum : i >= lv.ranges[s].logical}
<1>1. /\ r \in Nat /\ r + 1 \in 0 .. Threads /\ r \in 0 .. Threads
      /\ lv.ranges[r].physical \in Nat /\ lv.ranges[r].logical \in Nat
      /\ lv.ranges[r].entries \in Nat \ {0}
      /\ LastPhysical(lv.ranges[r]) = lv.ranges[r].physical + lv.ranges[r].entries - 1
      /\ lv.ranges[r + 1].logical = lv.ranges[r].logical + lv.ranges[r].entries
  BY RangeIs
<1>2. ASSUME NEW s \in R PROVE s <= r
  <2>1. s \in 0 .. Threads /\ s \in Nat /\ i >= lv.ranges[s].logical
    BY SearchAssumption DEF RangeNum
  <2>2. SUFFICES ASSUME r < s PROVE FALSE
    BY <1>1, <2>1
  <2>3. r \in 0 .. s - 1
    BY <1>1, <2>1, <2>2
  <2>4. lv.ranges[r + 1].logical <= lv.ranges[s].logical /\ lv.ranges[s].logical \in Nat
    BY <2>1, <2>3, LogicalOrder
  <2>5. QED
    BY <1>1, <2>1, <2>4
<1>3. r \in R /\ R \in SUBSET Int
  BY <1>1 DEF RangeNum
<1>4. FindBRange(lv, i) = r
  <2> HIDE DEF R
  <2>1. Max(R) = r
    BY <1>2, <1>3, MaxIs
  <2>2. QED
    BY <2>1 DEF FindBRange, R
<1>5. Place(lv, i) = lv.ranges[r].physical + (i - lv.ranges[r].logical)
  BY <1>4 DEF Place, GetPhysical
<1>6. Threads \in 0 .. Threads /\ Threads \in Nat
  BY SearchAssumption
<1>7. Entries(lv) \in Nat /\ lv.ranges[r + 1].logical <= Entries(lv)
  <2>1. r \in 0 .. Threads - 1
    BY <1>1, <1>6 DEF RangeNum
  <2>2. QED
    BY <1>6, <2>1, LogicalOrder DEF Entries
<1>8. QED
  BY <1>1, <1>4, <1>5, <1>7 DEF EntryKey, Place

(* Every logical position belongs to a range. *)
LEMMA RangeOfPosition ==
  ASSUME NEW lv, WellFormed(lv), lv.ranges[0].logical = 0, NEW i \in 0 .. Entries(lv) - 1
  PROVE  \E r \in RangeNum : lv.ranges[r].logical <= i /\ i < lv.ranges[r + 1].logical
<1> DEFINE R == {s \in RangeNum : lv.ranges[s].logical <= i}
<1>1. Threads \in Nat /\ Threads >= 1
  BY SearchAssumption
<1>2. i \in Nat /\ i < Entries(lv) /\ Entries(lv) \in Nat
  <2>1. Entries(lv) \in Nat
    BY <1>1, LogicalOrder DEF Entries
  <2>2. QED
    BY <2>1
<1>3. 0 \in R /\ R \in SUBSET Int /\ \A s \in R : s <= Threads
  BY <1>1, <1>2 DEF RangeNum
<1>4. Max(R) \in R /\ \A s \in R : s <= Max(R)
  <2> HIDE DEF R
  <2>1. QED
    BY <1>1, <1>3, MaxProperty
<1>5. PICK r \in RangeNum : r = Max(R) /\ lv.ranges[r].logical <= i
  BY <1>4
<1>6. r \in Nat /\ r + 1 \in 0 .. Threads /\ r <= Threads - 1
  BY <1>1, <1>5 DEF RangeNum
<1>7. lv.ranges[r + 1].logical \in Nat
  BY <1>6, LogicalOrder
<1>8. i < lv.ranges[r + 1].logical
  <2>1. CASE r + 1 = Threads
    BY <1>2, <2>1 DEF Entries
  <2>2. CASE r + 1 # Threads
    <3>1. r + 1 \in RangeNum
      BY <1>1, <1>6, <2>2 DEF RangeNum
    <3>2. r + 1 \notin R
      <4> HIDE DEF R
      <4>1. ~ (r + 1 <= r)
        BY <1>6
      <4>2. QED
        BY <1>4, <1>5, <4>1
    <3>3. QED
      BY <1>2, <1>7, <3>1, <3>2
  <2>3. QED
    BY <2>1, <2>2
<1>9. QED
  BY <1>5, <1>8

(* Logical positions number the entries in use in their order. *)
LEMMA PlaceIs ==
  ASSUME NEW lv, Built(lv)
  PROVE  /\ Entries(lv) \in Nat /\ Threads <= Entries(lv)
         /\ \A i \in 0 .. Entries(lv) - 1 :
              Place(lv, i) \in Used(lv) /\ Place(lv, i) \in Nat /\ EntryKey(lv, i) = lv.entryKey[Place(lv, i)]
         /\ \A i, j \in 0 .. Entries(lv) - 1 : i < j => Place(lv, i) < Place(lv, j)
         /\ \A p \in Used(lv) : \E i \in 0 .. Entries(lv) - 1 : Place(lv, i) = p
         /\ Place(lv, 0) = 0
<1>1. WellFormed(lv) /\ lv.ranges[0].logical = 0 /\ lv.ranges[0].physical = 0
  BY DEF Built
<1>2. Entries(lv) \in Nat /\ Threads <= Entries(lv) /\ Threads \in Nat /\ Threads >= 1
  <2>1. Threads \in Nat /\ Threads \in 0 .. Threads /\ Threads >= 1
    BY SearchAssumption
  <2>2. QED
    BY <1>1, <2>1, LogicalOrder DEF Entries
<1>3. ASSUME NEW i \in 0 .. Entries(lv) - 1
      PROVE  /\ Place(lv, i) \in Used(lv) /\ Place(lv, i) \in Nat
             /\ EntryKey(lv, i) = lv.entryKey[Place(lv, i)]
  <2>1. PICK r \in RangeNum : lv.ranges[r].logical <= i /\ i < lv.ranges[r + 1].logical
    BY <1>1, RangeOfPosition
  <2>2. i \in Nat
    BY <1>2
  <2>3. /\ Place(lv, i) \in lv.ranges[r].physical .. LastPhysical(lv.ranges[r])
        /\ EntryKey(lv, i) = lv.entryKey[Place(lv, i)]
    BY <1>1, <2>1, <2>2, PlaceInRange
  <2>4. QED
    BY <1>1, <2>3, RangesApart
<1>4. ASSUME NEW i \in 0 .. Entries(lv) - 1, NEW j \in 0 .. Entries(lv) - 1, i < j
      PROVE  Place(lv, i) < Place(lv, j)
  <2>1. PICK r \in RangeNum : lv.ranges[r].logical <= i /\ i < lv.ranges[r + 1].logical
    BY <1>1, RangeOfPosition
  <2>2. PICK s \in RangeNum : lv.ranges[s].logical <= j /\ j < lv.ranges[s + 1].logical
    BY <1>1, RangeOfPosition
  <2>3. i \in Nat /\ j \in Nat
    BY <1>2
  <2>4. /\ Place(lv, i) = lv.ranges[r].physical + (i - lv.ranges[r].logical)
        /\ Place(lv, i) \in lv.ranges[r].physical .. LastPhysical(lv.ranges[r])
    BY <1>1, <2>1, <2>3, PlaceInRange
  <2>5. /\ Place(lv, j) = lv.ranges[s].physical + (j - lv.ranges[s].logical)
        /\ Place(lv, j) \in lv.ranges[s].physical .. LastPhysical(lv.ranges[s])
    BY <1>1, <2>2, <2>3, PlaceInRange
  <2>6. /\ r \in Nat /\ s \in Nat /\ r \in 0 .. Threads /\ s \in 0 .. Threads
        /\ lv.ranges[r].physical \in Nat /\ lv.ranges[r].logical \in Nat
        /\ lv.ranges[s].physical \in Nat /\ lv.ranges[s].logical \in Nat
        /\ lv.ranges[s + 1].logical \in Nat
    <3>1. s + 1 \in 0 .. Threads
      BY <1>1, RangeIs
    <3>2. QED
      BY <1>1, <3>1, RangeIs, LogicalOrder
  <2>7. CASE r = s
    BY <1>4, <2>3, <2>4, <2>5, <2>6, <2>7
  <2>8. CASE r < s
    BY <1>1, <2>4, <2>5, <2>8, RangesApart
  <2>9. CASE s < r
    <3>1. s \in 0 .. r - 1
      BY <2>6, <2>9
    <3>2. lv.ranges[s + 1].logical <= lv.ranges[r].logical
      BY <1>1, <2>6, <3>1, LogicalOrder
    <3>3. QED
      BY <1>4, <2>1, <2>2, <2>3, <2>6, <3>2
  <2>10. QED
    BY <2>6, <2>7, <2>8, <2>9
<1>5. ASSUME NEW p \in Used(lv) PROVE \E i \in 0 .. Entries(lv) - 1 : Place(lv, i) = p
  <2>1. PICK r \in RangeNum : p \in lv.ranges[r].physical .. LastPhysical(lv.ranges[r])
    BY DEF Used
  <2>2. /\ lv.ranges[r].physical \in Nat /\ lv.ranges[r].logical \in Nat
        /\ lv.ranges[r].entries \in Nat \ {0}
        /\ LastPhysical(lv.ranges[r]) = lv.ranges[r].physical + lv.ranges[r].entries - 1
        /\ lv.ranges[r + 1].logical = lv.ranges[r].logical + lv.ranges[r].entries
    BY <1>1, RangeIs
  <2> DEFINE i == lv.ranges[r].logical + (p - lv.ranges[r].physical)
  <2>3. i \in Nat /\ lv.ranges[r].logical <= i /\ i < lv.ranges[r + 1].logical
        /\ lv.ranges[r].physical + (i - lv.ranges[r].logical) = p
    BY <2>1, <2>2
  <2> HIDE DEF i
  <2>4. QED
    BY <1>1, <2>3, PlaceInRange
<1>6. Place(lv, 0) = 0
  <2>1. 0 \in RangeNum
    BY <1>2 DEF RangeNum
  <2>2. lv.ranges[0].entries \in Nat \ {0} /\ lv.ranges[0 + 1].logical = lv.ranges[0].logical + lv.ranges[0].entries
    BY <1>1, <2>1, RangeIs
  <2>3. lv.ranges[0].logical <= 0 /\ 0 < lv.ranges[0 + 1].logical
    BY <1>1, <2>2
  <2>4. Place(lv, 0) = lv.ranges[0].physical + (0 - lv.ranges[0].logical)
    BY <1>1, <2>1, <2>3, PlaceInRange
  <2>5. QED
    BY <1>1, <2>4
<1>7. QED
  BY <1>2, <1>3, <1>4, <1>5, <1>6

-----------------------------------------------------------------------------
(* Searches in a level *)

(* The logical position of a key's entry is the last one whose key is at   *)
(* or below it.                                                            *)
LEMMA LogicalHomeIs ==
  ASSUME NEW lv, Built(lv), NEW key \in Key
  PROVE  LET h == LogicalHome(lv, key)
         IN /\ h \in 0 .. Entries(lv) - 1 /\ h \in Nat
            /\ Place(lv, h) = Home(lv, key) /\ Home(lv, key) \in Used(lv)
            /\ \A j \in 0 .. Entries(lv) - 1 :
                 EntryKey(lv, j) \in Nat /\ (EntryKey(lv, j) <= key <=> j <= h)
<1> DEFINE t    == FindBRangeByKey(lv, key)
           home == Home(lv, key)
           h    == LogicalHome(lv, key)
<1>1. WellFormed(lv) /\ lv.ranges[0].logical = 0
  BY DEF Built
<1>2. t \in RangeNum
  BY <1>1, RangeOfKey
<1>3. /\ home \in lv.ranges[t].physical .. LastPhysical(lv.ranges[t])
      /\ home \in Used(lv) /\ lv.entryKey[home] <= key
      /\ \A q \in Used(lv) : lv.entryKey[q] <= key => q <= home
  BY <1>1, HomeInRange
<1>4. h = lv.ranges[t].logical + (home - lv.ranges[t].physical)
  BY DEF LogicalHome, GetLogical
<1> HIDE DEF t, home, h
<1>5. /\ lv.ranges[t].physical \in Nat /\ lv.ranges[t].logical \in Nat
      /\ lv.ranges[t].entries \in Nat \ {0}
      /\ LastPhysical(lv.ranges[t]) = lv.ranges[t].physical + lv.ranges[t].entries - 1
      /\ lv.ranges[t + 1].logical = lv.ranges[t].logical + lv.ranges[t].entries
  BY <1>1, <1>2, RangeIs
<1>6. /\ h \in Nat /\ lv.ranges[t].logical <= h /\ h < lv.ranges[t + 1].logical
      /\ lv.ranges[t].physical + (h - lv.ranges[t].logical) = home
  BY <1>3, <1>4, <1>5
<1>7. Place(lv, h) = home /\ h \in 0 .. Entries(lv) - 1
  BY <1>1, <1>2, <1>6, PlaceInRange
<1>8. ASSUME NEW j \in 0 .. Entries(lv) - 1
      PROVE  EntryKey(lv, j) \in Nat /\ (EntryKey(lv, j) <= key <=> j <= h)
  <2>1. /\ Place(lv, j) \in Used(lv) /\ Place(lv, j) \in Nat
        /\ EntryKey(lv, j) = lv.entryKey[Place(lv, j)]
        /\ Place(lv, h) \in Nat
    BY <1>7, PlaceIs
  <2>2. j \in Nat
    OBVIOUS
  <2>3. /\ lv.entryKey[Place(lv, j)] \in Nat /\ lv.entryKey[home] \in Nat /\ key \in Nat
    BY <1>1, <1>3, <2>1, UsedIs DEF Key
  <2>4. ASSUME EntryKey(lv, j) <= key PROVE j <= h
    <3>1. Place(lv, j) <= Place(lv, h)
      BY <1>3, <1>7, <2>1, <2>4
    <3>2. ~ (h < j)
      <4>1. h < j => Place(lv, h) < Place(lv, j)
        BY <1>7, PlaceIs
      <4>2. QED
        BY <2>1, <3>1, <4>1
    <3>3. QED
      BY <1>6, <2>2, <3>2
  <2>5. ASSUME j <= h PROVE EntryKey(lv, j) <= key
    <3>1. CASE j = h
      BY <1>3, <1>7, <2>1, <3>1
    <3>2. CASE j # h
      <4>1. j < h
        BY <1>6, <2>2, <2>5, <3>2
      <4>2. Place(lv, j) < Place(lv, h)
        BY <1>7, <4>1, PlaceIs
      <4>3. lv.entryKey[Place(lv, j)] < lv.entryKey[home]
        BY <1>3, <1>7, <2>1, <4>2 DEF Built
      <4>4. QED
        BY <1>3, <2>1, <2>3, <4>3
    <3>3. QED
      BY <3>1, <3>2
  <2>6. QED
    BY <2>1, <2>3, <2>4, <2>5
<1>9. QED
  BY <1>3, <1>6, <1>7, <1>8 DEF h, home

(* The entries of a level, and how many there are at least. *)
LEMMA EntriesAre ==
  ASSUME NEW lv, Built(lv)
  PROVE  /\ Entries(lv) \in Nat /\ Entries(lv) >= 2 /\ Span <= Entries(lv)
         /\ LastEntry(lv) = Entries(lv) - 1 /\ LastEntry(lv) \in Nat /\ LastEntry(lv) >= 1
         /\ \A i \in 0 .. LastEntry(lv) : i \in Nat /\ EntryKey(lv, i) \in Key /\ EntryKey(lv, i) \in Nat
         /\ \A i, j \in 0 .. LastEntry(lv) : i < j => EntryKey(lv, i) < EntryKey(lv, j)
<1>1. Entries(lv) \in Nat /\ Threads <= Entries(lv)
  BY PlaceIs
<1>2. Threads \in Nat /\ Threads >= 2 /\ Span \in Nat /\ Span <= Threads
  BY IndexAssumption
<1>3. LastEntry(lv) = Entries(lv) - 1
  BY DEF LastEntry
<1>4. ASSUME NEW i \in 0 .. LastEntry(lv) PROVE EntryKey(lv, i) \in Key
  <2>1. Place(lv, i) \in Used(lv) /\ EntryKey(lv, i) = lv.entryKey[Place(lv, i)]
    BY <1>3, PlaceIs
  <2>2. QED
    BY <2>1, UsedIs DEF Built
<1>5. ASSUME NEW i \in 0 .. LastEntry(lv), NEW j \in 0 .. LastEntry(lv), i < j
      PROVE  EntryKey(lv, i) < EntryKey(lv, j)
  <2>1. /\ Place(lv, i) \in Used(lv) /\ EntryKey(lv, i) = lv.entryKey[Place(lv, i)]
        /\ Place(lv, j) \in Used(lv) /\ EntryKey(lv, j) = lv.entryKey[Place(lv, j)]
        /\ Place(lv, i) < Place(lv, j)
    BY <1>3, <1>5, PlaceIs
  <2>2. QED
    BY <2>1 DEF Built
<1>6. \A i \in 0 .. LastEntry(lv) : i \in Nat /\ EntryKey(lv, i) \in Key /\ EntryKey(lv, i) \in Nat
  BY <1>1, <1>3, <1>4 DEF Key
<1>7. QED
  BY <1>1, <1>2, <1>3, <1>5, <1>6

(* A key that no index looks up belongs to the first or the last entry. *)
LEMMA OutsideHome ==
  ASSUME NEW lv, Built(lv), NEW key \in Key, Outside(lv, key)
  PROVE  OutsideEntry(lv, key) = LogicalHome(lv, key)
<1>1. /\ Entries(lv) \in Nat /\ Entries(lv) >= 2
      /\ LastEntry(lv) = Entries(lv) - 1 /\ LastEntry(lv) \in Nat
  BY EntriesAre
<1>2. /\ LogicalHome(lv, key) \in 0 .. Entries(lv) - 1 /\ LogicalHome(lv, key) \in Nat
      /\ \A j \in 0 .. Entries(lv) - 1 :
           EntryKey(lv, j) \in Nat /\ (EntryKey(lv, j) <= key <=> j <= LogicalHome(lv, key))
  BY LogicalHomeIs
<1>3. 1 \in 0 .. Entries(lv) - 1 /\ LastEntry(lv) \in 0 .. Entries(lv) - 1 /\ key \in Nat
  BY <1>1 DEF Key
<1>4. CASE key < MinKey(lv)
  <2>1. ~ (1 <= LogicalHome(lv, key))
    BY <1>2, <1>3, <1>4 DEF MinKey
  <2>2. QED
    BY <1>2, <1>4, <2>1 DEF OutsideEntry
<1>5. CASE ~ (key < MinKey(lv))
  <2>1. key >= TopKey(lv)
    BY <1>5 DEF Outside
  <2>2. LastEntry(lv) <= LogicalHome(lv, key)
    BY <1>2, <1>3, <2>1 DEF TopKey
  <2>3. QED
    BY <1>1, <1>2, <1>5, <2>2 DEF OutsideEntry
<1>6. QED
  BY <1>4, <1>5

(* The positions and brackets of Learn_Index. *)
LEMMA LearnedAnswers ==
  ASSUME NEW lv, Built(lv), NEW key \in Key
  PROVE  /\ \A pos \in NearPositions(lv, key) : FindNearPos(lv, key, pos) = Home(lv, key)
         /\ \A b \in LearnBrackets(lv, key) :
              /\ b[1] \in Nat /\ b[2] \in Nat
              /\ b[1] <= LogicalHome(lv, key) /\ LogicalHome(lv, key) <= b[2]
              /\ Find(lv, key, b[1], b[2]) = Home(lv, key)
<1>1. WellFormed(lv)
  BY DEF Built
<1>2. LogicalHome(lv, key) \in Nat /\ Entries(lv) \in Nat
  BY LogicalHomeIs, EntriesAre
<1>3. ASSUME NEW pos \in NearPositions(lv, key)
      PROVE  FindNearPos(lv, key, pos) = Home(lv, key)
  <2>1. pos \in Nat
    BY <1>2, OutsideHome DEF NearPositions
  <2>2. QED
    BY <1>1, <2>1, FindNearPosFindsHome
<1>4. ASSUME NEW b \in LearnBrackets(lv, key)
      PROVE  /\ b[1] \in Nat /\ b[2] \in Nat
             /\ b[1] <= LogicalHome(lv, key) /\ LogicalHome(lv, key) <= b[2]
  <2>1. CASE Outside(lv, key)
    <3>1. b = <<LogicalHome(lv, key), LogicalHome(lv, key)>>
      BY <2>1, OutsideHome DEF LearnBrackets
    <3>2. QED
      BY <1>2, <3>1
  <2>2. CASE ~ Outside(lv, key)
    <3>1. b \in (0 .. LogicalHome(lv, key)) \X (LogicalHome(lv, key) .. Entries(lv))
      BY <2>2 DEF LearnBrackets
    <3>2. b[1] \in 0 .. LogicalHome(lv, key) /\ b[2] \in LogicalHome(lv, key) .. Entries(lv)
      BY <3>1
    <3>3. QED
      BY <1>2, <3>2
  <2>3. QED
    BY <2>1, <2>2
<1>5. ASSUME NEW b \in LearnBrackets(lv, key)
      PROVE  Find(lv, key, b[1], b[2]) = Home(lv, key)
  BY <1>1, <1>4, FindFindsHome
<1>6. QED
  BY <1>3, <1>4, <1>5

(* A bracket may begin right behind the key's entry: Find_ answers with    *)
(* the entry before the bracket when it finds no key at or below.          *)
LEMMA FindFindsBefore ==
  ASSUME NEW lv, WellFormed(lv), NEW key \in Key, NEW begin \in Nat, NEW end \in Nat,
         begin = LogicalHome(lv, key) + 1, begin <= end
  PROVE  Find(lv, key, begin, end) = Home(lv, key)
<1> DEFINE t      == FindBRangeByKey(lv, key)
           range  == lv.ranges[t]
           first  == range.physical
           last   == LastPhysical(range)
           h      == Home(lv, key)
           left   == FirstOf(lv, t, begin)
           right  == LastOf(lv, t, end)
           middle == (left + right) \div 2
<1>1. Parted(lv, key, first, last, h)
  BY HomeParts
<1>2. /\ range.logical \in Nat /\ range.entries \in Nat /\ first \in Nat
      /\ range.logical <= first
      /\ lv.ranges[t + 1].logical = range.logical + range.entries
      /\ last = first + range.entries - 1
  BY NextRange
<1>3. LogicalHome(lv, key) = range.logical + (h - first)
  BY DEF LogicalHome, GetLogical
<1>4. Find(lv, key, begin, end) =
        IF lv.entryKey[middle] = key THEN middle
        ELSE IF lv.entryKey[middle] < key THEN WalkUp(lv, key, middle, right)
        ELSE Max({left - 1} \cup {p \in left .. middle - 1 : lv.entryKey[p] <= key})
  BY DEF Find
<1> HIDE DEF t, h
<1>5. /\ first \in Nat /\ last \in Nat /\ h \in Nat /\ first <= h /\ h <= last /\ key \in Nat
  BY <1>1 DEF Parted, Key
<1>6. left = h + 1
  <2>1. begin >= range.logical
    BY <1>2, <1>3, <1>5
  <2>2. left = first + (begin - range.logical)
    BY <2>1 DEF FirstOf, GetPhysical
  <2>3. QED
    BY <2>2, <1>2, <1>3, <1>5
<1>7. right \in h .. last /\ (right = h => h = last)
  <2>1. CASE end < lv.ranges[t + 1].logical
    <3>1. right = first + (end - range.logical)
      BY <2>1 DEF LastOf, GetPhysical
    <3>2. QED
      BY <3>1, <2>1, <1>2, <1>3, <1>5
  <2>2. CASE ~ (end < lv.ranges[t + 1].logical)
    <3>1. right = last
      BY <2>2 DEF LastOf
    <3>2. QED
      BY <3>1, <1>5
  <2>3. QED
    BY <2>1, <2>2
<1> HIDE DEF left, right, last, first
<1>8. right \in Nat
  BY <1>5, <1>7
<1>9. CASE right = h
  <2>1. middle = h
    BY <1>5, <1>6, <1>9
  <2>2. h \in 0 .. h /\ h \in h .. last /\ h \in 0 .. last
    BY <1>5
  <2>3. lv.entryKey[h] \in Int /\ lv.entryKey[h] <= key
    BY <1>1, <2>2 DEF Parted
  <2>4. WalkUp(lv, key, h, right) = h
    BY <1>1, <1>9, <2>2, WalkUpEnds
  <2> HIDE DEF middle
  <2>5. CASE lv.entryKey[h] = key
    BY <1>4, <2>1, <2>5 DEF h
  <2>6. CASE lv.entryKey[h] # key
    <3>1. lv.entryKey[h] < key
      BY <1>5, <2>3, <2>6
    <3>2. QED
      BY <1>4, <2>1, <2>4, <2>6, <3>1 DEF h
  <2>7. QED
    BY <2>5, <2>6
<1>10. CASE right # h
  <2>1. middle \in h + 1 .. last /\ middle <= right /\ middle \in 0 .. last /\ middle \in Nat
    BY <1>5, <1>6, <1>7, <1>8, <1>10
  <2> HIDE DEF middle
  <2>2. lv.entryKey[middle] > key /\ lv.entryKey[middle] \in Int
    BY <1>1, <2>1 DEF Parted
  <2> DEFINE S == {left - 1} \cup {p \in left .. middle - 1 : lv.entryKey[p] <= key}
  <2>3. S \in SUBSET Int /\ h \in S
    BY <1>5, <1>6, <2>1
  <2>4. \A p \in S : p <= h
    <3>1. ASSUME NEW p \in left .. middle - 1, lv.entryKey[p] <= key PROVE FALSE
      <4>1. p \in h + 1 .. last /\ p \in 0 .. last
        BY <1>5, <1>6, <2>1
      <4>2. lv.entryKey[p] > key /\ lv.entryKey[p] \in Int
        BY <1>1, <4>1 DEF Parted
      <4>3. QED
        BY <1>5, <3>1, <4>2
    <3>2. left - 1 = h
      BY <1>5, <1>6
    <3>3. QED
      BY <1>5, <3>1, <3>2
  <2>5. Max(S) = h
    <3> HIDE DEF S
    <3>1. QED
      BY <2>3, <2>4, MaxIs
  <2>6. lv.entryKey[middle] # key /\ ~ (lv.entryKey[middle] < key)
    BY <1>5, <2>2
  <2>7. QED
    BY <1>4, <2>5, <2>6 DEF h
<1>11. QED
  BY <1>9, <1>10

-----------------------------------------------------------------------------
(* The brackets of RMI_Index *)

(* Turn n looks at least n entries away. *)
LEMMA ReachIs ==
  ASSUME NEW lv, Entries(lv) \in Nat
  PROVE  Reach(lv, 0) = 0 /\ \A n \in 0 .. Entries(lv) : Reach(lv, n) \in Nat /\ Reach(lv, n) >= n
<1> DEFINE N == Entries(lv)
           F == [x \in Nat \X (1 .. N) |-> 2 * x[1] + 1]
           reach == CHOOSE f : f = [m \in 0 .. N |-> IF m = 0 THEN 0 ELSE 2 * f[m - 1] + 1]
<1>1. F \in [Nat \X (1 .. N) -> Nat]
  OBVIOUS
<1>2. PICK g : Turns(g, N, Nat, 0, F)
  <2> HIDE DEF F, reach
  <2>1. QED
    BY <1>1, TurnsExist
<1>3. g = [m \in 0 .. N |-> IF m = 0 THEN 0 ELSE 2 * g[m - 1] + 1]
  <2>0. g \in [0 .. N -> Nat] /\ g[0] = 0 /\ \A i \in 1 .. N : g[i] = F[<<g[i - 1], i>>]
    BY <1>2 DEF Turns
  <2>1. ASSUME NEW m \in 0 .. N PROVE g[m] = IF m = 0 THEN 0 ELSE 2 * g[m - 1] + 1
    <3>1. CASE m = 0
      BY <2>0, <3>1
    <3>2. CASE m # 0
      <4>1. m \in 1 .. N /\ m - 1 \in 0 .. N
        BY <3>2
      <4>2. g[m - 1] \in Nat
        BY <2>0, <4>1
      <4>3. F[<<g[m - 1], m>>] = 2 * g[m - 1] + 1
        BY <4>1, <4>2
      <4> HIDE DEF F
      <4>4. QED
        BY <2>0, <3>2, <4>1, <4>3
    <3>3. QED
      BY <3>1, <3>2
  <2>2. g = [m \in 0 .. N |-> g[m]]
    BY <2>0
  <2> HIDE DEF F, N
  <2>3. QED
    BY <2>1, <2>2
<1>4. reach = [m \in 0 .. N |-> IF m = 0 THEN 0 ELSE 2 * reach[m - 1] + 1]
  BY <1>3
<1>5. \A n : Reach(lv, n) = reach[n]
  BY DEF Reach
<1> HIDE DEF reach, F
<1> DEFINE G == {n \in 0 .. N : reach[n] \in Nat /\ reach[n] >= n}
<1>6. reach[0] = 0
  BY <1>4
<1>7. 0 \in G
  BY <1>6
<1>8. ASSUME NEW i \in 0 .. N - 1, i \in G PROVE i + 1 \in G
  <2>1. i + 1 \in 0 .. N /\ i + 1 # 0 /\ (i + 1) - 1 = i /\ i \in Nat
    OBVIOUS
  <2>2. reach[i + 1] = 2 * reach[i] + 1
    BY <1>4, <2>1
  <2>3. reach[i] \in Nat /\ reach[i] >= i
    BY <1>8
  <2>4. QED
    BY <2>1, <2>2, <2>3
<1>9. \A n \in 0 .. N : n \in G
  <2>1. N \in Nat
    OBVIOUS
  <2> HIDE DEF G, N
  <2>2. QED
    BY <1>7, <1>8, <2>1, Induct
<1>10. QED
  BY <1>5, <1>6, <1>9

(* RMI_Index's bracket contains the key's entry, wherever it predicts it. *)
LEMMA RMIBracketIs ==
  ASSUME NEW lv, Built(lv), NEW key \in Key, NEW p \in 0 .. LastEntry(lv)
  PROVE  RMIBracket(lv, key, p) \in LearnBrackets(lv, key)
<1> DEFINE home == LogicalHome(lv, key)
<1>1. CASE Outside(lv, key)
  BY <1>1 DEF RMIBracket, LearnBrackets
<1>2. CASE ~ Outside(lv, key)
  <2>1. /\ Entries(lv) \in Nat /\ Entries(lv) >= 2
        /\ LastEntry(lv) = Entries(lv) - 1 /\ LastEntry(lv) \in Nat
    BY EntriesAre
  <2>2. /\ home \in 0 .. Entries(lv) - 1 /\ home \in Nat
        /\ \A j \in 0 .. Entries(lv) - 1 :
             EntryKey(lv, j) \in Nat /\ (EntryKey(lv, j) <= key <=> j <= home)
    BY LogicalHomeIs
  <2>3. EntryKey(lv, home) <= key /\ EntryKey(lv, home) \in Nat /\ key \in Nat
    BY <2>2 DEF Key
  <2>4. \A j \in 0 .. Entries(lv) - 1 : EntryKey(lv, j) >= key => home <= j
    <3>1. SUFFICES ASSUME NEW j \in 0 .. Entries(lv) - 1, EntryKey(lv, j) >= key, j < home
                   PROVE  FALSE
      BY <2>1, <2>2
    <3>2. EntryKey(lv, j) < EntryKey(lv, home)
      BY <2>1, <2>2, <3>1, EntriesAre
    <3>3. QED
      BY <2>2, <2>3, <3>1, <3>2
  <2>5. LearnBrackets(lv, key) = (0 .. home) \X (home .. Entries(lv))
    BY <1>2 DEF LearnBrackets
  <2>6. p \in Nat /\ p \in 0 .. Entries(lv) - 1
    BY <2>1
  <2> DEFINE reach(n) == Reach(lv, n)
  <2>7. reach(0) = 0 /\ \A n \in 0 .. Entries(lv) : reach(n) \in Nat /\ reach(n) >= n
    BY <2>1, ReachIs
  <2> HIDE DEF home, reach
  <2>8. CASE key < EntryKey(lv, p)
    <3> DEFINE begin(n) == p - reach(n)
               S == {n \in 1 .. Entries(lv) : begin(n) < 0 \/ EntryKey(lv, begin(n)) < key}
               last == Min(S)
    <3>1. RMIBracket(lv, key, p) = <<Max({0, begin(last)}), begin(last - 1)>>
      BY <1>2, <2>8 DEF RMIBracket, WidenDown, reach
    <3>2. Entries(lv) \in S
      <4>1. Entries(lv) \in 1 .. Entries(lv) /\ Entries(lv) \in 0 .. Entries(lv)
        BY <2>1
      <4>2. begin(Entries(lv)) < 0
        BY <2>1, <2>6, <2>7, <4>1
      <4>3. QED
        BY <4>1, <4>2
    <3>3. last \in S /\ \A n \in S : last <= n
      <4>1. S \in SUBSET Int /\ S # {} /\ \A n \in S : 1 <= n
        BY <2>1, <3>2
      <4> HIDE DEF S
      <4>2. QED
        BY <4>1, MinProperty
    <3>4. last \in 1 .. Entries(lv) /\ (begin(last) < 0 \/ EntryKey(lv, begin(last)) < key)
      BY <3>3
    <3>5. last \in Nat /\ last - 1 \in 0 .. Entries(lv) /\ last \in 0 .. Entries(lv)
      BY <2>1, <3>4
    <3>6. last # 1 => ~ (begin(last - 1) < 0 \/ EntryKey(lv, begin(last - 1)) < key)
      <4>1. last # 1 => last - 1 \in 1 .. Entries(lv) /\ ~ (last <= last - 1)
        BY <2>1, <3>4
      <4> HIDE DEF begin, last
      <4>2. QED
        BY <3>3, <4>1
    <3> HIDE DEF last, S
    <3>7. reach(last) \in Nat /\ reach(last - 1) \in Nat
      BY <2>7, <3>5
    <3>8. begin(last - 1) \in 0 .. Entries(lv) - 1 /\ EntryKey(lv, begin(last - 1)) >= key
      <4>1. CASE last = 1
        <5>1. begin(last - 1) = p
          BY <2>6, <2>7, <4>1
        <5> HIDE DEF begin
        <5>2. QED
          BY <2>2, <2>3, <2>6, <2>8, <5>1
      <4>2. CASE last # 1
        <5>1. begin(last - 1) \in 0 .. Entries(lv) - 1
          BY <2>1, <2>6, <3>6, <3>7, <4>2
        <5> HIDE DEF begin
        <5>2. QED
          BY <2>2, <2>3, <3>6, <4>2, <5>1
      <4>3. QED
        BY <4>1, <4>2
    <3>9. begin(last - 1) \in home .. Entries(lv)
      <4>1. home <= begin(last - 1)
        BY <2>4, <3>8
      <4> HIDE DEF begin
      <4>2. QED
        BY <2>1, <2>2, <3>8, <4>1
    <3>10. begin(last) \in Int /\ (begin(last) >= 0 => begin(last) \in 0 .. Entries(lv) - 1)
      BY <2>1, <2>6, <3>7
    <3> HIDE DEF begin
    <3>11. Max({0, begin(last)}) \in 0 .. home
      <4>1. CASE begin(last) < 0
        <5>1. Max({0, begin(last)}) = 0
          <6>1. {0, begin(last)} \in SUBSET Int /\ \A y \in {0, begin(last)} : y <= 0
            BY <3>10, <4>1
          <6>2. QED
            BY <6>1, MaxIs
        <5>2. QED
          BY <2>2, <5>1
      <4>2. CASE ~ (begin(last) < 0)
        <5>1. Max({0, begin(last)}) = begin(last)
          <6>1. {0, begin(last)} \in SUBSET Int /\ \A y \in {0, begin(last)} : y <= begin(last)
            BY <3>10, <4>2
          <6>2. QED
            BY <6>1, MaxIs
        <5>2. begin(last) \in 0 .. Entries(lv) - 1 /\ EntryKey(lv, begin(last)) < key
          BY <3>4, <3>10, <4>2
        <5>3. EntryKey(lv, begin(last)) \in Nat
          BY <2>2, <5>2
        <5>4. begin(last) <= home
          BY <2>2, <2>3, <5>2, <5>3
        <5>5. QED
          BY <2>2, <3>10, <5>1, <5>2, <5>4
      <4>3. QED
        BY <4>1, <4>2
    <3>12. QED
      BY <2>5, <3>1, <3>9, <3>11
  <2>9. CASE ~ (key < EntryKey(lv, p))
    <3> DEFINE end(n) == p + reach(n)
               S == {n \in 1 .. Entries(lv) : end(n) > LastEntry(lv) \/ EntryKey(lv, end(n)) >= key}
               last == Min(S)
    <3>1. RMIBracket(lv, key, p) = <<end(last - 1), Min({end(last), LastEntry(lv)})>>
      BY <1>2, <2>9 DEF RMIBracket, WidenUp, reach
    <3>2. Entries(lv) \in S
      <4>1. Entries(lv) \in 1 .. Entries(lv) /\ Entries(lv) \in 0 .. Entries(lv)
        BY <2>1
      <4>2. end(Entries(lv)) > LastEntry(lv)
        BY <2>1, <2>6, <2>7, <4>1
      <4>3. QED
        BY <4>1, <4>2
    <3>3. last \in S /\ \A n \in S : last <= n
      <4>1. S \in SUBSET Int /\ S # {} /\ \A n \in S : 1 <= n
        BY <2>1, <3>2
      <4> HIDE DEF S
      <4>2. QED
        BY <4>1, MinProperty
    <3>4. last \in 1 .. Entries(lv) /\ (end(last) > LastEntry(lv) \/ EntryKey(lv, end(last)) >= key)
      BY <3>3
    <3>5. last \in Nat /\ last - 1 \in 0 .. Entries(lv) /\ last \in 0 .. Entries(lv)
      BY <2>1, <3>4
    <3>6. last # 1 => ~ (end(last - 1) > LastEntry(lv) \/ EntryKey(lv, end(last - 1)) >= key)
      <4>1. last # 1 => last - 1 \in 1 .. Entries(lv) /\ ~ (last <= last - 1)
        BY <2>1, <3>4
      <4> HIDE DEF end, last
      <4>2. QED
        BY <3>3, <4>1
    <3> HIDE DEF last, S
    <3>7. reach(last) \in Nat /\ reach(last - 1) \in Nat
      BY <2>7, <3>5
    <3>8. end(last - 1) \in 0 .. Entries(lv) - 1 /\ EntryKey(lv, end(last - 1)) <= key
      <4>1. CASE last = 1
        <5>1. end(last - 1) = p
          BY <2>6, <2>7, <4>1
        <5> HIDE DEF end
        <5>2. QED
          BY <2>2, <2>3, <2>6, <2>9, <5>1
      <4>2. CASE last # 1
        <5>1. end(last - 1) \in 0 .. Entries(lv) - 1
          BY <2>1, <2>6, <3>6, <3>7, <4>2
        <5> HIDE DEF end
        <5>2. QED
          BY <2>2, <2>3, <3>6, <4>2, <5>1
      <4>3. QED
        BY <4>1, <4>2
    <3>9. end(last - 1) \in 0 .. home
      <4>1. end(last - 1) <= home
        BY <2>2, <3>8
      <4> HIDE DEF end
      <4>2. QED
        BY <2>1, <2>2, <3>8, <4>1
    <3>10. end(last) \in Nat
      BY <2>1, <2>6, <3>7
    <3> HIDE DEF end
    <3>11. Min({end(last), LastEntry(lv)}) \in home .. Entries(lv)
      <4>1. CASE end(last) > LastEntry(lv)
        <5>1. Min({end(last), LastEntry(lv)}) = LastEntry(lv)
          <6>1. /\ {end(last), LastEntry(lv)} \in SUBSET Int
                /\ \A y \in {end(last), LastEntry(lv)} : LastEntry(lv) <= y
            BY <2>1, <3>10, <4>1
          <6>2. QED
            BY <6>1, MinIs
        <5>2. QED
          BY <2>1, <2>2, <5>1
      <4>2. CASE ~ (end(last) > LastEntry(lv))
        <5>1. Min({end(last), LastEntry(lv)}) = end(last)
          <6>1. /\ {end(last), LastEntry(lv)} \in SUBSET Int
                /\ \A y \in {end(last), LastEntry(lv)} : end(last) <= y
            BY <2>1, <3>10, <4>2
          <6>2. QED
            BY <6>1, MinIs
        <5>2. end(last) \in 0 .. Entries(lv) - 1 /\ EntryKey(lv, end(last)) >= key
          BY <2>1, <3>4, <3>10, <4>2
        <5>3. home <= end(last)
          BY <2>4, <5>2
        <5>4. QED
          BY <2>1, <2>2, <3>10, <5>1, <5>2, <5>3
      <4>3. QED
        BY <4>1, <4>2
    <3>12. QED
      BY <2>5, <3>1, <3>9, <3>11
  <2>10. QED
    BY <2>8, <2>9
<1>3. QED
  BY <1>1, <1>2

-----------------------------------------------------------------------------
(* The brackets of ALevel *)

(* Products and quotients. *)
LEMMA QuotientType ==
  ASSUME NEW a \in Nat, NEW d \in Nat \ {0}
  PROVE  a \div d \in Nat
OBVIOUS

(* Division keeps the order.                                               *)
LEMMA QuotientOrder ==
  ASSUME NEW a \in Nat, NEW b \in Nat, NEW d \in Nat \ {0}, a <= b
  PROVE  a \div d <= b \div d
OBVIOUS

(* So does multiplication.                                                 *)
LEMMA ProductOrder ==
  ASSUME NEW a \in Nat, NEW b \in Nat, NEW d \in Nat, a <= b
  PROVE  a * d \in Nat /\ b * d \in Nat /\ a * d <= b * d
OBVIOUS

(* Quotient and remainder make up the dividend.                            *)
LEMMA Division ==
  ASSUME NEW a \in Nat, NEW d \in Nat \ {0}
  PROVE  a = d * (a \div d) + (a % d) /\ a % d \in 0 .. d - 1 /\ a \div d \in Nat
OBVIOUS

(* The quotient of a multiple with a rest.                                 *)
LEMMA QuotientIs ==
  ASSUME NEW q \in Int, NEW d \in Nat \ {0}, NEW r \in 0 .. d - 1
  PROVE  (d * q + r) \div d = q
OBVIOUS

(* Products of positive numbers are positive.                              *)
LEMMA ProductType ==
  ASSUME NEW a \in Nat \ {0}, NEW b \in Nat \ {0}
  PROVE  a * b \in Nat \ {0}
OBVIOUS

(* A multiple of a smaller number is smaller.                              *)
LEMMA ProductBelow ==
  ASSUME NEW w \in Nat \ {0}, NEW d \in Nat \ {0}, NEW r \in 0 .. d - 1
  PROVE  w * r \in 0 .. w * d - 1
OBVIOUS

(* Multiplication distributes over a sum.                                  *)
LEMMA ProductSum ==
  ASSUME NEW w \in Nat, NEW a \in Nat, NEW b \in Nat
  PROVE  w * (a + b) = w * a + w * b
OBVIOUS

(* Products may be bracketed either way.                                   *)
LEMMA ProductProduct ==
  ASSUME NEW w \in Nat, NEW a \in Nat, NEW b \in Nat
  PROVE  w * (a * b) = (w * a) * b
OBVIOUS

(* A common factor of both sides of a quotient. *)
LEMMA QuotientCancel ==
  ASSUME NEW w \in Nat \ {0}, NEW m \in Nat, NEW d \in Nat \ {0}
  PROVE  (w * m) \div (w * d) = m \div d
<1> DEFINE q == m \div d
           r == m % d
<1>1. q \in Nat /\ r \in 0 .. d - 1 /\ m = d * q + r
  BY Division
<1> HIDE DEF q, r
<1>2. d * q \in Nat /\ r \in Nat
  BY <1>1, ProductOrder
<1>3. w * m = w * (d * q) + w * r
  BY <1>1, <1>2, ProductSum
<1>4. w * (d * q) = (w * d) * q
  BY <1>1, ProductProduct
<1>5. w * r \in 0 .. w * d - 1 /\ w * d \in Nat \ {0}
  BY <1>1, ProductBelow, ProductType
<1>6. ((w * d) * q + w * r) \div (w * d) = q
  BY <1>1, <1>5, QuotientIs
<1>7. QED
  BY <1>3, <1>4, <1>6 DEF q

(* The numbers of an ALevel: its last entry, and cdf indexes that never    *)
(* descend from the least entry key to the greatest.                       *)
LEMMA CDFIs ==
  ASSUME NEW lv, Built(lv), MinKey(lv) < TopKey(lv)
  PROVE  /\ ALevelSize(lv) \in Nat /\ ALevelSize(lv) - 1 \in Nat /\ ALevelSize(lv) - 1 >= 1
         /\ \A k \in MinKey(lv) .. TopKey(lv) :
              CDFIndex(lv, k) \in Nat /\ CDFIndex(lv, k) <= ALevelSize(lv) - 1
         /\ \A k, l \in MinKey(lv) .. TopKey(lv) : k <= l => CDFIndex(lv, k) <= CDFIndex(lv, l)
         /\ CDFIndex(lv, TopKey(lv)) = ALevelSize(lv) - 1
<1> DEFINE n == LastEntry(lv)
           min == MinKey(lv)
           top == TopKey(lv)
           w == top - min
           num(k) == (k - min) * n + w
<1>1. n \in Nat /\ n >= 1 /\ Span <= n + 1 /\ Span \in Nat \ {0}
  BY EntriesAre, IndexAssumption
<1>2. min \in Nat /\ top \in Nat
  <2>1. 1 \in 0 .. LastEntry(lv) /\ LastEntry(lv) \in 0 .. LastEntry(lv)
    BY <1>1
  <2>2. QED
    BY <2>1, EntriesAre DEF MinKey, TopKey
<1>3. ALevelSize(lv) - 1 = (n + 1) \div Span /\ ALevelSize(lv) \in Nat
  <2>1. ALevelSize(lv) = ((n + 1) \div Span) + 1
    BY DEF ALevelSize
  <2>2. (n + 1) \div Span \in Nat
    BY <1>1, QuotientType
  <2>3. QED
    BY <2>1, <2>2
<1>4. ALevelSize(lv) - 1 \in Nat /\ ALevelSize(lv) - 1 >= 1
  <2>1. (n + 1) \div Span \in Nat
    BY <1>1, QuotientType
  <2>2. Span \div Span <= (n + 1) \div Span
    BY <1>1, QuotientOrder
  <2>3. Span \div Span = 1
    <3>1. Span = Span * 1 + 0 /\ 0 \in 0 .. Span - 1
      BY <1>1
    <3>2. QED
      BY <1>1, <3>1, QuotientIs
  <2>4. QED
    BY <1>3, <2>1, <2>2, <2>3
<1>5. \A k \in min .. top : CDFIndex(lv, k) = num(k) \div (w * Span)
  <2>1. ASSUME NEW k \in min .. top PROVE CDFIndex(lv, k) = num(k) \div (w * Span)
    <3>1. ~ (k < MinKey(lv)) /\ ~ (k > TopKey(lv))
      BY <1>2
    <3>2. QED
      BY <3>1 DEF CDFIndex
  <2>2. QED
    BY <2>1
<1> HIDE DEF n, min, top
<1>6. w \in Nat \ {0}
  BY <1>2 DEF min, top
<1> HIDE DEF w
<1>7. w * Span \in Nat \ {0}
  BY <1>1, <1>6, ProductType
<1>8. ASSUME NEW k \in min .. top, NEW l \in min .. top, k <= l
      PROVE  num(k) \in Nat /\ num(l) \in Nat /\ num(k) <= num(l)
  <2>1. k - min \in Nat /\ l - min \in Nat /\ k - min <= l - min
    BY <1>2, <1>8
  <2>2. (k - min) * n \in Nat /\ (l - min) * n \in Nat /\ (k - min) * n <= (l - min) * n
    BY <1>1, <2>1, ProductOrder
  <2>3. QED
    BY <1>6, <2>2
<1>9. \A k \in min .. top : num(k) \in Nat
  <2>1. \A k \in min .. top : k <= k
    BY <1>2
  <2>2. QED
    BY <1>8, <2>1
<1>10. CDFIndex(lv, top) = (n + 1) \div Span
  <2>1. top \in min .. top
    BY <1>2, <1>6 DEF w
  <2>2. num(top) = w * (n + 1)
    <3>1. (top - min) * n + w = w * n + w
      BY DEF w
    <3>2. w * (n + 1) = w * n + w * 1 /\ w * 1 = w
      BY <1>1, <1>6, ProductSum
    <3>3. QED
      BY <3>1, <3>2
  <2>3. (w * (n + 1)) \div (w * Span) = (n + 1) \div Span
    BY <1>1, <1>6, QuotientCancel
  <2> HIDE DEF num
  <2>4. QED
    BY <1>5, <2>1, <2>2, <2>3
<1> HIDE DEF num
<1>11. ASSUME NEW k \in min .. top, NEW l \in min .. top, k <= l
       PROVE  CDFIndex(lv, k) \in Nat /\ CDFIndex(lv, k) <= CDFIndex(lv, l)
  <2>1. num(k) \in Nat /\ num(l) \in Nat /\ num(k) <= num(l)
    BY <1>8, <1>11
  <2>2. num(k) \div (w * Span) \in Nat /\ num(k) \div (w * Span) <= num(l) \div (w * Span)
    BY <1>7, <2>1, QuotientType, QuotientOrder
  <2>3. QED
    BY <1>5, <2>2
<1>12. \A k \in min .. top : CDFIndex(lv, k) \in Nat /\ CDFIndex(lv, k) <= ALevelSize(lv) - 1
  <2>1. top \in min .. top /\ \A k \in min .. top : k <= top
    BY <1>2, <1>6 DEF w
  <2>2. QED
    BY <1>3, <1>10, <1>11, <2>1
<1>13. QED
  BY <1>3, <1>4, <1>10, <1>11, <1>12 DEF min, top

(* The entries of ALevel between its first and its last: entry i names the *)
(* first entry of the level whose cdf index is at least i.                 *)
LEMMA ALevelOffsetIs ==
  ASSUME NEW lv, Built(lv), MinKey(lv) < TopKey(lv), NEW i \in 1 .. ALevelSize(lv) - 2
  PROVE  LET o == ALevelOffset(lv, i)
         IN /\ o \in 2 .. LastEntry(lv)
            /\ CDFIndex(lv, EntryKey(lv, o)) >= i
            /\ \A q \in 2 .. LastEntry(lv) : CDFIndex(lv, EntryKey(lv, q)) >= i => o <= q
<1> DEFINE n == LastEntry(lv)
           S == {q \in 2 .. n : CDFIndex(lv, EntryKey(lv, q)) >= i}
<1>1. n \in Nat /\ n >= 1 /\ n \in 0 .. n /\ 1 \in 0 .. n
  BY EntriesAre
<1>2. /\ ALevelSize(lv) \in Nat /\ ALevelSize(lv) - 1 \in Nat /\ ALevelSize(lv) - 1 >= 1
      /\ CDFIndex(lv, TopKey(lv)) = ALevelSize(lv) - 1
  BY CDFIs
<1>3. i \in Nat /\ i # 0 /\ i # ALevelSize(lv) - 1 /\ i <= ALevelSize(lv) - 1
  BY <1>2
<1>4. n # 1
  <2>1. SUFFICES ASSUME n = 1 PROVE FALSE
    OBVIOUS
  <2>2. MinKey(lv) = TopKey(lv) /\ TopKey(lv) \in Nat
    BY <1>1, <2>1, EntriesAre DEF MinKey, TopKey
  <2>3. QED
    BY <2>2
<1>5. n \in S
  <2>1. n \in 2 .. n
    BY <1>1, <1>4
  <2>2. CDFIndex(lv, EntryKey(lv, n)) >= i
    BY <1>2, <1>3 DEF TopKey
  <2>3. QED
    BY <2>1, <2>2
<1>6. Min(S) \in S /\ \A q \in S : Min(S) <= q
  <2>1. S \in SUBSET Int /\ \A q \in S : 2 <= q
    BY <1>1
  <2> HIDE DEF S
  <2>2. QED
    BY <1>5, <2>1, MinProperty
<1>7. ALevelOffset(lv, i) = Min(S)
  BY <1>3 DEF ALevelOffset
<1>8. QED
  BY <1>6, <1>7

(* The bracket of ALevel begins at the key's entry or before, or right     *)
(* behind it; then it is not empty.                                        *)
LEMMA ALevelBracketIs ==
  ASSUME NEW lv, Built(lv), NEW key \in Key
  PROVE  LET b == ALevelBracket(lv, key)
         IN /\ b[1] \in Nat /\ b[2] \in Nat
            /\ b[1] - 1 <= LogicalHome(lv, key) /\ LogicalHome(lv, key) <= b[2]
            /\ b[1] <= LogicalHome(lv, key) \/ b[1] <= b[2]
<1> DEFINE home == LogicalHome(lv, key)
           n == LastEntry(lv)
           i == CDFIndex(lv, key)
           size == ALevelSize(lv) - 1
           off(j) == ALevelOffset(lv, j)
           b == ALevelBracket(lv, key)
<1>1. /\ n \in Nat /\ n >= 1 /\ n \in 0 .. n /\ 1 \in 0 .. n /\ n = Entries(lv) - 1
      /\ \A j \in 0 .. n : j \in Nat /\ EntryKey(lv, j) \in Nat
      /\ \A j, l \in 0 .. n : j < l => EntryKey(lv, j) < EntryKey(lv, l)
  BY EntriesAre
<1>2. /\ home \in 0 .. n /\ home \in Nat /\ key \in Nat
      /\ \A j \in 0 .. n : EntryKey(lv, j) <= key <=> j <= home
  BY <1>1, LogicalHomeIs DEF Key
<1>3. CASE Outside(lv, key)
  <2>1. b = <<home, home>>
    BY <1>3, OutsideHome DEF ALevelBracket
  <2> HIDE DEF home, b
  <2>2. QED
    BY <1>2, <2>1 DEF home, b
<1>4. CASE ~ Outside(lv, key)
  <2>1. MinKey(lv) \in Nat /\ TopKey(lv) \in Nat
    BY <1>1 DEF MinKey, TopKey
  <2>2. MinKey(lv) <= key /\ key < TopKey(lv) /\ MinKey(lv) < TopKey(lv)
    BY <1>2, <1>4, <2>1 DEF Outside
  <2>3. /\ size \in Nat /\ size >= 1
        /\ \A k \in MinKey(lv) .. TopKey(lv) : CDFIndex(lv, k) \in Nat /\ CDFIndex(lv, k) <= size
        /\ \A k, l \in MinKey(lv) .. TopKey(lv) : k <= l => CDFIndex(lv, k) <= CDFIndex(lv, l)
    BY <2>2, CDFIs
  <2>4. key \in MinKey(lv) .. TopKey(lv)
    BY <1>2, <2>1, <2>2
  <2>5. i \in Nat /\ i <= size
    BY <2>3, <2>4
  <2>6. \A o \in 1 .. n : EntryKey(lv, o) \in MinKey(lv) .. TopKey(lv)
    <3>1. ASSUME NEW o \in 1 .. n PROVE EntryKey(lv, o) \in MinKey(lv) .. TopKey(lv)
      <4>1. o \in 0 .. n /\ o \in Nat /\ o >= 1 /\ o <= n /\ EntryKey(lv, o) \in Nat
        BY <1>1
      <4>2. MinKey(lv) <= EntryKey(lv, o)
        <5>1. CASE o = 1
          BY <2>1, <5>1 DEF MinKey
        <5>2. CASE o # 1
          <6>1. 1 < o
            BY <4>1, <5>2
          <6>2. EntryKey(lv, 1) < EntryKey(lv, o)
            BY <1>1, <4>1, <6>1
          <6>3. QED
            BY <2>1, <4>1, <6>2 DEF MinKey
        <5>3. QED
          BY <5>1, <5>2
      <4>3. EntryKey(lv, o) <= TopKey(lv)
        <5>1. CASE o = n
          BY <2>1, <5>1 DEF TopKey
        <5>2. CASE o # n
          <6>1. o < n
            BY <1>1, <4>1, <5>2
          <6>2. EntryKey(lv, o) < EntryKey(lv, n)
            BY <1>1, <4>1, <6>1
          <6>3. QED
            BY <2>1, <4>1, <6>2 DEF TopKey
        <5>3. QED
          BY <5>1, <5>2
      <4>4. QED
        BY <2>1, <4>1, <4>2, <4>3
    <3>2. QED
      BY <3>1
  <2>7. home >= 1 /\ home < n
    <3>1. EntryKey(lv, 1) <= key /\ ~ (EntryKey(lv, n) <= key)
      BY <1>1, <1>2, <2>2 DEF MinKey, TopKey
    <3>2. QED
      BY <1>1, <1>2, <3>1
  <2>8. off(size) = n /\ off(0) = 1
    BY <2>3 DEF ALevelOffset
  <2>9. \A j \in 1 .. size - 1 :
          /\ off(j) \in 2 .. n
          /\ CDFIndex(lv, EntryKey(lv, off(j))) >= j
          /\ \A q \in 2 .. n : CDFIndex(lv, EntryKey(lv, q)) >= j => off(j) <= q
    <3>1. size - 1 = ALevelSize(lv) - 2
      BY <2>2, CDFIs
    <3>2. QED
      BY <2>2, <3>1, ALevelOffsetIs
  <2>10. \A j \in 0 .. size : off(j) \in 1 .. n
    <3>1. ASSUME NEW j \in 0 .. size PROVE off(j) \in 1 .. n
      <4>1. j = 0 \/ j = size \/ j \in 1 .. size - 1
        BY <2>3
      <4> HIDE DEF off, size
      <4>2. j \in 1 .. size - 1 => off(j) \in 2 .. n
        BY <2>9
      <4>3. QED
        BY <1>1, <2>8, <4>1, <4>2
    <3>2. QED
      BY <3>1
  <2>11. b = IF key >= EntryKey(lv, off(i))
             THEN <<off(i), off(IF i = size THEN i ELSE i + 1)>>
             ELSE <<IF off(i - 1) = off(i) THEN off(i - 1) - 1 ELSE off(i - 1), off(i)>>
    BY <1>4 DEF ALevelBracket, ALevelKey
  <2> HIDE DEF n, i, size, off, b, home
  <2>12. off(i) \in 1 .. n /\ off(i) \in 0 .. n /\ off(i) \in Nat
    <3>1. off(i) \in 1 .. n
      BY <2>3, <2>5, <2>10
    <3>2. QED
      BY <1>1, <3>1
  <2>13. CASE key >= EntryKey(lv, off(i))
    <3>1. off(i) <= home
      BY <1>1, <1>2, <2>12, <2>13
    <3>2. i # size
      <4>1. off(size) # off(i)
        BY <1>2, <2>7, <2>8, <2>12, <3>1
      <4>2. QED
        BY <4>1
    <3>3. b = <<off(i), off(i + 1)>>
      BY <2>11, <2>13, <3>2
    <3>4. i + 1 \in 0 .. size /\ i + 1 \in Nat
      BY <2>3, <2>5, <3>2
    <3>5. off(i + 1) \in 1 .. n
      BY <2>10, <3>4
    <3>6. home <= off(i + 1)
      <4>1. CASE i + 1 = size
        BY <1>1, <1>2, <2>7, <2>8, <4>1
      <4>2. CASE i + 1 # size
        <5> DEFINE o == off(i + 1)
        <5>1. i + 1 \in 1 .. size - 1
          BY <2>3, <2>5, <3>4, <4>2
        <5>2. CDFIndex(lv, EntryKey(lv, o)) >= i + 1
          BY <2>9, <5>1
        <5>3. o \in 1 .. n /\ o \in 0 .. n /\ o \in Nat
          BY <1>1, <3>5
        <5> HIDE DEF o
        <5>4. EntryKey(lv, o) \in MinKey(lv) .. TopKey(lv) /\ EntryKey(lv, o) \in Nat
          BY <1>1, <2>6, <5>3
        <5>5. ~ (EntryKey(lv, o) <= key)
          <6>1. SUFFICES ASSUME EntryKey(lv, o) <= key PROVE FALSE
            OBVIOUS
          <6>2. CDFIndex(lv, EntryKey(lv, o)) <= i /\ CDFIndex(lv, EntryKey(lv, o)) \in Nat
            BY <2>3, <2>4, <5>4, <6>1 DEF i
          <6>3. QED
            BY <2>5, <5>2, <6>2
        <5>6. ~ (o <= home)
          BY <1>2, <5>3, <5>5
        <5>7. QED
          BY <1>2, <5>3, <5>6 DEF o
      <4>3. QED
        BY <4>1, <4>2
    <3>7. b[1] = off(i) /\ b[2] = off(i + 1)
      BY <3>3
    <3>8. b[1] \in Nat /\ b[2] \in Nat /\ b[1] <= home /\ home <= b[2]
      BY <1>1, <2>12, <3>1, <3>5, <3>6, <3>7
    <3>9. QED
      BY <1>2, <3>8 DEF b, home
  <2>14. CASE ~ (key >= EntryKey(lv, off(i)))
    <3>1. ~ (off(i) <= home)
      BY <1>1, <1>2, <2>12, <2>14
    <3>2. home < off(i)
      BY <1>2, <2>12, <3>1
    <3>3. i # 0
      BY <1>2, <2>7, <2>8, <3>2
    <3>4. i - 1 \in 0 .. size /\ i - 1 \in Nat /\ i - 1 < i
      BY <2>3, <2>5, <3>3
    <3> DEFINE o == off(i - 1)
    <3>5. o \in 1 .. n /\ o \in 0 .. n /\ o \in Nat /\ o >= 1
      <4>1. off(i - 1) \in 1 .. n
        BY <2>10, <3>4
      <4>2. QED
        BY <1>1, <4>1
    <3>6. home >= o - 1
      <4>1. CASE i - 1 = 0
        BY <1>2, <2>7, <2>8, <4>1
      <4>2. CASE i - 1 # 0
        <5>1. i - 1 \in 1 .. size - 1
          BY <2>3, <2>5, <3>4, <4>2
        <5>2. \A q \in 2 .. n : CDFIndex(lv, EntryKey(lv, q)) >= i - 1 => o <= q
          BY <2>9, <5>1
        <5> HIDE DEF o
        <5>3. SUFFICES ASSUME home < o - 1 PROVE FALSE
          BY <1>2, <3>5
        <5>4. home + 1 \in 2 .. n /\ home + 1 \in 1 .. n /\ home + 1 \in 0 .. n /\ ~ (o <= home + 1)
              /\ ~ (home + 1 <= home)
          BY <1>1, <1>2, <2>7, <3>5, <5>3
        <5>5. ~ (EntryKey(lv, home + 1) <= key) /\ EntryKey(lv, home + 1) \in Nat
              /\ EntryKey(lv, home + 1) \in MinKey(lv) .. TopKey(lv)
          BY <1>1, <1>2, <2>6, <5>4
        <5>6. key <= EntryKey(lv, home + 1)
          BY <1>2, <5>5
        <5>7. i <= CDFIndex(lv, EntryKey(lv, home + 1)) /\ CDFIndex(lv, EntryKey(lv, home + 1)) \in Nat
          BY <2>3, <2>4, <5>5, <5>6 DEF i
        <5>8. CDFIndex(lv, EntryKey(lv, home + 1)) >= i - 1
          BY <2>5, <3>4, <5>7
        <5>9. QED
          BY <5>2, <5>4, <5>8
      <4>3. QED
        BY <4>1, <4>2
    <3>7. b = <<IF o = off(i) THEN o - 1 ELSE o, off(i)>>
      BY <2>11, <2>14
    <3> HIDE DEF o
    <3>8. CASE o = off(i)
      <4>1. b[1] = o - 1 /\ b[2] = off(i)
        BY <3>7, <3>8
      <4>2. b[1] \in Nat /\ b[2] \in Nat /\ b[1] <= home /\ home <= b[2] /\ b[1] - 1 <= home
        BY <1>2, <2>12, <3>2, <3>5, <3>6, <4>1
      <4>3. QED
        BY <4>2 DEF b, home
    <3>9. CASE o # off(i)
      <4>1. b[1] = o /\ b[2] = off(i)
        BY <3>7, <3>9
      <4>2. b[1] \in Nat /\ b[2] \in Nat /\ b[1] - 1 <= home /\ home <= b[2]
        BY <1>2, <2>12, <3>2, <3>5, <3>6, <4>1
      <4>3. b[1] <= home \/ b[1] <= b[2]
        BY <1>2, <2>12, <3>2, <3>5, <3>6, <4>1
      <4>4. QED
        BY <4>2, <4>3 DEF b, home
    <3>10. QED
      BY <3>8, <3>9
  <2>15. QED
    BY <2>13, <2>14
<1>5. QED
  BY <1>3, <1>4

(* All of it: the searches from the brackets of ALevel and RMI_Index.      *)
LEMMA BracketAnswers ==
  ASSUME NEW lv, Built(lv), NEW key \in Key
  PROVE  LET alevel == ALevelBracket(lv, key)
             rmi    == {RMIBracket(lv, key, p) : p \in 0 .. LastEntry(lv)}
         IN /\ rmi \subseteq LearnBrackets(lv, key)
            /\ alevel[1] - 1 <= LogicalHome(lv, key) /\ LogicalHome(lv, key) <= alevel[2]
            /\ \A b \in rmi \cup {alevel} : Find(lv, key, b[1], b[2]) = Home(lv, key)
<1> DEFINE alevel == ALevelBracket(lv, key)
           rmi    == {RMIBracket(lv, key, p) : p \in 0 .. LastEntry(lv)}
           home   == LogicalHome(lv, key)
<1>1. rmi \subseteq LearnBrackets(lv, key)
  BY RMIBracketIs
<1>2. \A b \in rmi : Find(lv, key, b[1], b[2]) = Home(lv, key)
  BY <1>1, LearnedAnswers
<1>3. /\ alevel[1] \in Nat /\ alevel[2] \in Nat
      /\ alevel[1] - 1 <= home /\ home <= alevel[2]
      /\ alevel[1] <= home \/ alevel[1] <= alevel[2]
  BY ALevelBracketIs
<1>4. WellFormed(lv) /\ home \in Nat
  BY LogicalHomeIs DEF Built
<1> HIDE DEF alevel, rmi
<1>5. Find(lv, key, alevel[1], alevel[2]) = Home(lv, key)
  <2>1. CASE alevel[1] <= home
    BY <1>3, <1>4, <2>1, FindFindsHome
  <2>2. CASE ~ (alevel[1] <= home)
    <3>1. alevel[1] = home + 1 /\ alevel[1] <= alevel[2]
      BY <1>3, <1>4, <2>2
    <3>2. QED
      BY <1>3, <1>4, <3>1, FindFindsBefore
  <2>3. QED
    BY <2>1, <2>2
<1>6. QED
  BY <1>1, <1>2, <1>3, <1>5 DEF alevel, rmi

-----------------------------------------------------------------------------
(* The binary search of the iterators *)

(* What BinarySearch_ answers between left and right, when the last entry  *)
(* at or below the key is h.                                               *)
Bisected(left, right, h) ==
  IF left > right THEN right
  ELSE IF h < left THEN left - 1
  ELSE IF h > right THEN right
  ELSE h

(* One turn of it from the middle: the half that it goes on with has the   *)
(* same answer.                                                            *)
Halved(lv, key, left, right, h, middle) ==
  /\ middle \in left .. right /\ middle \in Int
  /\ lv.entryKey[middle] = key => Bisected(left, right, h) = middle
  /\ lv.entryKey[middle] < key => Bisected(left, right, h) = Bisected(middle + 1, right, h)
  /\ lv.entryKey[middle] > key => Bisected(left, right, h) = Bisected(left, middle - 1, h)

(* Whatever the entry in the middle has for a key.                         *)
LEMMA BisectStep ==
  ASSUME NEW lv, NEW key \in Key, NEW first, NEW last, NEW h,
         Bounds(lv, key, first, last), Parted(lv, key, first, last, h),
         NEW left \in Int, NEW right \in Int, first <= left, left <= right, right <= last,
         NEW middle, middle = (left + right) \div 2
  PROVE  Halved(lv, key, left, right, h, middle)
<1>1. first \in Nat /\ last \in Nat /\ h \in Nat /\ first <= h /\ h <= last /\ key \in Nat
  BY DEF Parted, Key
<1>2. middle \in left .. right /\ middle \in Int
  OBVIOUS
<1>3. middle \in first .. last /\ middle \in 0 .. last /\ middle \in Nat
  BY <1>1, <1>2
<1>4. lv.entryKey[middle] \in Int
  BY <1>3 DEF Bounds
<1>5. lv.entryKey[middle] <= key => middle <= h
  <2>1. SUFFICES ASSUME lv.entryKey[middle] <= key, h < middle PROVE FALSE
    BY <1>1, <1>3
  <2>2. middle \in h + 1 .. last
    BY <1>1, <1>3, <2>1
  <2>3. lv.entryKey[middle] > key
    BY <2>2 DEF Parted
  <2>4. QED
    BY <1>1, <1>4, <2>1, <2>3
<1>6. lv.entryKey[middle] > key => h < middle
  <2>1. SUFFICES ASSUME lv.entryKey[middle] > key, middle <= h PROVE FALSE
    BY <1>1, <1>3
  <2>2. middle \in 0 .. h
    BY <1>1, <1>3, <2>1
  <2>3. lv.entryKey[middle] <= key
    BY <2>2 DEF Parted
  <2>4. QED
    BY <1>1, <1>4, <2>1, <2>3
<1>7. lv.entryKey[middle] = key => middle = h
  <2>1. SUFFICES ASSUME lv.entryKey[middle] = key, middle # h PROVE FALSE
    OBVIOUS
  <2>2. middle <= h
    BY <1>1, <1>4, <1>5, <2>1
  <2>3. middle < h /\ h \in first .. last /\ h \in 0 .. h /\ h \in 0 .. last
    BY <1>1, <1>3, <2>1, <2>2
  <2>4. lv.entryKey[middle] < lv.entryKey[h]
    BY <1>3, <2>3 DEF Bounds
  <2>5. lv.entryKey[h] <= key /\ lv.entryKey[h] \in Int
    BY <2>3 DEF Parted
  <2>6. QED
    BY <1>1, <1>4, <2>1, <2>4, <2>5
<1>8. lv.entryKey[middle] = key => Bisected(left, right, h) = middle
  BY <1>1, <1>2, <1>7 DEF Bisected
<1>9. lv.entryKey[middle] < key => Bisected(left, right, h) = Bisected(middle + 1, right, h)
  <2>1. lv.entryKey[middle] < key => middle <= h
    BY <1>1, <1>4, <1>5
  <2>2. QED
    BY <1>1, <1>2, <2>1 DEF Bisected
<1>10. lv.entryKey[middle] > key => Bisected(left, right, h) = Bisected(left, middle - 1, h)
  BY <1>1, <1>2, <1>6 DEF Bisected
<1>11. QED
  BY <1>2, <1>8, <1>9, <1>10 DEF Halved

(* BinarySearch_ ends at the key's entry between any two entries of its    *)
(* range that enclose it.                                                  *)
LEMMA BinarySearchIs ==
  ASSUME NEW lv, WellFormed(lv), NEW key \in Key,
         NEW begin \in Nat, NEW end \in Nat,
         lv.ranges[FindBRangeByKey(lv, key)].physical <= begin, begin <= Home(lv, key),
         Home(lv, key) <= end, end <= LastPhysical(lv.ranges[FindBRangeByKey(lv, key)])
  PROVE  BinarySearch(lv, key, begin, end) = Home(lv, key)
<1> DEFINE first == lv.ranges[FindBRangeByKey(lv, key)].physical
           last  == LastPhysical(lv.ranges[FindBRangeByKey(lv, key)])
           h     == Home(lv, key)
           D     == (begin .. end + 1) \X (begin - 1 .. end)
           Step(e, bounds) ==
             IF bounds[1] > bounds[2] THEN bounds[2]
             ELSE IF lv.entryKey[Middle(bounds)] = key THEN Middle(bounds)
             ELSE IF lv.entryKey[Middle(bounds)] < key THEN e[<<Middle(bounds) + 1, bounds[2]>>]
             ELSE e[<<bounds[1], Middle(bounds) - 1>>]
           f == CHOOSE f : f = [bounds \in D |-> Step(f, bounds)]
           g == [bounds \in D |-> Bisected(bounds[1], bounds[2], h)]
<1>1. BinarySearch(lv, key, begin, end) = f[<<begin, end>>]
  BY DEF BinarySearch
<1>2. Bounds(lv, key, first, last) /\ Parted(lv, key, first, last, h)
  BY RangeBounds, HomeParts
<1> HIDE DEF f
<1>3. first \in Nat /\ last \in Nat /\ h \in Nat /\ first <= begin /\ end <= last /\ begin <= h /\ h <= end
  BY <1>2 DEF Parted
<1> HIDE DEF first, last, h
<1>4. \A bounds \in D :
        \E left \in begin .. end + 1, right \in begin - 1 .. end :
          bounds = <<left, right>> /\ left \in Int /\ right \in Int
  OBVIOUS
<1>5. \A left, right : <<left, right>> \in D <=>
        left \in begin .. end + 1 /\ right \in begin - 1 .. end
  OBVIOUS
<1>6. \A left \in begin .. end + 1, right \in begin - 1 .. end : g[<<left, right>>] = Bisected(left, right, h)
  BY <1>5
<1> HIDE DEF D, g
(* One turn, for any function that agrees with g on shorter stretches. *)
<1>7. ASSUME NEW e, NEW left \in begin .. end + 1, NEW right \in begin - 1 .. end, left <= right,
             \A l \in begin .. end + 1, r \in begin - 1 .. end :
               r - l < right - left => e[<<l, r>>] = Bisected(l, r, h)
      PROVE  Step(e, <<left, right>>) = Bisected(left, right, h)
  <2> DEFINE middle == (left + right) \div 2
  <2>1. left \in Int /\ right \in Int /\ first <= left /\ left <= right /\ right <= last /\ ~ (left > right)
    BY <1>3, <1>7
  <2>2. /\ middle \in left .. right /\ middle \in Int
        /\ lv.entryKey[middle] = key => Bisected(left, right, h) = middle
        /\ lv.entryKey[middle] < key => Bisected(left, right, h) = Bisected(middle + 1, right, h)
        /\ lv.entryKey[middle] > key => Bisected(left, right, h) = Bisected(left, middle - 1, h)
    <3> HIDE DEF middle
    <3>1. middle = (left + right) \div 2
      BY DEF middle
    <3>2. Halved(lv, key, left, right, h, middle)
      BY <1>2, <2>1, <3>1, BisectStep
    <3>3. QED
      BY <3>2, Zenon DEF Halved
  <2>3. /\ lv.entryKey[middle] = key => Step(e, <<left, right>>) = middle
        /\ lv.entryKey[middle] # key /\ lv.entryKey[middle] < key
             => Step(e, <<left, right>>) = e[<<middle + 1, right>>]
        /\ lv.entryKey[middle] # key /\ ~ (lv.entryKey[middle] < key)
             => Step(e, <<left, right>>) = e[<<left, middle - 1>>]
    BY <2>1 DEF Middle
  <2> HIDE DEF middle, Step
  <2>4. /\ middle + 1 \in begin .. end + 1 /\ middle - 1 \in begin - 1 .. end
        /\ right - (middle + 1) < right - left /\ (middle - 1) - left < right - left
    BY <1>3, <2>1, <2>2
  <2>5. e[<<middle + 1, right>>] = Bisected(middle + 1, right, h)
        /\ e[<<left, middle - 1>>] = Bisected(left, middle - 1, h)
    BY <1>7, <2>4
  <2>6. middle \in 0 .. last
    BY <1>3, <2>1, <2>2
  <2>7. lv.entryKey[middle] \in Int /\ key \in Int
    BY <1>2, <2>6 DEF Bounds, Key
  <2>8. lv.entryKey[middle] = key \/ lv.entryKey[middle] < key \/ lv.entryKey[middle] > key
    BY <2>7
  <2>9. lv.entryKey[middle] < key => lv.entryKey[middle] # key
    BY <2>7
  <2>10. lv.entryKey[middle] > key => lv.entryKey[middle] # key /\ ~ (lv.entryKey[middle] < key)
    BY <2>7
  <2>11. QED
    BY <2>2, <2>3, <2>5, <2>8, <2>9, <2>10
<1>8. \A e, left, right : left > right => Step(e, <<left, right>>) = right
  OBVIOUS
<1> HIDE DEF Step
<1>9. g = [bounds \in D |-> Step(g, bounds)]
  <2>1. ASSUME NEW bounds \in D PROVE g[bounds] = Step(g, bounds)
    <3>1. PICK left \in begin .. end + 1, right \in begin - 1 .. end :
            bounds = <<left, right>> /\ left \in Int /\ right \in Int
      BY <1>4
    <3>2. g[<<left, right>>] = Bisected(left, right, h)
      BY <1>6
    <3>3. CASE left > right
      BY <1>8, <3>1, <3>2, <3>3 DEF Bisected
    <3>4. CASE ~ (left > right)
      <4>1. left <= right
        BY <3>1, <3>4
      <4>2. Step(g, <<left, right>>) = Bisected(left, right, h)
        BY <1>6, <1>7, <4>1
      <4>3. QED
        BY <3>1, <3>2, <4>2
    <3>5. QED
      BY <3>3, <3>4
  <2>2. g = [bounds \in D |-> g[bounds]]
    BY DEF g
  <2>3. QED
    BY <2>1, <2>2
<1>10. f = [bounds \in D |-> Step(f, bounds)]
  BY <1>9 DEF f
<1>11. \A left \in begin .. end + 1, right \in begin - 1 .. end : f[<<left, right>>] = Step(f, <<left, right>>)
  BY <1>5, <1>10
<1> DEFINE G == {n \in 0 .. end - begin + 1 :
                   \A left \in begin .. end + 1, right \in begin - 1 .. end :
                     right - left < n => f[<<left, right>>] = Bisected(left, right, h)}
<1>12. 0 \in G
  <2>1. ASSUME NEW left \in begin .. end + 1, NEW right \in begin - 1 .. end, right - left < 0
        PROVE  f[<<left, right>>] = Bisected(left, right, h)
    <3>1. left > right
      BY <2>1
    <3>2. QED
      BY <1>8, <1>11, <3>1 DEF Bisected
  <2>2. 0 \in 0 .. end - begin + 1
    BY <1>3
  <2>3. QED
    BY <2>1, <2>2
<1>13. ASSUME NEW n \in 0 .. (end - begin + 1) - 1, n \in G PROVE n + 1 \in G
  <2>1. ASSUME NEW left \in begin .. end + 1, NEW right \in begin - 1 .. end, right - left < n + 1
        PROVE  f[<<left, right>>] = Bisected(left, right, h)
    <3>1. CASE right - left < n
      BY <1>13, <3>1
    <3>2. CASE ~ (right - left < n)
      <4>1. right - left = n /\ left <= right
        BY <2>1, <3>2
      <4>2. \A l \in begin .. end + 1, r \in begin - 1 .. end :
              r - l < right - left => f[<<l, r>>] = Bisected(l, r, h)
        BY <1>13, <4>1
      <4>3. QED
        BY <1>7, <1>11, <4>1, <4>2
    <3>3. QED
      BY <3>1, <3>2
  <2>2. n + 1 \in 0 .. end - begin + 1
    BY <1>3
  <2>3. QED
    BY <2>1, <2>2
<1>14. \A n \in 0 .. end - begin + 1 : n \in G
  <2>1. end - begin + 1 \in Nat
    BY <1>3
  <2> HIDE DEF G
  <2>2. QED
    BY <1>12, <1>13, <2>1, Induct
<1>15. f[<<begin, end>>] = Bisected(begin, end, h)
  <2>1. /\ end - begin + 1 \in 0 .. end - begin + 1 /\ begin \in begin .. end + 1 /\ end \in begin - 1 .. end
        /\ end - begin < end - begin + 1
    BY <1>3
  <2>2. QED
    BY <1>14, <2>1
<1>16. Bisected(begin, end, h) = h
  BY <1>3 DEF Bisected
<1>17. QED
  BY <1>1, <1>15, <1>16 DEF h

-----------------------------------------------------------------------------
(* Iterators *)

(* The entries hold the keys of S, each in its own.                        *)
Content(lv, S) ==
  /\ S \subseteq Key
  /\ \A p \in DOMAIN lv.held : lv.held[p] = {k \in S : p = Home(lv, k)}

(* The iterator at logical entry j, or behind the last one.                *)
Spot(lv, j) ==
  IF j < Entries(lv) THEN <<Place(lv, j), FindBRange(lv, j)>>
                     ELSE <<lv.ranges[Threads].physical, Threads>>

(* NextIndex_ steps from each entry to the next, in its range or in the    *)
(* range behind it.                                                        *)
LEMMA NextSpot ==
  ASSUME NEW lv, Built(lv), NEW j \in 0 .. Entries(lv) - 1
  PROVE  /\ NextIndex(lv, Spot(lv, j)) = Spot(lv, j + 1)
         /\ Spot(lv, j)[1] = Place(lv, j) /\ Spot(lv, j)[2] # Threads
<1>1. WellFormed(lv) /\ lv.ranges[0].logical = 0 /\ Entries(lv) \in Nat
  BY PlaceIs DEF Built
<1>2. PICK r \in RangeNum : lv.ranges[r].logical <= j /\ j < lv.ranges[r + 1].logical
  BY <1>1, RangeOfPosition
<1>3. /\ r \in Nat /\ r + 1 \in 0 .. Threads /\ r # Threads
      /\ lv.ranges[r].physical \in Nat /\ lv.ranges[r].logical \in Nat
      /\ lv.ranges[r].entries \in Nat \ {0}
      /\ LastPhysical(lv.ranges[r]) = lv.ranges[r].physical + lv.ranges[r].entries - 1
      /\ lv.ranges[r + 1].logical = lv.ranges[r].logical + lv.ranges[r].entries
  BY <1>1, RangeIs, SearchAssumption DEF RangeNum
<1>4. FindBRange(lv, j) = r /\ Place(lv, j) = lv.ranges[r].physical + (j - lv.ranges[r].logical)
  BY <1>1, <1>2, PlaceInRange
<1>5. j \in Nat /\ Spot(lv, j) = <<Place(lv, j), r>>
  BY <1>1, <1>4 DEF Spot
<1>6. CASE j + 1 < lv.ranges[r + 1].logical
  <2>1. /\ FindBRange(lv, j + 1) = r /\ j + 1 \in 0 .. Entries(lv) - 1
        /\ Place(lv, j + 1) = lv.ranges[r].physical + ((j + 1) - lv.ranges[r].logical)
    BY <1>1, <1>2, <1>3, <1>5, <1>6, PlaceInRange
  <2>2. Place(lv, j + 1) = Place(lv, j) + 1 /\ Place(lv, j) + 1 <= LastPhysical(lv.ranges[r])
    BY <1>3, <1>4, <1>5, <1>6, <2>1
  <2>3. Spot(lv, j + 1) = <<Place(lv, j) + 1, r>>
    BY <1>1, <1>5, <2>1, <2>2 DEF Spot
  <2>4. QED
    BY <1>3, <1>5, <2>2, <2>3 DEF NextIndex
<1>7. CASE ~ (j + 1 < lv.ranges[r + 1].logical)
  <2>1. j + 1 = lv.ranges[r + 1].logical
    BY <1>2, <1>3, <1>5, <1>7
  <2>2. ~ (Place(lv, j) + 1 <= LastPhysical(lv.ranges[r]))
    BY <1>3, <1>4, <1>5, <2>1
  <2>3. NextIndex(lv, Spot(lv, j)) = <<lv.ranges[r + 1].physical, r + 1>>
    BY <1>5, <2>2 DEF NextIndex
  <2>4. CASE r + 1 = Threads
    <3>1. j + 1 = Entries(lv)
      BY <2>1, <2>4 DEF Entries
    <3>2. QED
      BY <1>1, <1>3, <1>5, <2>3, <2>4, <3>1 DEF Spot
  <2>5. CASE r + 1 # Threads
    <3>1. r + 1 \in RangeNum
      BY <1>3, <2>5, SearchAssumption DEF RangeNum
    <3>2. /\ lv.ranges[r + 1].physical \in Nat /\ lv.ranges[r + 1].logical \in Nat
          /\ lv.ranges[r + 1].entries \in Nat \ {0}
          /\ lv.ranges[(r + 1) + 1].logical = lv.ranges[r + 1].logical + lv.ranges[r + 1].entries
      BY <1>1, <3>1, RangeIs
    <3>3. lv.ranges[r + 1].logical <= j + 1 /\ j + 1 < lv.ranges[(r + 1) + 1].logical /\ j + 1 \in Nat
      BY <1>5, <2>1, <3>2
    <3>4. /\ FindBRange(lv, j + 1) = r + 1 /\ j + 1 \in 0 .. Entries(lv) - 1
          /\ Place(lv, j + 1) = lv.ranges[r + 1].physical + ((j + 1) - lv.ranges[r + 1].logical)
      BY <1>1, <3>1, <3>3, PlaceInRange
    <3>5. Place(lv, j + 1) = lv.ranges[r + 1].physical
      BY <2>1, <3>2, <3>4
    <3>6. Spot(lv, j + 1) = <<lv.ranges[r + 1].physical, r + 1>>
      BY <1>1, <1>5, <3>4, <3>5 DEF Spot
    <3>7. QED
      BY <1>3, <1>5, <2>3, <3>6
  <2>6. QED
    BY <2>4, <2>5
<1>8. QED
  BY <1>6, <1>7

(* Sets of keys are finite, so Ascending sorts them.                       *)
LEMMA KeysFinite ==
  ASSUME NEW S, S \subseteq Key
  PROVE  S \in SUBSET Int /\ S \in SUBSET Nat /\ IsFiniteSet(S) /\ Sorted(Ascending(S), S)
<1>1. Key \in SUBSET Int /\ Key \in SUBSET Nat
  BY SearchAssumption DEF Key
<1>2. IsFiniteSet(Key)
  BY SearchAssumption, FS_Interval DEF Key
<1>3. IsFiniteSet(S)
  BY <1>2, FS_Subset
<1>4. QED
  BY <1>1, <1>3, AscendingIs

(* The keys of later entries are the greater ones. *)
LEMMA HomesAscend ==
  ASSUME NEW lv, Built(lv), NEW k \in Key, NEW l \in Key
  PROVE  LogicalHome(lv, k) < LogicalHome(lv, l) => k < l
<1>1. SUFFICES ASSUME LogicalHome(lv, k) < LogicalHome(lv, l), l <= k PROVE FALSE
  BY SearchAssumption DEF Key
<1> DEFINE h == LogicalHome(lv, l)
<1>2. h \in 0 .. Entries(lv) - 1 /\ EntryKey(lv, h) \in Nat /\ EntryKey(lv, h) <= l
  BY LogicalHomeIs
<1>3. EntryKey(lv, h) <= k => h <= LogicalHome(lv, k)
  BY <1>2, LogicalHomeIs
<1>4. LogicalHome(lv, k) \in Nat /\ h \in Nat
  BY LogicalHomeIs
<1> HIDE DEF h
<1>5. QED
  BY <1>1, <1>2, <1>3, <1>4, SearchAssumption DEF Key, h

(* The keys that an iterator has given out before it is at entry j.        *)
Behind(lv, S, from, j) == {k \in S : k >= from /\ LogicalHome(lv, k) < j}

(* The iterator at entry j of a level, and what it has given out by then.  *)
Iterator(lv, S, from, j) ==
  [at    |-> Spot(lv, j),
   from  |-> IF Behind(lv, S, from, j) = {} THEN from ELSE 0,
   given |-> Ascending(Behind(lv, S, from, j))]

(* One turn of an iterator: it gives out what entry j holds and stands at  *)
(* the next entry.                                                         *)
LEMMA VisitEntry ==
  ASSUME NEW lv, Built(lv), NEW S, Content(lv, S), NEW from \in Key, NEW j \in 0 .. Entries(lv) - 1
  PROVE  Visit(lv, Iterator(lv, S, from, j)) = Iterator(lv, S, from, j + 1)
<1> DEFINE B    == Behind(lv, S, from, j)
           C    == Behind(lv, S, from, j + 1)
           low  == IF B = {} THEN from ELSE 0
           keys == {k \in lv.held[Place(lv, j)] : k >= low}
<1>1. S \subseteq Key /\ from \in Nat /\ \A k \in S : k \in Key /\ k \in Nat /\ LogicalHome(lv, k) \in Nat
  <2>1. S \subseteq Key /\ from \in Nat
    BY SearchAssumption DEF Content, Key
  <2>2. \A k \in Key : k \in Nat
    BY SearchAssumption DEF Key
  <2>3. QED
    BY <2>1, <2>2, LogicalHomeIs
<1>2. /\ NextIndex(lv, Spot(lv, j)) = Spot(lv, j + 1)
      /\ Spot(lv, j)[1] = Place(lv, j) /\ Spot(lv, j)[2] # Threads
  BY NextSpot
<1>3. j \in Nat
  BY PlaceIs
<1>4. Place(lv, j) \in DOMAIN lv.held
  BY PlaceIs, UsedIs DEF Built
<1>5. \A k \in S : Place(lv, j) = Home(lv, k) <=> LogicalHome(lv, k) = j
  <2>1. ASSUME NEW k \in S PROVE Place(lv, j) = Home(lv, k) <=> LogicalHome(lv, k) = j
    <3>1. Place(lv, LogicalHome(lv, k)) = Home(lv, k) /\ LogicalHome(lv, k) \in 0 .. Entries(lv) - 1
      BY <1>1, LogicalHomeIs
    <3>2. /\ LogicalHome(lv, k) < j => Place(lv, LogicalHome(lv, k)) < Place(lv, j)
          /\ j < LogicalHome(lv, k) => Place(lv, j) < Place(lv, LogicalHome(lv, k))
          /\ Place(lv, j) \in Nat /\ Place(lv, LogicalHome(lv, k)) \in Nat
      BY <3>1, PlaceIs
    <3>3. QED
      BY <1>1, <1>3, <3>1, <3>2
  <2>2. QED
    BY <2>1
<1>6. lv.held[Place(lv, j)] = {k \in S : LogicalHome(lv, k) = j}
  BY <1>4, <1>5 DEF Content
<1>7. \A k \in S : LogicalHome(lv, k) = j => (k >= low <=> k >= from)
  <2>1. CASE B = {}
    BY <2>1
  <2>2. CASE B # {}
    <3>1. PICK x \in S : x >= from /\ LogicalHome(lv, x) < j
      BY <2>2 DEF Behind
    <3>2. ASSUME NEW k \in S, LogicalHome(lv, k) = j PROVE k >= from /\ k >= low
      <4>1. x < k
        BY <1>1, <3>1, <3>2, HomesAscend
      <4>2. QED
        BY <1>1, <2>2, <3>1, <4>1
    <3>3. QED
      BY <3>2
  <2>3. QED
    BY <2>1, <2>2
<1> HIDE DEF low
<1>8. keys = {k \in S : LogicalHome(lv, k) = j /\ k >= from}
  BY <1>6, <1>7
<1> HIDE DEF keys
<1>9. C = B \union keys
  <2>1. \A k \in S : LogicalHome(lv, k) < j + 1 <=> LogicalHome(lv, k) < j \/ LogicalHome(lv, k) = j
    BY <1>1, <1>3
  <2>2. QED
    BY <1>8, <2>1 DEF Behind
<1>10. \A x \in B : \A y \in keys : x < y
  <2>1. ASSUME NEW x \in B, NEW y \in keys PROVE x < y
    <3>1. x \in S /\ y \in S /\ LogicalHome(lv, x) < LogicalHome(lv, y)
      BY <1>8 DEF Behind
    <3>2. QED
      BY <1>1, <3>1, HomesAscend
  <2>2. QED
    BY <2>1
<1>11. B \subseteq Key /\ keys \subseteq Key /\ C \subseteq Key
  BY <1>1, <1>8 DEF Behind
<1> HIDE DEF B, C
<1>12. Ascending(B) \o Ascending(keys) = Ascending(C)
  <2>1. /\ B \in SUBSET Int /\ Sorted(Ascending(B), B)
        /\ keys \in SUBSET Int /\ Sorted(Ascending(keys), keys)
        /\ C \in SUBSET Int /\ IsFiniteSet(C)
    BY <1>11, KeysFinite
  <2>2. Sorted(Ascending(B) \o Ascending(keys), C)
    BY <1>9, <1>10, <2>1, SortedConcat
  <2>3. QED
    BY <2>1, <2>2, SortedIs
<1>13. (IF keys = {} THEN low ELSE 0) = IF C = {} THEN from ELSE 0
  BY <1>9 DEF low
<1>14. Visit(lv, Iterator(lv, S, from, j)) =
         [at |-> Spot(lv, j + 1), from |-> IF keys = {} THEN low ELSE 0,
          given |-> Ascending(B) \o Ascending(keys)]
  <2> DEFINE it == Iterator(lv, S, from, j)
  <2>1. it.at = Spot(lv, j) /\ it.from = low /\ it.given = Ascending(B)
    BY DEF Iterator, low, B
  <2>2. {k \in lv.held[it.at[1]] : k >= it.from} = keys
    BY <1>2, <2>1 DEF keys
  <2> HIDE DEF it
  <2>3. Visit(lv, it) =
          [at |-> NextIndex(lv, it.at), from |-> IF keys = {} THEN it.from ELSE 0,
           given |-> it.given \o Ascending(keys)]
    BY <1>2, <2>1, <2>2, Zenon DEF Visit
  <2>4. QED
    BY <1>2, <2>1, <2>3 DEF it
<1>15. QED
  BY <1>12, <1>13, <1>14 DEF Iterator, C

(* Behind the last entry an iterator stays, with all keys given out. *)
LEMMA VisitEnd ==
  ASSUME NEW lv, Built(lv), NEW S, Content(lv, S), NEW from \in Key
  PROVE  /\ Visit(lv, Iterator(lv, S, from, Entries(lv))) = Iterator(lv, S, from, Entries(lv))
         /\ Iterator(lv, S, from, Entries(lv)).given = Ascending({k \in S : k >= from})
<1>1. Entries(lv) \in Nat
  BY PlaceIs
<1>2. Iterator(lv, S, from, Entries(lv)).at = <<lv.ranges[Threads].physical, Threads>>
  BY <1>1 DEF Iterator, Spot
<1>3. Visit(lv, Iterator(lv, S, from, Entries(lv))) = Iterator(lv, S, from, Entries(lv))
  BY <1>2 DEF Visit
<1>4. \A k \in S : LogicalHome(lv, k) < Entries(lv)
  <2>1. ASSUME NEW k \in S PROVE LogicalHome(lv, k) < Entries(lv)
    <3>1. k \in Key
      BY DEF Content
    <3>2. LogicalHome(lv, k) \in 0 .. Entries(lv) - 1
      BY <3>1, LogicalHomeIs
    <3>3. QED
      BY <1>1, <3>2
  <2>2. QED
    BY <2>1
<1>5. Behind(lv, S, from, Entries(lv)) = {k \in S : k >= from}
  BY <1>4 DEF Behind
<1>6. QED
  BY <1>3, <1>5 DEF Iterator

(* The iterator that begins at entry i gives out the keys from from on, if *)
(* none of them lies before entry i.                                       *)
LEMMA IterKeysAre ==
  ASSUME NEW lv, Built(lv), NEW S, Content(lv, S), NEW from \in Key, NEW i \in 0 .. Entries(lv) - 1,
         \A k \in S : k >= from => i <= LogicalHome(lv, k)
  PROVE  IterKeys(lv, Spot(lv, i), from) = Ascending({k \in S : k >= from})
<1> DEFINE E       == Entries(lv)
           turn(n) == Iterator(lv, S, from, IF i + n < E THEN i + n ELSE E)
           first   == [at |-> Spot(lv, i), from |-> from, given |-> <<>>]
           g       == [n \in 0 .. E |-> turn(n)]
           f       == CHOOSE f : f = [n \in 0 .. E |-> IF n = 0 THEN first ELSE Visit(lv, f[n - 1])]
<1>1. IterKeys(lv, Spot(lv, i), from) = f[E].given
  BY DEF IterKeys
<1> HIDE DEF f
<1>2. E \in Nat /\ i \in Nat /\ i < E
  BY PlaceIs
<1>3. turn(0) = first
  <2>1. \A k \in S : LogicalHome(lv, k) \in Nat
    BY LogicalHomeIs DEF Content
  <2>2. Behind(lv, S, from, i) = {}
    BY <1>2, <2>1 DEF Behind
  <2>3. Ascending({}) = <<>>
    <3>1. Sorted(<<>>, {})
      BY DEF Sorted
    <3>2. QED
      BY <3>1, SortedIs, FS_EmptySet
  <2>4. turn(0) = Iterator(lv, S, from, i)
    BY <1>2
  <2>5. QED
    BY <2>2, <2>3, <2>4 DEF Iterator
<1>4. \A n \in 0 .. E - 1 : turn(n + 1) = Visit(lv, turn(n))
  <2>1. ASSUME NEW n \in 0 .. E - 1 PROVE turn(n + 1) = Visit(lv, turn(n))
    <3>1. CASE i + n < E
      <4>1. i + n \in 0 .. E - 1 /\ turn(n) = Iterator(lv, S, from, i + n)
        BY <1>2, <3>1
      <4>2. turn(n + 1) = Iterator(lv, S, from, (i + n) + 1)
        <5>1. (IF i + (n + 1) < E THEN i + (n + 1) ELSE E) = (i + n) + 1
          BY <1>2, <3>1
        <5>2. QED
          BY <5>1
      <4> HIDE DEF turn
      <4>3. Visit(lv, Iterator(lv, S, from, i + n)) = Iterator(lv, S, from, (i + n) + 1)
        BY <4>1, VisitEntry
      <4>4. QED
        BY <4>1, <4>2, <4>3
    <3>2. CASE ~ (i + n < E)
      <4>1. turn(n) = Iterator(lv, S, from, E) /\ turn(n + 1) = Iterator(lv, S, from, E)
        BY <1>2, <3>2
      <4> HIDE DEF turn
      <4>2. QED
        BY <4>1, VisitEnd
    <3>3. QED
      BY <3>1, <3>2
  <2>2. QED
    BY <2>1
<1>5. turn(E).given = Ascending({k \in S : k >= from})
  BY <1>2, VisitEnd
<1> HIDE DEF turn, first
<1>6. g = [n \in 0 .. E |-> IF n = 0 THEN first ELSE Visit(lv, g[n - 1])]
  <2>1. ASSUME NEW n \in 0 .. E PROVE turn(n) = IF n = 0 THEN first ELSE Visit(lv, g[n - 1])
    <3>1. CASE n = 0
      BY <1>3, <3>1
    <3>2. CASE n # 0
      <4>1. n - 1 \in 0 .. E - 1 /\ n - 1 \in 0 .. E /\ (n - 1) + 1 = n
        BY <1>2, <3>2
      <4>2. turn((n - 1) + 1) = Visit(lv, turn(n - 1)) /\ g[n - 1] = turn(n - 1)
        BY <1>4, <4>1
      <4>3. QED
        BY <3>2, <4>1, <4>2
    <3>3. QED
      BY <3>1, <3>2
  <2>2. QED
    BY <2>1
<1>7. f = [n \in 0 .. E |-> IF n = 0 THEN first ELSE Visit(lv, f[n - 1])]
  BY <1>6 DEF f
<1> DEFINE G == {n \in 0 .. E : f[n] = turn(n)}
<1>8. 0 \in G
  <2>1. 0 \in 0 .. E
    BY <1>2
  <2>2. f[0] = first
    BY <1>7, <2>1
  <2>3. QED
    BY <1>3, <2>1, <2>2
<1>9. \A n \in 0 .. E - 1 : n \in G => n + 1 \in G
  <2>1. ASSUME NEW n \in 0 .. E - 1, f[n] = turn(n) PROVE n + 1 \in 0 .. E /\ f[n + 1] = turn(n + 1)
    <3>1. n + 1 \in 0 .. E /\ n + 1 # 0 /\ (n + 1) - 1 = n
      BY <1>2
    <3>2. f[n + 1] = Visit(lv, f[n])
      BY <1>7, <3>1
    <3>3. QED
      BY <1>4, <2>1, <3>1, <3>2
  <2>2. QED
    BY <2>1
<1>10. E \in G
  <2> HIDE DEF G
  <2>1. \A n \in 0 .. E : n \in G
    BY <1>2, <1>8, <1>9, Induct
  <2>2. QED
    BY <1>2, <2>1
<1>11. QED
  BY <1>1, <1>5, <1>10

(* Iterators give out the keys in order, from the start and from any key   *)
(* in any bracket of Learn_Index.                                          *)
LEMMA IteratorsAre ==
  ASSUME NEW lv, Built(lv), NEW S, Content(lv, S)
  PROVE  /\ IterAll(lv) = Ascending(S)
         /\ \A key \in Key :
              LET from == Ascending({k \in S : k >= key})
              IN \A b \in LearnBrackets(lv, key) : IterFrom(lv, key, b[1], b[2]) = from
<1>1. \A k \in S : k \in Key /\ k \in Nat /\ LogicalHome(lv, k) \in Nat
  BY LogicalHomeIs, KeysFinite DEF Content
<1>2. Entries(lv) \in Nat /\ 0 \in 0 .. Entries(lv) - 1 /\ 0 < Entries(lv) /\ 0 \in Key /\ 0 \in RangeNum
  BY PlaceIs, SearchAssumption DEF Key, RangeNum
<1>3. IterAll(lv) = Ascending(S)
  <2>1. WellFormed(lv) /\ lv.ranges[0].logical = 0
    BY DEF Built
  <2>2. lv.ranges[0].logical <= 0 /\ 0 < lv.ranges[0 + 1].logical
    BY <1>2, <2>1, RangeIs
  <2>3. FindBRange(lv, 0) = 0 /\ Place(lv, 0) = 0
    BY <1>2, <2>1, <2>2, PlaceInRange, PlaceIs
  <2>4. Spot(lv, 0) = <<0, 0>>
    BY <1>2, <2>3 DEF Spot
  <2>5. S = {k \in S : k >= 0}
    BY <1>1
  <2>6. IterKeys(lv, Spot(lv, 0), 0) = Ascending({k \in S : k >= 0})
    BY <1>1, <1>2, IterKeysAre
  <2>7. QED
    BY <2>4, <2>5, <2>6 DEF IterAll
<1>4. ASSUME NEW key \in Key, NEW b \in LearnBrackets(lv, key)
      PROVE  IterFrom(lv, key, b[1], b[2]) = Ascending({k \in S : k >= key})
  <2> DEFINE t     == FindBRangeByKey(lv, key)
             range == lv.ranges[t]
             home  == Home(lv, key)
             h     == LogicalHome(lv, key)
             left  == FirstOf(lv, t, b[1])
             right == LastOf(lv, t, b[2])
  <2>1. WellFormed(lv) /\ lv.ranges[0].logical = 0
    BY DEF Built
  <2>2. b[1] \in Nat /\ b[2] \in Nat /\ b[1] <= h /\ h <= b[2]
    BY LearnedAnswers
  <2>3. /\ range.logical \in Nat /\ range.entries \in Nat /\ range.physical \in Nat
        /\ lv.ranges[t + 1].logical = range.logical + range.entries
        /\ LastPhysical(range) = range.physical + range.entries - 1
    BY <2>1, NextRange
  <2>4. home \in range.physical .. LastPhysical(range) /\ t \in RangeNum
    BY <2>1, HomeInRange, RangeOfKey
  <2>5. h = range.logical + (home - range.physical)
    BY DEF LogicalHome, GetLogical
  <2>6. h \in 0 .. Entries(lv) - 1 /\ Place(lv, h) = home
    BY LogicalHomeIs
  <2> HIDE DEF h, home, range, t
  <2>7. left \in Nat /\ right \in Nat /\ range.physical <= left /\ left <= home
        /\ home <= right /\ right <= LastPhysical(range)
    BY <2>2, <2>3, <2>4, <2>5 DEF FirstOf, LastOf, GetPhysical, range
  <2> HIDE DEF left, right
  <2>8. BinarySearch(lv, key, left, right) = home
    BY <2>1, <2>7, BinarySearchIs DEF range, home, t
  <2>9. FindBRange(lv, h) = t
    <3>1. lv.ranges[t].logical <= h /\ h < lv.ranges[t + 1].logical /\ h \in Nat
      BY <2>3, <2>4, <2>5, <2>6 DEF range
    <3>2. QED
      BY <2>1, <2>4, <3>1, PlaceInRange
  <2>10. Spot(lv, h) = <<home, t>>
    BY <1>2, <2>6, <2>9 DEF Spot
  <2>11. \A k \in S : k >= key => h <= LogicalHome(lv, k)
    <3>1. ASSUME NEW k \in S, k >= key, LogicalHome(lv, k) < h PROVE FALSE
      <4>1. k < key
        BY <1>1, <3>1, HomesAscend DEF h
      <4>2. QED
        BY <1>1, <3>1, <4>1, SearchAssumption DEF Key
    <3>2. QED
      BY <1>1, <1>2, <2>6, <3>1
  <2>12. IterKeys(lv, Spot(lv, h), key) = Ascending({k \in S : k >= key})
    BY <2>6, <2>11, IterKeysAre
  <2>13. QED
    BY <2>8, <2>10, <2>12 DEF IterFrom, left, right, t
<1>5. QED
  BY <1>3, <1>4
================================================================================
