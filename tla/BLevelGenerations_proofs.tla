------------------------ MODULE BLevelGenerations_proofs ------------------------
(***************************************************************************)
(* Theorems about BLevelGenerations, for every number of expanders, keys   *)
(* and entries and for every interval and buffer size: from the bulk load  *)
(* through Puts, Deletes and expansions, every search, bracket and         *)
(* iterator agrees on where a key is, and PrepareExpansion gives every old *)
(* entry to one thread.                                                    *)
(***************************************************************************)
EXTENDS BLevelGenerations, BLevelSearch_proofs

-----------------------------------------------------------------------------
(* Intervals *)

(* The interval counters of a level: one for every lv.interval entries of  *)
(* a range, and one for the rest.                                          *)
Counters(lv, r) == CeilDiv(lv.ranges[r].entries, lv.interval)

Counted(lv) ==
  /\ lv.interval \in Nat \ {0}
  /\ DOMAIN lv.sizes = RangeNum
  /\ \A r \in RangeNum : lv.sizes[r] \in [0 .. Counters(lv, r) - 1 -> 0 .. WordSize - 1]

(* CeilDiv rounds up.                                                      *)
LEMMA CeilDivIs ==
  ASSUME NEW a \in Nat, NEW d \in Nat \ {0}
  PROVE  /\ CeilDiv(a, d) \in Nat /\ a <= d * CeilDiv(a, d)
         /\ a # 0 => CeilDiv(a, d) # 0
         /\ \A q \in Nat : q < CeilDiv(a, d) <=> d * q < a
<1> DEFINE n == CeilDiv(a, d)
           m == a + d - 1
<1>1. m \in Nat
  OBVIOUS
<1>2. m = d * (m \div d) + (m % d) /\ m % d \in 0 .. d - 1 /\ m \div d \in Nat
  BY <1>1, Division
<1>3. n = m \div d
  BY DEF CeilDiv
<1> HIDE DEF n
<1>4. PICK x \in Int : x = d * n
  BY <1>2, <1>3
<1>5. n \in Nat /\ a <= x /\ x < a + d
  BY <1>2, <1>3, <1>4
<1>6. a # 0 => n # 0
  <2>1. SUFFICES ASSUME n = 0 PROVE a = 0
    OBVIOUS
  <2>2. x = 0
    BY <1>4, <2>1
  <2>3. QED
    BY <1>5, <2>2
<1>7. ASSUME NEW q \in Nat PROVE q < n <=> d * q < a
  <2>1. CASE q < n
    <3>1. d * q <= d * (n - 1)
      BY <1>5, <2>1, ProductOrder
    <3>2. d * (n - 1) = x - d
      BY <1>4, <1>5
    <3>3. d * q \in Int
      OBVIOUS
    <3>4. QED
      BY <1>4, <1>5, <2>1, <3>1, <3>2, <3>3
  <2>2. CASE ~ (q < n)
    <3>1. n <= q
      BY <1>5, <2>2
    <3>2. n * d <= q * d
      BY <1>5, <3>1, ProductOrder
    <3>3. n * d = x /\ q * d = d * q /\ d * q \in Int
      BY <1>4, <1>5
    <3>4. QED
      BY <1>5, <2>2, <3>2, <3>3
  <2>3. QED
    BY <2>1, <2>2
<1>8. QED
  BY <1>4, <1>5, <1>6, <1>7 DEF n

(* The counters of a range, and the entries that they count. *)
LEMMA CountersAre ==
  ASSUME NEW lv, WellFormed(lv), Counted(lv), NEW r \in RangeNum
  PROVE  /\ Counters(lv, r) \in Nat \ {0} /\ lv.interval \in Nat \ {0}
         /\ Cardinality(DOMAIN lv.sizes[r]) = Counters(lv, r)
         /\ lv.ranges[r].entries <= lv.interval * Counters(lv, r)
         /\ \A j \in Nat : j < Counters(lv, r) <=> lv.interval * j < lv.ranges[r].entries
<1>1. lv.ranges[r].entries \in Nat \ {0} /\ lv.interval \in Nat \ {0}
  BY RangeIs DEF Counted
<1>2. /\ Counters(lv, r) \in Nat \ {0}
      /\ lv.ranges[r].entries <= lv.interval * Counters(lv, r)
      /\ \A j \in Nat : j < Counters(lv, r) <=> lv.interval * j < lv.ranges[r].entries
  BY <1>1, CeilDivIs DEF Counters
<1>3. Cardinality(DOMAIN lv.sizes[r]) = Counters(lv, r)
  <2>1. DOMAIN lv.sizes[r] = 0 .. Counters(lv, r) - 1
    BY DEF Counted
  <2>2. QED
    BY <1>2, <2>1, FS_Interval
<1>4. QED
  BY <1>1, <1>2, <1>3

(* The interval behind another: in its range, or the first of the next.    *)
Successor(lv, at) ==
  IF at[2] + 1 < Counters(lv, at[1]) THEN <<at[1], at[2] + 1>> ELSE <<at[1] + 1, 0>>

IsInterval(lv, at, r) ==
  \E q \in 0 .. r - 1 : \E j \in 0 .. Counters(lv, q) - 1 : at = <<q, j>>

(* s lists the intervals of the first r ranges in order. *)
Listed(lv, s, r) ==
  /\ s \in Seq(Nat \X Nat)
  /\ r = 0 => Len(s) = 0
  /\ r # 0 => Len(s) # 0 /\ s[1] = <<0, 0>> /\ s[Len(s)] = <<r - 1, Counters(lv, r - 1) - 1>>
  /\ \A i \in 1 .. Len(s) : IsInterval(lv, s[i], r)
  /\ \A i \in 1 .. Len(s) - 1 : s[i + 1] = Successor(lv, s[i])

(* The members of a concatenation.                                         *)
LEMMA Concatenated ==
  ASSUME NEW S, NEW s \in Seq(S), NEW t \in Seq(S)
  PROVE  /\ s \o t \in Seq(S) /\ Len(s \o t) = Len(s) + Len(t)
         /\ \A i \in 1 .. Len(s) : (s \o t)[i] = s[i]
         /\ \A i \in Len(s) + 1 .. Len(s) + Len(t) : (s \o t)[i] = t[i - Len(s)]
  OBVIOUS

(* The intervals of the next range, appended to those of the ranges        *)
(* before.                                                                 *)
LEMMA ListMore ==
  ASSUME NEW lv, WellFormed(lv), Counted(lv), NEW r \in RangeNum, NEW s, Listed(lv, s, r)
  PROVE  Listed(lv, s \o IntervalsOf(lv, r), r + 1)
<1> DEFINE n == Counters(lv, r)
           t == IntervalsOf(lv, r)
           l == Len(s)
           u == s \o t
<1>1. n \in Nat \ {0} /\ Cardinality(DOMAIN lv.sizes[r]) = n
  BY CountersAre
<1>2. r \in Nat
  BY SearchAssumption DEF RangeNum
<1>3. t = [j \in 1 .. n |-> <<r, j - 1>>]
  BY <1>1 DEF IntervalsOf
<1> HIDE DEF n, t
<1>4. t \in [1 .. n -> Nat \X Nat]
  BY <1>1, <1>2, <1>3
<1>5. t \in Seq(Nat \X Nat) /\ Len(t) = n
  BY <1>1, <1>4, FunctionSeq
<1>6. s \in Seq(Nat \X Nat) /\ l \in Nat
  BY DEF Listed
<1>7. u \in Seq(Nat \X Nat) /\ Len(u) = l + n
  BY <1>5, <1>6, Concatenated
<1>8. \A i \in 1 .. l : u[i] = s[i]
  BY <1>5, <1>6, Concatenated
<1>9. \A i \in l + 1 .. l + n : u[i] = t[i - l]
  BY <1>5, <1>6, Concatenated
<1>10. \A i \in l + 1 .. l + n : u[i] = <<r, (i - l) - 1>>
  <2>1. \A i \in l + 1 .. l + n : i - l \in 1 .. n
    BY <1>1, <1>6
  <2>2. QED
    BY <1>3, <1>9, <2>1
<1> HIDE DEF u, l
<1>11. r = 0 => l = 0
  BY DEF Listed, l
<1>12. r # 0 => l # 0 /\ s[1] = <<0, 0>> /\ s[l] = <<r - 1, Counters(lv, r - 1) - 1>>
  BY DEF Listed, l
<1>13. Len(u) # 0 /\ u[1] = <<0, 0>>
  <2>1. CASE r = 0
    <3>1. l = 0 /\ 1 \in l + 1 .. l + n
      BY <1>1, <1>11, <2>1
    <3>2. u[1] = <<r, (1 - l) - 1>>
      BY <1>10, <3>1
    <3>3. QED
      BY <1>1, <1>7, <2>1, <3>1, <3>2
  <2>2. CASE r # 0
    <3>1. 1 \in 1 .. l
      BY <1>6, <1>12, <2>2
    <3>2. Len(u) # 0
      BY <1>1, <1>6, <1>7
    <3>3. QED
      BY <1>8, <1>12, <2>2, <3>1, <3>2
  <2>3. QED
    BY <2>1, <2>2
<1>14. u[Len(u)] = <<(r + 1) - 1, Counters(lv, (r + 1) - 1) - 1>>
  <2>1. l + n \in l + 1 .. l + n /\ (l + n) - l = n /\ (r + 1) - 1 = r
    BY <1>1, <1>2, <1>6
  <2>2. QED
    BY <1>7, <1>10, <2>1 DEF n
<1>15. ASSUME NEW i \in 1 .. Len(u) PROVE IsInterval(lv, u[i], r + 1)
  <2>1. CASE i <= l
    <3>1. i \in 1 .. l
      BY <1>6, <2>1
    <3>2. IsInterval(lv, s[i], r)
      BY <3>1 DEF Listed, l
    <3>3. 0 .. r - 1 \subseteq 0 .. (r + 1) - 1
      BY <1>2
    <3>4. QED
      BY <1>8, <3>1, <3>2, <3>3 DEF IsInterval
  <2>2. CASE ~ (i <= l)
    <3>1. i \in l + 1 .. l + n /\ (i - l) - 1 \in 0 .. n - 1 /\ r \in 0 .. (r + 1) - 1
      BY <1>1, <1>2, <1>6, <1>7, <2>2
    <3>2. QED
      BY <1>10, <3>1 DEF IsInterval, n
  <2>3. QED
    BY <2>1, <2>2
<1>16. ASSUME NEW i \in 1 .. Len(u) - 1 PROVE u[i + 1] = Successor(lv, u[i])
  <2>1. CASE i + 1 <= l
    <3>1. i \in 1 .. l /\ i + 1 \in 1 .. l /\ i \in 1 .. l - 1
      BY <1>6, <2>1
    <3>2. s[i + 1] = Successor(lv, s[i])
      BY <3>1 DEF Listed, l
    <3>3. QED
      BY <1>8, <3>1, <3>2
  <2>2. CASE i = l
    <3>1. l # 0 /\ i \in 1 .. l /\ i + 1 \in l + 1 .. l + n /\ ((i + 1) - l) - 1 = 0
      BY <1>1, <1>6, <2>2
    <3>2. r # 0
      BY <1>11, <3>1
    <3>3. u[i] = <<r - 1, Counters(lv, r - 1) - 1>> /\ u[i + 1] = <<r, 0>>
      BY <1>8, <1>10, <1>12, <2>2, <3>1, <3>2
    <3>4. Counters(lv, r - 1) \in Nat /\ (r - 1) + 1 = r
      <4>1. r - 1 \in RangeNum
        BY <1>2, <3>2, SearchAssumption DEF RangeNum
      <4>2. QED
        BY <1>2, <4>1, CountersAre
    <3>5. QED
      BY <3>3, <3>4 DEF Successor
  <2>3. CASE i > l
    <3>1. /\ i \in l + 1 .. l + n /\ i + 1 \in l + 1 .. l + n
          /\ ((i + 1) - l) - 1 = ((i - l) - 1) + 1 /\ ((i - l) - 1) + 1 < n
      BY <1>1, <1>6, <1>7, <2>3
    <3>2. u[i] = <<r, (i - l) - 1>> /\ u[i + 1] = <<r, ((i - l) - 1) + 1>>
      BY <1>10, <3>1
    <3>3. QED
      BY <3>1, <3>2 DEF Successor, n
  <2>4. QED
    BY <1>6, <1>7, <2>1, <2>2, <2>3
<1>17. r + 1 # 0
  BY <1>2
<1>18. QED
  BY <1>7, <1>13, <1>14, <1>15, <1>16, <1>17 DEF Listed, u, t

(* PrepareExpansion meets the intervals of all ranges in their order.      *)
LEMMA IntervalsListed ==
  ASSUME NEW lv, WellFormed(lv), Counted(lv)
  PROVE  Listed(lv, Intervals(lv), Threads)
<1> DEFINE f == CHOOSE f : f = [r \in 0 .. Threads |->
                                 IF r = 0 THEN <<>> ELSE f[r - 1] \o IntervalsOf(lv, r - 1)]
           All == [0 .. Threads -> Seq(Nat \X Nat)]
<1>1. Intervals(lv) = f[Threads]
  BY DEF Intervals
<1>2. Threads \in Nat
  BY SearchAssumption
<1>3. \E g : g = [r \in 0 .. Threads |-> IF r = 0 THEN <<>> ELSE g[r - 1] \o IntervalsOf(lv, r - 1)]
  <2> DEFINE S == Seq(Nat \X Nat)
             F == [x \in S \X (1 .. Threads) |-> x[1] \o IntervalsOf(lv, x[2] - 1)]
  <2>1. ASSUME NEW r \in 1 .. Threads PROVE IntervalsOf(lv, r - 1) \in S
    <3>1. r - 1 \in RangeNum /\ r - 1 \in Nat
      BY <1>2 DEF RangeNum
    <3>2. Cardinality(DOMAIN lv.sizes[r - 1]) \in Nat
      BY <3>1, CountersAre
    <3> DEFINE n == Cardinality(DOMAIN lv.sizes[r - 1])
    <3> HIDE DEF n
    <3>3. [j \in 1 .. n |-> <<r - 1, j - 1>>] \in [1 .. n -> Nat \X Nat]
      BY <3>1, <3>2 DEF n
    <3>4. [j \in 1 .. n |-> <<r - 1, j - 1>>] \in S
      BY <3>2, <3>3, FunctionSeq DEF n
    <3>5. QED
      BY <3>4 DEF IntervalsOf, n
  <2>2. \A s \in S : \A t \in S : s \o t \in S
    OBVIOUS
  <2>3. <<>> \in S
    OBVIOUS
  <2> HIDE DEF S
  <2>4. F \in [S \X (1 .. Threads) -> S]
    BY <2>1, <2>2
  <2>5. PICK g : Turns(g, Threads, S, <<>>, F)
    BY <1>2, <2>3, <2>4, TurnsExist
  <2>6. g \in [0 .. Threads -> S] /\ g[0] = <<>>
    BY <2>5 DEF Turns
  <2>7. ASSUME NEW r \in 0 .. Threads
        PROVE  g[r] = IF r = 0 THEN <<>> ELSE g[r - 1] \o IntervalsOf(lv, r - 1)
    <3>1. CASE r = 0
      BY <2>6, <3>1
    <3>2. CASE r # 0
      <4>1. r \in 1 .. Threads /\ r - 1 \in 0 .. Threads
        BY <1>2, <3>2
      <4>2. g[r] = F[<<g[r - 1], r>>]
        BY <2>5, <4>1 DEF Turns
      <4>3. <<g[r - 1], r>> \in S \X (1 .. Threads)
        BY <2>6, <4>1
      <4>4. QED
        BY <3>2, <4>2, <4>3
    <3>3. QED
      BY <3>1, <3>2
  <2>8. QED
    BY <2>6, <2>7
<1>4. f = [r \in 0 .. Threads |-> IF r = 0 THEN <<>> ELSE f[r - 1] \o IntervalsOf(lv, r - 1)]
  BY <1>3
<1> HIDE DEF f
<1> DEFINE G == {r \in 0 .. Threads : Listed(lv, f[r], r)}
<1>5. 0 \in G
  <2>1. f[0] = <<>> /\ 0 \in 0 .. Threads
    BY <1>2, <1>4
  <2>2. Listed(lv, <<>>, 0)
    BY DEF Listed
  <2>3. QED
    BY <2>1, <2>2
<1>6. ASSUME NEW r \in 0 .. Threads - 1, r \in G PROVE r + 1 \in G
  <2>1. r \in RangeNum /\ r + 1 \in 0 .. Threads /\ r + 1 # 0 /\ (r + 1) - 1 = r
    BY <1>2 DEF RangeNum
  <2>2. f[r + 1] = f[r] \o IntervalsOf(lv, r)
    BY <1>4, <2>1
  <2>3. QED
    BY <1>6, <2>1, <2>2, ListMore
<1>7. Threads \in G
  <2> HIDE DEF G
  <2>1. \A r \in 0 .. Threads : r \in G
    BY <1>2, <1>5, <1>6, Induct
  <2>2. QED
    BY <1>2, <2>1
<1>8. QED
  BY <1>1, <1>7

(* An interval and the entries that it counts. *)
LEMMA IntervalIs ==
  ASSUME NEW lv, WellFormed(lv), Counted(lv), NEW at, IsInterval(lv, at, Threads)
  PROVE  /\ at[1] \in RangeNum /\ at[2] \in 0 .. Counters(lv, at[1]) - 1
         /\ IntervalEntry(lv, at) \in lv.ranges[at[1]].physical .. LastPhysical(lv.ranges[at[1]])
         /\ PhysicalEnd(lv, at) \in IntervalEntry(lv, at) + 1 .. LastPhysical(lv.ranges[at[1]]) + 1
         /\ at[2] + 1 < Counters(lv, at[1])
              => PhysicalEnd(lv, at) = lv.ranges[at[1]].physical + lv.interval * (at[2] + 1)
         /\ ~ (at[2] + 1 < Counters(lv, at[1]))
              => PhysicalEnd(lv, at) = LastPhysical(lv.ranges[at[1]]) + 1
<1>0. PICK q \in 0 .. Threads - 1 : \E j \in 0 .. Counters(lv, q) - 1 : at = <<q, j>>
  BY DEF IsInterval
<1>1. PICK j \in 0 .. Counters(lv, q) - 1 : at = <<q, j>>
  BY <1>0
<1>2. q \in RangeNum /\ at[1] = q /\ at[2] = j
  BY <1>1 DEF RangeNum
<1> DEFINE range == lv.ranges[q]
           e     == range.entries
           d     == lv.interval
           n     == Counters(lv, q)
<1>3. /\ range.physical \in Nat /\ e \in Nat \ {0}
      /\ LastPhysical(range) = range.physical + e - 1
  BY <1>2, RangeIs
<1>4. /\ n \in Nat \ {0} /\ d \in Nat \ {0} /\ \A i \in Nat : i < n <=> d * i < e
  BY <1>2, CountersAre
<1>5. j \in Nat /\ j + 1 \in Nat /\ j < n
  BY <1>1, <1>4
<1>6. d * j < e /\ d * j \in Nat
  BY <1>4, <1>5, ProductOrder
<1>7. j + 1 < n <=> d * (j + 1) < e
  BY <1>4, <1>5
<1>8. d * (j + 1) = d * j + d
  BY <1>4, <1>5
<1>9. IntervalEntry(lv, at) = range.physical + d * j
  BY <1>2 DEF IntervalEntry
<1>10. PhysicalEnd(lv, at) = range.physical + Min({e, d * (j + 1)})
  BY <1>2 DEF PhysicalEnd
<1> HIDE DEF n, d, e
<1>11. PICK x \in Nat : x = d * j
  BY <1>6
<1>12. PICK y \in Nat : y = d * (j + 1) /\ y = x + d
  BY <1>4, <1>8, <1>11
<1>13. y < e => Min({e, y}) = y
  <2>1. {e, y} \in SUBSET Int
    BY <1>3
  <2>2. QED
    BY <1>3, <2>1, MinIs
<1>14. ~ (y < e) => Min({e, y}) = e
  <2>1. {e, y} \in SUBSET Int
    BY <1>3
  <2>2. QED
    BY <1>3, <2>1, MinIs
<1>15. IntervalEntry(lv, at) \in range.physical .. LastPhysical(range)
  BY <1>3, <1>6, <1>9, <1>11
<1>16. j + 1 < n => PhysicalEnd(lv, at) = range.physical + d * (j + 1)
  BY <1>7, <1>10, <1>12, <1>13
<1>17. ~ (j + 1 < n) => PhysicalEnd(lv, at) = LastPhysical(range) + 1
  BY <1>3, <1>7, <1>10, <1>12, <1>14
<1>18. PhysicalEnd(lv, at) \in IntervalEntry(lv, at) + 1 .. LastPhysical(range) + 1
  <2>1. CASE y < e
    BY <1>3, <1>4, <1>9, <1>10, <1>11, <1>12, <1>13, <2>1
  <2>2. CASE ~ (y < e)
    BY <1>3, <1>6, <1>9, <1>10, <1>11, <1>12, <1>14, <2>2
  <2>3. QED
    BY <2>1, <2>2
<1>19. QED
  BY <1>1, <1>2, <1>15, <1>16, <1>17, <1>18 DEF n, d

(* Between the end of an interval and the next one lies no entry.          *)
LEMMA NextInterval ==
  ASSUME NEW lv, WellFormed(lv), Counted(lv), NEW at, IsInterval(lv, at, Threads),
         IsInterval(lv, Successor(lv, at), Threads)
  PROVE  LET next == Successor(lv, at)
         IN /\ IntervalEntry(lv, at) < IntervalEntry(lv, next)
            /\ \A p \in Used(lv) : p < PhysicalEnd(lv, at) <=> p < IntervalEntry(lv, next)
            /\ at[1] <= next[1]
<1> DEFINE q    == at[1]
           next == Successor(lv, at)
<1>1. /\ q \in RangeNum /\ at[2] \in 0 .. Counters(lv, q) - 1
      /\ IntervalEntry(lv, at) \in lv.ranges[q].physical .. LastPhysical(lv.ranges[q])
      /\ PhysicalEnd(lv, at) \in IntervalEntry(lv, at) + 1 .. LastPhysical(lv.ranges[q]) + 1
      /\ at[2] + 1 < Counters(lv, q)
           => PhysicalEnd(lv, at) = lv.ranges[q].physical + lv.interval * (at[2] + 1)
      /\ ~ (at[2] + 1 < Counters(lv, q))
           => PhysicalEnd(lv, at) = LastPhysical(lv.ranges[q]) + 1
  BY IntervalIs
<1>2. /\ next[1] \in RangeNum
      /\ IntervalEntry(lv, next) \in lv.ranges[next[1]].physical .. LastPhysical(lv.ranges[next[1]])
  BY IntervalIs
<1>3. /\ q \in Nat /\ lv.ranges[q].physical \in Nat /\ lv.ranges[q].entries \in Nat
      /\ LastPhysical(lv.ranges[q]) = lv.ranges[q].physical + lv.ranges[q].entries - 1
  BY <1>1, RangeIs
<1>4. CASE at[2] + 1 < Counters(lv, q)
  <2>1. next = <<q, at[2] + 1>>
    BY <1>4 DEF Successor
  <2>2. IntervalEntry(lv, next) = PhysicalEnd(lv, at) /\ next[1] = q
    BY <1>1, <1>4, <2>1 DEF IntervalEntry
  <2> HIDE DEF next, q
  <2>3. IntervalEntry(lv, at) < PhysicalEnd(lv, at)
    BY <1>1, <1>3
  <2>4. QED
    BY <1>3, <2>2, <2>3 DEF next, q
<1>5. CASE ~ (at[2] + 1 < Counters(lv, q))
  <2>1. next = <<q + 1, 0>>
    BY <1>5 DEF Successor
  <2>2. q + 1 \in RangeNum /\ next[1] = q + 1
    BY <1>2, <2>1
  <2>3. lv.ranges[q + 1].physical \in Nat /\ lv.interval \in Nat
    BY <2>2, RangeIs DEF Counted
  <2>4. IntervalEntry(lv, next) = lv.ranges[q + 1].physical
    <3>1. IntervalEntry(lv, next) = lv.ranges[q + 1].physical + lv.interval * 0
      BY <2>1 DEF IntervalEntry
    <3>2. QED
      BY <2>3, <3>1
  <2>5. PhysicalEnd(lv, at) = LastPhysical(lv.ranges[q]) + 1
    BY <1>1, <1>5
  <2>6. IntervalEntry(lv, at) < IntervalEntry(lv, next)
    <3>1. q < q + 1
      BY <1>3
    <3>2. QED
      BY <1>1, <1>2, <2>2, <3>1, RangesApart
  <2>7. ASSUME NEW p \in Used(lv)
        PROVE  p < PhysicalEnd(lv, at) <=> p < IntervalEntry(lv, next)
    <3>1. PICK t \in RangeNum : p \in lv.ranges[t].physical .. LastPhysical(lv.ranges[t])
      BY UsedIs
    <3>2. p \in Nat /\ t \in Nat
      BY UsedIs, <3>1, RangeIs
    <3>3. LastPhysical(lv.ranges[q]) \in lv.ranges[q].physical .. LastPhysical(lv.ranges[q])
          /\ LastPhysical(lv.ranges[q]) \in Nat
      BY <1>1, <1>3, RangeIs
    <3>4. IntervalEntry(lv, next) \in lv.ranges[q + 1].physical .. LastPhysical(lv.ranges[q + 1])
      BY <1>2, <2>2
    <3>5. t < q => p < LastPhysical(lv.ranges[q])
      BY <1>1, <3>1, <3>3, RangesApart
    <3>6. q < t => LastPhysical(lv.ranges[q]) < p
      BY <1>1, <3>1, <3>3, RangesApart
    <3>7. t < q + 1 => p < IntervalEntry(lv, next)
      BY <2>2, <3>1, <3>4, RangesApart
    <3>8. ~ (t < q + 1) => lv.ranges[q + 1].physical <= p
      <4>1. lv.ranges[q + 1].physical \in lv.ranges[q + 1].physical .. LastPhysical(lv.ranges[q + 1])
        BY <2>2, RangeIs
      <4>2. q + 1 < t => lv.ranges[q + 1].physical < p
        BY <2>2, <3>1, <4>1, RangesApart
      <4>3. q + 1 = t => lv.ranges[q + 1].physical <= p
        BY <2>3, <3>1
      <4>4. QED
        BY <1>3, <2>3, <3>2, <4>2, <4>3
    <3>9. t = q => p <= LastPhysical(lv.ranges[q])
      BY <3>1
    <3> HIDE DEF next, q
    <3>10. QED
      BY <1>3, <2>3, <2>4, <2>5, <3>2, <3>3, <3>5, <3>6, <3>7, <3>8, <3>9
  <2> HIDE DEF next, q
  <2>8. QED
    BY <1>3, <2>2, <2>6, <2>7 DEF next, q
<1>6. QED
  BY <1>4, <1>5

(* The intervals of a level in their list. *)
LEMMA IntervalsAre ==
  ASSUME NEW lv, Built(lv), Counted(lv)
  PROVE  LET s == Intervals(lv)
         IN /\ Len(s) \in Nat \ {0}
            /\ \A i \in 1 .. Len(s) : IsInterval(lv, s[i], Threads)
            /\ IntervalEntry(lv, s[1]) = 0 /\ s[1] = <<0, 0>>
            /\ PhysicalEnd(lv, s[Len(s)]) = LastPhysical(lv.ranges[Threads - 1]) + 1
            /\ s[Len(s)][1] = Threads - 1
            /\ \A i \in 1 .. Len(s) - 1 : s[i + 1] = Successor(lv, s[i])
<1> DEFINE s == Intervals(lv)
           n == Len(s)
<1>1. WellFormed(lv) /\ lv.ranges[0].physical = 0
  BY DEF Built
<1>2. Listed(lv, s, Threads)
  BY <1>1, IntervalsListed
<1> HIDE DEF s
<1>3. Threads # 0 /\ Threads - 1 \in RangeNum
  BY SearchAssumption DEF RangeNum
<1>4. n \in Nat \ {0} /\ s[1] = <<0, 0>> /\ s[n] = <<Threads - 1, Counters(lv, Threads - 1) - 1>>
  BY <1>2, <1>3 DEF Listed
<1> HIDE DEF n
<1>5. \A i \in 1 .. n : IsInterval(lv, s[i], Threads)
  BY <1>2 DEF Listed, n
<1>6. \A i \in 1 .. n - 1 : s[i + 1] = Successor(lv, s[i])
  BY <1>2 DEF Listed, n
<1>7. IntervalEntry(lv, s[1]) = 0
  <2>1. lv.interval \in Nat
    BY DEF Counted
  <2>2. IntervalEntry(lv, s[1]) = lv.ranges[0].physical + lv.interval * 0
    BY <1>4 DEF IntervalEntry
  <2>3. QED
    BY <1>1, <2>1, <2>2
<1>8. PhysicalEnd(lv, s[n]) = LastPhysical(lv.ranges[Threads - 1]) + 1
  <2>1. n \in 1 .. n
    BY <1>4
  <2>2. Counters(lv, Threads - 1) \in Nat
    BY <1>1, <1>3, CountersAre
  <2>3. s[n][1] = Threads - 1 /\ ~ (s[n][2] + 1 < Counters(lv, s[n][1]))
    BY <1>4, <2>2
  <2>4. QED
    BY <1>1, <1>5, <2>1, <2>3, IntervalIs
<1>9. QED
  BY <1>4, <1>5, <1>6, <1>7, <1>8 DEF n, s

(* Intervals begin one behind the other. *)
LEMMA IntervalsAscend ==
  ASSUME NEW lv, Built(lv), Counted(lv),
         NEW i \in 1 .. Len(Intervals(lv)), NEW j \in 1 .. Len(Intervals(lv)), i < j
  PROVE  /\ IntervalEntry(lv, Intervals(lv)[i]) < IntervalEntry(lv, Intervals(lv)[j])
         /\ Intervals(lv)[i][1] <= Intervals(lv)[j][1]
<1> DEFINE s == Intervals(lv)
           n == Len(s)
           e(m) == IntervalEntry(lv, s[m])
           G == {m \in 0 .. n - i : /\ m # 0 => e(i) < e(i + m)
                                    /\ s[i][1] <= s[i + m][1]}
<1>1. /\ n \in Nat /\ i \in Nat /\ j \in Nat /\ WellFormed(lv)
      /\ \A m \in 1 .. n : IsInterval(lv, s[m], Threads)
      /\ \A m \in 1 .. n - 1 : s[m + 1] = Successor(lv, s[m])
  BY IntervalsAre DEF Built
<1> HIDE DEF s
<1>2. \A m \in 1 .. n : e(m) \in Nat /\ s[m][1] \in Nat
  <2>1. ASSUME NEW m \in 1 .. n PROVE e(m) \in Nat /\ s[m][1] \in Nat
    <3>1. s[m][1] \in RangeNum
          /\ e(m) \in lv.ranges[s[m][1]].physical .. LastPhysical(lv.ranges[s[m][1]])
      BY <1>1, IntervalIs
    <3>2. QED
      BY <1>1, <3>1, RangeIs
  <2>2. QED
    BY <2>1
<1>3. \A m \in 1 .. n - 1 : e(m) < e(m + 1) /\ s[m][1] <= s[m + 1][1]
  <2>1. ASSUME NEW m \in 1 .. n - 1 PROVE e(m) < e(m + 1) /\ s[m][1] <= s[m + 1][1]
    <3>1. m \in 1 .. n /\ m + 1 \in 1 .. n
      BY <1>1
    <3>2. QED
      BY <1>1, <3>1, NextInterval
  <2>2. QED
    BY <2>1
<1> HIDE DEF e, n
<1>4. 0 \in G
  <2>1. i + 0 = i /\ 0 \in 0 .. n - i /\ i \in 1 .. n
    BY <1>1 DEF s, n
  <2>2. QED
    BY <1>2, <2>1
<1>5. ASSUME NEW m \in 0 .. (n - i) - 1, m \in G PROVE m + 1 \in G
  <2>1. i + m \in 1 .. n - 1 /\ i + m \in 1 .. n /\ i + (m + 1) = (i + m) + 1 /\ (i + m) + 1 \in 1 .. n /\ i \in 1 .. n
        /\ m + 1 \in 0 .. n - i
    BY <1>1 DEF s, n
  <2>2. e(i + m) < e((i + m) + 1) /\ s[i + m][1] <= s[(i + m) + 1][1]
    BY <1>3, <2>1
  <2>3. /\ e(i + m) \in Nat /\ e((i + m) + 1) \in Nat /\ e(i) \in Nat
        /\ s[i + m][1] \in Nat /\ s[(i + m) + 1][1] \in Nat /\ s[i][1] \in Nat
    BY <1>2, <2>1
  <2>4. e(i) <= e(i + m)
    <3>1. CASE m = 0
      BY <1>1, <2>3, <3>1
    <3>2. CASE m # 0
      BY <1>5, <2>3, <3>2
    <3>3. QED
      BY <3>1, <3>2
  <2>5. s[i][1] <= s[i + m][1]
    BY <1>5
  <2>6. e(i) < e(i + (m + 1)) /\ s[i][1] <= s[i + (m + 1)][1]
    <3>1. e(i) < e((i + m) + 1) /\ s[i][1] <= s[(i + m) + 1][1]
      BY <2>2, <2>3, <2>4, <2>5
    <3>2. QED
      BY <2>1, <3>1
  <2>7. QED
    BY <2>1, <2>6
<1>6. j - i \in G /\ j - i # 0 /\ i + (j - i) = j
  <2>1. n - i \in Nat /\ j - i \in 0 .. n - i /\ j - i # 0 /\ i + (j - i) = j
    BY <1>1 DEF s, n
  <2> HIDE DEF G
  <2>2. \A m \in 0 .. n - i : m \in G
    BY <1>4, <1>5, <2>1, Induct
  <2>3. QED
    BY <2>1, <2>2
<1>7. QED
  BY <1>6 DEF e, s

-----------------------------------------------------------------------------
(* The shares of the expanders *)

(* What an expander moves: the entries in use from the first one of its    *)
(* first interval to the end of its last.                                  *)
LEMMA OldEntriesAre ==
  ASSUME NEW lv, WellFormed(lv), Counted(lv), NEW r,
         IsInterval(lv, BeginInterval(lv, r), Threads), IsInterval(lv, EndInterval(lv, r), Threads),
         BeginInterval(lv, r)[1] <= EndInterval(lv, r)[1]
  PROVE  OldEntries(lv, r) =
           {p \in Used(lv) : /\ IntervalEntry(lv, BeginInterval(lv, r)) <= p
                             /\ p < PhysicalEnd(lv, EndInterval(lv, r))}
<1> DEFINE begin == BeginInterval(lv, r)
           end   == EndInterval(lv, r)
           from  == IntervalEntry(lv, begin)
           upto  == PhysicalEnd(lv, end)
           lo(q) == IF q = begin[1] THEN from ELSE lv.ranges[q].physical
           hi(q) == (IF q = end[1] THEN upto ELSE LastPhysical(lv.ranges[q]) + 1) - 1
<1>1. OldEntries(lv, r) = UNION {lo(q) .. hi(q) : q \in begin[1] .. end[1]}
  BY DEF OldEntries
<1>2. begin[1] \in RangeNum /\ from \in lv.ranges[begin[1]].physical .. LastPhysical(lv.ranges[begin[1]])
  BY IntervalIs
<1>3. /\ end[1] \in RangeNum
      /\ IntervalEntry(lv, end) \in lv.ranges[end[1]].physical .. LastPhysical(lv.ranges[end[1]])
      /\ upto \in IntervalEntry(lv, end) + 1 .. LastPhysical(lv.ranges[end[1]]) + 1
  BY IntervalIs
<1>4. begin[1] <= end[1]
  OBVIOUS
<1> HIDE DEF begin, end, from, upto
<1>5. from \in Nat /\ upto \in Nat /\ lv.ranges[end[1]].physical < upto
      /\ begin[1] \in Nat /\ end[1] \in Nat
  BY <1>2, <1>3, RangeIs
<1>6. \A q \in begin[1] .. end[1] :
        /\ q \in RangeNum /\ q \in Nat
        /\ lo(q) \in lv.ranges[q].physical .. LastPhysical(lv.ranges[q])
        /\ hi(q) \in lv.ranges[q].physical .. LastPhysical(lv.ranges[q])
  <2>1. ASSUME NEW q \in begin[1] .. end[1]
        PROVE  /\ q \in RangeNum /\ q \in Nat
               /\ lo(q) \in lv.ranges[q].physical .. LastPhysical(lv.ranges[q])
               /\ hi(q) \in lv.ranges[q].physical .. LastPhysical(lv.ranges[q])
    <3>1. q \in RangeNum /\ q \in Nat
      <4>1. q \in 0 .. Threads - 1 /\ q \in Nat
        <5>1. q \in Nat /\ q <= end[1] /\ end[1] <= Threads - 1
          BY <1>3, <1>5, SearchAssumption DEF RangeNum
        <5>2. QED
          BY <1>5, <5>1, SearchAssumption
      <4>2. QED
        BY <4>1 DEF RangeNum
    <3>2. /\ lv.ranges[q].physical \in Nat /\ lv.ranges[q].entries \in Nat \ {0}
          /\ LastPhysical(lv.ranges[q]) = lv.ranges[q].physical + lv.ranges[q].entries - 1
      BY <3>1, RangeIs
    <3>3. QED
      BY <1>2, <1>3, <1>5, <3>1, <3>2
  <2>2. QED
    BY <2>1
<1>7. ASSUME NEW q \in begin[1] .. end[1], NEW p \in lo(q) .. hi(q)
      PROVE  p \in Used(lv) /\ from <= p /\ p < upto
  <2>1. /\ q \in RangeNum /\ q \in Nat
        /\ lo(q) \in lv.ranges[q].physical .. LastPhysical(lv.ranges[q])
        /\ hi(q) \in lv.ranges[q].physical .. LastPhysical(lv.ranges[q])
    BY <1>6
  <2>2. lv.ranges[q].physical \in Nat /\ LastPhysical(lv.ranges[q]) \in Int
    BY <2>1, RangeIs
  <2> HIDE DEF lo, hi
  <2>3. p \in lv.ranges[q].physical .. LastPhysical(lv.ranges[q]) /\ lo(q) <= p /\ p <= hi(q) /\ p \in Nat
    <3>1. p \in Int /\ lo(q) <= p /\ p <= hi(q)
      BY <2>1, <2>2
    <3>2. QED
      BY <2>1, <2>2, <3>1
  <2> USE DEF lo, hi
  <2>4. p \in Used(lv)
    BY <2>1, <2>3, RangesApart
  <2>5. from <= p
    <3>1. CASE q = begin[1]
      BY <2>3, <3>1
    <3>2. CASE q # begin[1]
      <4>1. begin[1] < q
        BY <1>5, <2>1, <3>2
      <4>2. from < p
        BY <1>2, <2>1, <2>3, <4>1, RangesApart
      <4>3. QED
        BY <1>5, <2>3, <4>2
    <3>3. QED
      BY <3>1, <3>2
  <2>6. p < upto
    <3>1. CASE q = end[1]
      BY <1>5, <2>3, <3>1
    <3>2. CASE q # end[1]
      <4>1. q < end[1]
        BY <1>5, <2>1, <3>2
      <4>2. lv.ranges[end[1]].physical \in lv.ranges[end[1]].physical .. LastPhysical(lv.ranges[end[1]])
            /\ lv.ranges[end[1]].physical \in Nat
        <5>1. /\ lv.ranges[end[1]].physical \in Nat /\ lv.ranges[end[1]].entries \in Nat \ {0}
              /\ LastPhysical(lv.ranges[end[1]]) = lv.ranges[end[1]].physical + lv.ranges[end[1]].entries - 1
          BY <1>3, RangeIs
        <5> DEFINE x == lv.ranges[end[1]].physical
                   z == LastPhysical(lv.ranges[end[1]])
        <5>2. x \in Nat /\ z \in Int /\ x <= z
          BY <5>1
        <5> HIDE DEF x, z
        <5>3. x \in x .. z
          BY <5>2
        <5>4. QED
          BY <5>2, <5>3 DEF x, z
      <4>3. PICK y : /\ y = lv.ranges[end[1]].physical
                     /\ y \in lv.ranges[end[1]].physical .. LastPhysical(lv.ranges[end[1]])
        BY <4>2
      <4>4. p < y
        <5>1. /\ q \in RangeNum /\ end[1] \in RangeNum
              /\ p \in lv.ranges[q].physical .. LastPhysical(lv.ranges[q])
              /\ y \in lv.ranges[end[1]].physical .. LastPhysical(lv.ranges[end[1]])
          BY <1>3, <2>1, <2>3, <4>3
        <5>2. q < end[1] => p < y
          BY <5>1, RangesApart
        <5>3. QED
          BY <4>1, <5>2
      <4>5. QED
        BY <1>5, <2>3, <4>2, <4>3, <4>4
    <3>3. QED
      BY <3>1, <3>2
  <2>7. QED
    BY <2>4, <2>5, <2>6
<1>8. ASSUME NEW p \in Used(lv), from <= p, p < upto
      PROVE  \E q \in begin[1] .. end[1] : p \in lo(q) .. hi(q)
  <2>1. PICK q \in RangeNum : p \in lv.ranges[q].physical .. LastPhysical(lv.ranges[q])
    BY UsedIs
  <2>2. p \in Nat /\ q \in Nat
    BY <2>1, UsedIs, RangeIs
  <2>3. begin[1] <= q
    BY <1>2, <1>8, <2>1, RangesApart
  <2>4. q <= end[1]
    <3>1. LastPhysical(lv.ranges[end[1]]) \in lv.ranges[end[1]].physical .. LastPhysical(lv.ranges[end[1]])
          /\ LastPhysical(lv.ranges[end[1]]) \in Nat
      BY <1>3, RangeIs
    <3>2. p <= LastPhysical(lv.ranges[end[1]])
      BY <1>3, <1>5, <1>8, <2>2, <3>1
    <3>3. QED
      BY <1>3, <2>1, <3>1, <3>2, RangesApart
  <2>5. q \in begin[1] .. end[1]
    BY <1>5, <2>2, <2>3, <2>4
  <2>6. lv.ranges[q].physical \in Nat /\ LastPhysical(lv.ranges[q]) \in Int
    BY <2>1, RangeIs
  <2>7. p \in lo(q) .. hi(q)
    BY <1>5, <1>8, <2>1, <2>2, <2>6
  <2>8. QED
    BY <2>5, <2>7
<1> HIDE DEF lo, hi
<1>9. QED
  BY <1>1, <1>7, <1>8 DEF from, upto, begin, end

(* The sums of the counters. *)
LEMMA Remainder ==
  ASSUME NEW a \in Nat, NEW w \in Nat \ {0}
  PROVE  a % w \in 0 .. w - 1 /\ (a < w => a % w = a)
OBVIOUS

(* The running sums are words, and the first one is the first counter.     *)
LEMMA SumsAre ==
  ASSUME NEW lv, Built(lv), Counted(lv)
  PROVE  /\ \A i \in 0 .. Len(Intervals(lv)) : SumTo(lv, i) \in 0 .. WordSize - 1
         /\ SumTo(lv, 1) = lv.sizes[0][0]
<1> DEFINE s == Intervals(lv)
           n == Len(s)
           S == 0 .. WordSize - 1
           f == CHOOSE f : f = [i \in 0 .. n |->
                  IF i = 0 THEN 0 ELSE (f[i - 1] + SizeOf(lv, s[i])) % WordSize]
           F == [x \in S \X (1 .. n) |-> (x[1] + SizeOf(lv, s[x[2]])) % WordSize]
<1>1. \A i : SumTo(lv, i) = f[i]
  BY DEF SumTo
<1>2. n \in Nat \ {0} /\ s[1] = <<0, 0>> /\ \A i \in 1 .. n : IsInterval(lv, s[i], Threads)
  BY IntervalsAre
<1>3. WordSize \in Nat \ {0} /\ WordSize \in Nat
  BY GenerationAssumption
<1> HIDE DEF s
<1>4. \A i \in 1 .. n : SizeOf(lv, s[i]) \in S
  <2>1. ASSUME NEW i \in 1 .. n PROVE SizeOf(lv, s[i]) \in S
    <3>1. s[i][1] \in RangeNum /\ s[i][2] \in 0 .. Counters(lv, s[i][1]) - 1
      BY <1>2, IntervalIs DEF Built
    <3>2. QED
      BY <3>1 DEF SizeOf, Counted
  <2>2. QED
    BY <2>1
<1> HIDE DEF n
<1>5. F \in [S \X (1 .. n) -> S]
  <2>1. ASSUME NEW x \in S \X (1 .. n) PROVE (x[1] + SizeOf(lv, s[x[2]])) % WordSize \in S
    <3>1. x[1] + SizeOf(lv, s[x[2]]) \in Nat
      BY <1>3, <1>4
    <3>2. QED
      BY <1>3, <3>1, Remainder, Zenon
  <2>2. QED
    BY <2>1
<1>6. 0 \in S
  BY <1>3
<1>7. PICK g : Turns(g, n, S, 0, F)
  BY <1>2, <1>5, <1>6, TurnsExist
<1>8. g \in [0 .. n -> S] /\ g[0] = 0
  BY <1>7 DEF Turns
<1>9. \A i \in 0 .. n : g[i] = IF i = 0 THEN 0 ELSE (g[i - 1] + SizeOf(lv, s[i])) % WordSize
  <2>1. ASSUME NEW i \in 0 .. n, i # 0 PROVE g[i] = (g[i - 1] + SizeOf(lv, s[i])) % WordSize
    <3>1. i \in 1 .. n /\ i - 1 \in 0 .. n
      BY <1>2, <2>1
    <3>2. g[i] = F[<<g[i - 1], i>>] /\ <<g[i - 1], i>> \in S \X (1 .. n)
      BY <1>7, <1>8, <3>1 DEF Turns
    <3>3. QED
      BY <3>2
  <2>2. QED
    BY <1>8, <2>1
<1>10. f = [i \in 0 .. n |-> IF i = 0 THEN 0 ELSE (f[i - 1] + SizeOf(lv, s[i])) % WordSize]
  <2>1. g = [i \in 0 .. n |-> IF i = 0 THEN 0 ELSE (g[i - 1] + SizeOf(lv, s[i])) % WordSize]
    BY <1>8, <1>9
  <2>2. QED
    BY <2>1
<1> HIDE DEF f
<1> DEFINE G == {i \in 0 .. n : f[i] \in S}
<1>11. 0 \in G
  BY <1>2, <1>6, <1>10
<1>12. ASSUME NEW i \in 0 .. n - 1, i \in G PROVE i + 1 \in G
  <2>1. i + 1 \in 0 .. n /\ i + 1 \in 1 .. n /\ i + 1 # 0 /\ (i + 1) - 1 = i
    BY <1>2
  <2>2. f[i + 1] = (f[i] + SizeOf(lv, s[i + 1])) % WordSize
    BY <1>10, <2>1
  <2>3. f[i] + SizeOf(lv, s[i + 1]) \in Nat
    BY <1>3, <1>4, <1>12, <2>1
  <2>4. f[i + 1] \in S
    BY <1>3, <2>2, <2>3, Remainder, Zenon
  <2>5. QED
    BY <2>1, <2>4
<1>13. \A i \in 0 .. n : f[i] \in S
  <2> HIDE DEF G
  <2>1. \A i \in 0 .. n : i \in G
    BY <1>2, <1>11, <1>12, Induct
  <2>2. QED
    BY <2>1 DEF G
<1>14. f[1] = lv.sizes[0][0]
  <2>1. 1 \in 0 .. n /\ 0 \in 0 .. n /\ 1 \in 1 .. n /\ 1 - 1 = 0
    BY <1>2
  <2>2. f[0] = 0 /\ f[1] = (f[1 - 1] + SizeOf(lv, s[1])) % WordSize
    BY <1>10, <2>1
  <2>3. SizeOf(lv, s[1]) = lv.sizes[0][0] /\ SizeOf(lv, s[1]) \in Nat /\ SizeOf(lv, s[1]) < WordSize
    BY <1>2, <1>3, <1>4, <2>1 DEF SizeOf
  <2>4. f[1] = SizeOf(lv, s[1]) % WordSize
    <3>1. f[1 - 1] + SizeOf(lv, s[1]) = SizeOf(lv, s[1])
      BY <2>1, <2>2, <2>3
    <3>2. QED
      BY <2>2, <3>1
  <2>5. QED
    BY <1>3, <2>3, <2>4, Remainder, Zenon
<1>15. QED
  BY <1>1, <1>13, <1>14 DEF n, s

(* One turn of the greedy cut. *)
Begun(cut, i) ==
  /\ cut \in [begins : Seq(Nat), target : Nat, least : Nat]
  /\ Len(cut.begins) # 0 /\ cut.begins[1] = 1
  /\ \A m \in 1 .. Len(cut.begins) : cut.begins[m] \in 1 .. i
  /\ \A m, k \in 1 .. Len(cut.begins) : m < k => cut.begins[m] < cut.begins[k]

(* A turn of the cut leaves its three variables numbers and a list of      *)
(* numbers.                                                                *)
LEMMA CutStepType ==
  ASSUME NEW lv, Built(lv), Counted(lv), NEW share \in Nat, NEW i \in 1 .. Len(Intervals(lv)),
         NEW cut \in [begins : Seq(Nat), target : Nat, least : Nat]
  PROVE  CutStep(lv, share, cut, i) \in [begins : Seq(Nat), target : Nat, least : Nat]
<1> DEFINE sum  == SumTo(lv, i)
           next == IF Len(cut.begins) = Threads - 1 THEN WordSize - 1 ELSE (cut.target + share) % WordSize
<1>1. WordSize \in Nat /\ WordSize # 0
  BY GenerationAssumption
<1>2. Len(Intervals(lv)) \in Nat
  BY IntervalsAre
<1>3. sum \in Nat /\ i \in Nat
  <2>1. i \in 0 .. Len(Intervals(lv)) /\ i \in Nat
    BY <1>2
  <2>2. sum \in 0 .. WordSize - 1
    BY <2>1, SumsAre
  <2>3. QED
    BY <1>1, <2>1, <2>2
<1>4. next \in Nat
  <2>1. (cut.target + share) % WordSize \in 0 .. WordSize - 1
    <3>1. cut.target + share \in Nat
      OBVIOUS
    <3>2. QED
      BY <1>1, <3>1, Remainder
  <2>2. QED
    BY <1>1, <2>1
<1> HIDE DEF sum, next
<1>5. \A a, b \in Nat : Distance(a, b) \in Nat
  BY DEF Distance
<1>6. CutStep(lv, share, cut, i) =
        IF Distance(sum, cut.target) < cut.least
        THEN [cut EXCEPT !.least = Distance(sum, cut.target)]
        ELSE [begins |-> Append(cut.begins, i), target |-> next, least |-> Distance(sum, next)]
  BY DEF CutStep, sum, next
<1>7. Append(cut.begins, i) \in Seq(Nat)
  BY <1>3
<1>8. QED
  BY <1>3, <1>4, <1>5, <1>6, <1>7

(* A turn begins at most one share, behind all shares begun before.        *)
LEMMA CutStepIs ==
  ASSUME NEW lv, Built(lv), Counted(lv), NEW share \in Nat, NEW i \in Nat \ {0},
         i + 1 \in 1 .. Len(Intervals(lv)), NEW cut, Begun(cut, i)
  PROVE  Begun(CutStep(lv, share, cut, i + 1), i + 1)
<1> DEFINE new == CutStep(lv, share, cut, i + 1)
           s   == cut.begins
           l   == Len(s)
<1>1. cut \in [begins : Seq(Nat), target : Nat, least : Nat]
  BY DEF Begun
<1>2. new \in [begins : Seq(Nat), target : Nat, least : Nat]
  BY <1>1, CutStepType
<1>3. new.begins = s \/ new.begins = Append(s, i + 1)
  BY <1>1 DEF CutStep
<1>4. /\ s \in Seq(Nat) /\ l \in Nat /\ l # 0 /\ s[1] = 1
      /\ \A m \in 1 .. l : s[m] \in 1 .. i
      /\ \A m, k \in 1 .. l : m < k => s[m] < s[k]
  BY <1>1 DEF Begun
<1> HIDE DEF new, s
<1>5. CASE new.begins = s
  <2>1. \A m \in 1 .. l : s[m] \in 1 .. i + 1
    BY <1>4
  <2>2. QED
    BY <1>2, <1>4, <1>5, <2>1 DEF Begun, new
<1>6. CASE new.begins = Append(s, i + 1)
  <2> DEFINE t == Append(s, i + 1)
  <2>1. Len(t) = l + 1 /\ t[l + 1] = i + 1 /\ \A m \in 1 .. l : t[m] = s[m]
    BY <1>4
  <2> HIDE DEF t, l
  <2>2. Len(t) # 0 /\ t[1] = 1
    BY <1>4, <2>1
  <2>3. ASSUME NEW m \in 1 .. l + 1 PROVE t[m] \in 1 .. i + 1 /\ (m # l + 1 => t[m] \in 1 .. i)
    <3>1. m \in 1 .. l \/ m = l + 1
      BY <1>4
    <3>2. \A x \in 1 .. i : x \in 1 .. i + 1
      OBVIOUS
    <3>3. i + 1 \in 1 .. i + 1
      OBVIOUS
    <3>4. QED
      BY <1>4, <2>1, <3>1, <3>2, <3>3
  <2>4. ASSUME NEW m \in 1 .. l + 1, NEW k \in 1 .. l + 1, m < k PROVE t[m] < t[k]
    <3>1. m \in 1 .. l
      BY <1>4, <2>4
    <3>2. CASE k = l + 1
      <4>1. t[m] \in 1 .. i /\ t[k] = i + 1
        BY <1>4, <2>1, <3>1, <3>2
      <4>2. QED
        BY <4>1
    <3>3. CASE k # l + 1
      <4>1. k \in 1 .. l
        BY <1>4, <3>3
      <4>2. QED
        BY <1>4, <2>1, <2>4, <3>1, <4>1
    <3>4. QED
      BY <3>2, <3>3
  <2>5. new.begins = t
    BY <1>6 DEF t
  <2>6. QED
    BY <1>2, <2>1, <2>2, <2>3, <2>4, <2>5 DEF Begun, new
<1>7. QED
  BY <1>3, <1>5, <1>6

(* The first turn never cuts: it would have to find the running sum as far *)
(* from its target as counters can be apart.                               *)
LEMMA ShareBelow ==
  ASSUME NEW a \in Nat, NEW t \in Nat, t >= 2, NEW w \in Nat, w >= 1, a <= w
  PROVE  a \div t \in Nat /\ a \div t < w
<1>1. a = t * (a \div t) + (a % t) /\ a % t \in 0 .. t - 1 /\ a \div t \in Nat
  <2>1. t \in Nat \ {0}
    OBVIOUS
  <2>2. QED
    BY <2>1, Division, Zenon
<1> DEFINE q == a \div t
<1>2. 2 * q <= t * q
  <2>1. 2 * q <= t * q
    BY <1>1, ProductOrder
  <2>2. QED
    BY <2>1
<1>3. PICK x \in Int : x = t * q
  BY <1>1
<1> HIDE DEF q
<1>4. q \in Nat
  BY <1>1 DEF q
<1>5. 2 * q <= a
  <2>1. a = x + (a % t) /\ a % t >= 0 /\ a % t \in Int
    BY <1>1, <1>3 DEF q
  <2>2. QED
    BY <1>2, <1>3, <1>4, <2>1
<1>6. QED
  BY <1>4, <1>5 DEF q

(* So after the first turn one share has begun, at the first interval.     *)
LEMMA FirstTurn ==
  ASSUME NEW lv, Built(lv), Counted(lv), lv.sizes[0][0] # WordSize - 1,
         NEW share \in Nat, share < WordSize - 1
  PROVE  Begun(CutStep(lv, share, [begins |-> <<1>>, target |-> share, least |-> WordSize - 1], 1), 1)
<1> DEFINE cut == [begins |-> <<1>>, target |-> share, least |-> WordSize - 1]
           sum == SumTo(lv, 1)
           d   == Distance(sum, share)
<1>1. WordSize \in Nat /\ WordSize # 0
  BY GenerationAssumption
<1>2. sum \in Nat /\ sum < WordSize - 1
  <2>1. 1 \in 0 .. Len(Intervals(lv))
    BY IntervalsAre
  <2>2. sum \in 0 .. WordSize - 1 /\ sum # WordSize - 1
    BY <2>1, SumsAre
  <2>3. QED
    BY <1>1, <2>2
<1> HIDE DEF sum
<1>3. d \in Nat /\ d < WordSize - 1
  BY <1>1, <1>2 DEF Distance
<1> HIDE DEF d
<1>4. CutStep(lv, share, cut, 1) = [cut EXCEPT !.least = d]
  BY <1>3 DEF CutStep, d, sum
<1>5. [cut EXCEPT !.least = d] = [begins |-> <<1>>, target |-> share, least |-> d]
  OBVIOUS
<1>6. <<1>> \in Seq(Nat) /\ Len(<<1>>) = 1 /\ <<1>>[1] = 1
  OBVIOUS
<1> DEFINE new == [begins |-> <<1>>, target |-> share, least |-> d]
<1>7. new \in [begins : Seq(Nat), target : Nat, least : Nat] /\ new.begins = <<1>>
  BY <1>3, <1>6
<1> HIDE DEF new
<1>8. Begun(new, 1)
  BY <1>6, <1>7 DEF Begun
<1>9. QED
  BY <1>4, <1>5, <1>8 DEF new

(* The numbers of the intervals at which the shares begin. *)
LEMMA CutIs ==
  ASSUME NEW lv, Built(lv), Counted(lv), lv.sizes[0][0] # WordSize - 1
  PROVE  LET c == Cut(lv)
         IN /\ c \in Seq(Nat) /\ Len(c) # 0 /\ c[1] = 1
            /\ \A m \in 1 .. Len(c) : c[m] \in 1 .. Len(Intervals(lv))
            /\ \A m, k \in 1 .. Len(c) : m < k => c[m] < c[k]
<1> DEFINE n     == Len(Intervals(lv))
           share == SumTo(lv, n) \div Threads
           first == [begins |-> <<1>>, target |-> share, least |-> WordSize - 1]
           f     == CHOOSE f : f = [i \in 0 .. n |->
                      IF i = 0 THEN first ELSE CutStep(lv, share, f[i - 1], i)]
           S     == [begins : Seq(Nat), target : Nat, least : Nat]
           F     == [x \in S \X (1 .. n) |-> CutStep(lv, share, x[1], x[2])]
<1>1. Cut(lv) = f[n].begins
  BY DEF Cut
<1> HIDE DEF f
<1>2. n \in Nat \ {0}
  BY IntervalsAre
<1>3. WordSize \in Nat /\ WordSize # 0 /\ WordSize # 1 /\ Threads \in Nat /\ Threads >= 2
  BY GenerationAssumption, IndexAssumption
<1>4. share \in Nat /\ share < WordSize - 1
  <2>1. SumTo(lv, n) \in 0 .. WordSize - 1
    BY <1>2, SumsAre
  <2> HIDE DEF n
  <2>2. SumTo(lv, n) \in Nat /\ SumTo(lv, n) <= WordSize - 1 /\ WordSize - 1 \in Nat /\ WordSize - 1 >= 1
    BY <1>3, <2>1
  <2>3. QED
    BY <1>3, <2>2, ShareBelow
<1> HIDE DEF share
<1>5. first \in S
  BY <1>3, <1>4
<1>6. F \in [S \X (1 .. n) -> S]
  <2>1. ASSUME NEW x \in S \X (1 .. n) PROVE CutStep(lv, share, x[1], x[2]) \in S
    <3>1. x[1] \in S /\ x[2] \in 1 .. n
      OBVIOUS
    <3> HIDE DEF S
    <3>2. QED
      BY <1>4, <3>1, CutStepType DEF S
  <2> HIDE DEF S, n
  <2>2. QED
    BY <2>1
<1> HIDE DEF S, n, first
<1>7. PICK g : Turns(g, n, S, first, F)
  BY <1>2, <1>5, <1>6, TurnsExist
<1>8. g \in [0 .. n -> S] /\ g[0] = first
  BY <1>7 DEF Turns
<1>9. \A i \in 0 .. n : g[i] = IF i = 0 THEN first ELSE CutStep(lv, share, g[i - 1], i)
  <2>1. ASSUME NEW i \in 0 .. n, i # 0 PROVE g[i] = CutStep(lv, share, g[i - 1], i)
    <3>1. i \in 1 .. n /\ i - 1 \in 0 .. n
      BY <1>2, <2>1
    <3>2. g[i] = F[<<g[i - 1], i>>] /\ <<g[i - 1], i>> \in S \X (1 .. n)
      BY <1>7, <1>8, <3>1 DEF Turns
    <3>3. QED
      BY <3>2
  <2>2. QED
    BY <1>8, <2>1
<1>10. f = [i \in 0 .. n |-> IF i = 0 THEN first ELSE CutStep(lv, share, f[i - 1], i)]
  <2>1. g = [i \in 0 .. n |-> IF i = 0 THEN first ELSE CutStep(lv, share, g[i - 1], i)]
    BY <1>8, <1>9
  <2>2. QED
    BY <2>1 DEF f
<1> HIDE DEF F
<1> DEFINE G == {i \in 0 .. n : i # 0 => Begun(f[i], i)}
<1>11. 0 \in G
  BY <1>2
<1>12. ASSUME NEW i \in 0 .. n - 1, i \in G PROVE i + 1 \in G
  <2>1. i + 1 \in 0 .. n /\ i + 1 \in 1 .. n /\ i + 1 # 0 /\ (i + 1) - 1 = i /\ i \in Nat /\ i \in 0 .. n
    BY <1>2
  <2>2. f[i + 1] = CutStep(lv, share, f[i], i + 1)
    BY <1>10, <2>1
  <2>3. CASE i = 0
    <3>1. f[0] = first
      BY <1>10, <2>1, <2>3
    <3>2. Begun(CutStep(lv, share, first, 1), 1)
      BY <1>4, FirstTurn DEF first
    <3>3. QED
      BY <2>1, <2>2, <2>3, <3>1, <3>2
  <2>4. CASE i # 0
    <3>1. Begun(f[i], i)
      BY <1>12, <2>4
    <3>2. Begun(CutStep(lv, share, f[i], i + 1), i + 1)
      BY <1>4, <2>1, <2>4, <3>1, CutStepIs DEF n
    <3>3. QED
      BY <2>1, <2>2, <3>2
  <2>5. QED
    BY <2>3, <2>4
<1>13. Begun(f[n], n)
  <2> HIDE DEF G
  <2>1. \A i \in 0 .. n : i \in G
    BY <1>2, <1>11, <1>12, Induct
  <2>2. n \in 0 .. n /\ n # 0
    BY <1>2
  <2>3. n \in G
    BY <2>1, <2>2
  <2>4. QED
    BY <2>2, <2>3 DEF G
<1>14. f[n].begins \in Seq(Nat)
  BY <1>13 DEF Begun
<1>15. QED
  BY <1>1, <1>13, <1>14 DEF Begun, n

(* The first entry of a share. *)
First(lv, r) == IntervalEntry(lv, BeginInterval(lv, r))

(* The counter of the first interval is not what 0 minus one leaves.       *)
Countable(lv) == lv.sizes[0][0] # WordSize - 1

(* The shares begin at entries in use, one behind the other, and each ends *)
(* where the next begins.                                                  *)
LEMMA SharesAre ==
  ASSUME NEW lv, Built(lv), Counted(lv), Countable(lv), RangesAllCut(lv)
  PROVE  /\ \A r \in RangeNum : First(lv, r) \in Used(lv) /\ First(lv, r) \in Nat
         /\ First(lv, 0) = 0
         /\ \A r, s \in RangeNum : r < s => First(lv, r) < First(lv, s)
         /\ \A r \in RangeNum :
              OldEntries(lv, r) =
                {p \in Used(lv) : First(lv, r) <= p /\ (r + 1 \in RangeNum => p < First(lv, r + 1))}
<1> DEFINE s == Intervals(lv)
           n == Len(s)
           c == Cut(lv)
<1>1. WellFormed(lv)
  BY DEF Built
<1>2. /\ n \in Nat \ {0}
      /\ \A i \in 1 .. n : IsInterval(lv, s[i], Threads)
      /\ IntervalEntry(lv, s[1]) = 0
      /\ PhysicalEnd(lv, s[n]) = LastPhysical(lv.ranges[Threads - 1]) + 1
      /\ s[n][1] = Threads - 1
      /\ \A i \in 1 .. n - 1 : s[i + 1] = Successor(lv, s[i])
  BY IntervalsAre
<1>3. /\ \A m \in 1 .. Threads : c[m] \in 1 .. n
      /\ \A m, k \in 1 .. Threads : m < k => c[m] < c[k]
      /\ c[1] = 1
  BY CutIs DEF Countable, RangesAllCut
<1>4. \A i, j \in 1 .. n : i < j => /\ IntervalEntry(lv, s[i]) < IntervalEntry(lv, s[j])
                                    /\ s[i][1] <= s[j][1]
  BY IntervalsAscend
<1>5. \A i \in 1 .. n : /\ IntervalEntry(lv, s[i]) \in Used(lv) /\ IntervalEntry(lv, s[i]) \in Nat
                        /\ s[i][1] \in Nat
  <2>1. ASSUME NEW i \in 1 .. n
        PROVE  IntervalEntry(lv, s[i]) \in Used(lv) /\ IntervalEntry(lv, s[i]) \in Nat /\ s[i][1] \in Nat
    <3>1. IsInterval(lv, s[i], Threads)
      BY <1>2
    <3>2. s[i][1] \in RangeNum
          /\ IntervalEntry(lv, s[i]) \in lv.ranges[s[i][1]].physical .. LastPhysical(lv.ranges[s[i][1]])
      BY <1>1, <3>1, IntervalIs
    <3>3. QED
      BY <1>1, <3>2, RangesApart, RangeIs
  <2>2. QED
    BY <2>1
<1>6. \A r : First(lv, r) = IntervalEntry(lv, s[c[r + 1]]) /\ BeginInterval(lv, r) = s[c[r + 1]]
  BY DEF First, BeginInterval
<1>7. \A r : EndInterval(lv, r) = s[IF r = Threads - 1 THEN n ELSE c[r + 2] - 1]
  BY DEF EndInterval
<1>8. Threads \in Nat \ {0} /\ \A r : r \in RangeNum <=> r \in 0 .. Threads - 1
  BY SearchAssumption DEF RangeNum
<1> HIDE DEF s, c, n
<1>9. \A r \in RangeNum : r + 1 \in 1 .. Threads /\ c[r + 1] \in 1 .. n
  BY <1>3, <1>8
<1>10. \A r \in RangeNum : First(lv, r) \in Used(lv) /\ First(lv, r) \in Nat
  BY <1>5, <1>6, <1>9
<1>11. First(lv, 0) = 0
  BY <1>2, <1>3, <1>6
<1>12. ASSUME NEW r \in RangeNum, NEW q \in RangeNum, r < q PROVE First(lv, r) < First(lv, q)
  <2>1. r + 1 < q + 1
    BY <1>8, <1>12
  <2>2. c[r + 1] < c[q + 1]
    BY <1>3, <1>9, <2>1
  <2>3. QED
    BY <1>4, <1>6, <1>9, <2>2
<1>13. ASSUME NEW r \in RangeNum
       PROVE  OldEntries(lv, r) =
                {p \in Used(lv) : First(lv, r) <= p /\ (r + 1 \in RangeNum => p < First(lv, r + 1))}
  <2> DEFINE b == c[r + 1]
             e == IF r = Threads - 1 THEN n ELSE c[r + 2] - 1
  <2>1. b \in 1 .. n /\ b \in Nat
    BY <1>2, <1>9
  <2>2. /\ e \in 1 .. n /\ b <= e
        /\ r # Threads - 1 => e + 1 = c[r + 2] /\ e \in 1 .. n - 1
    <3>1. CASE r = Threads - 1
      BY <1>2, <2>1, <3>1
    <3>2. CASE r # Threads - 1
      <4>1. r + 2 \in 1 .. Threads /\ r + 1 < r + 2 /\ r + 1 \in 1 .. Threads
        BY <1>8, <3>2
      <4>2. c[r + 2] \in 1 .. n /\ b < c[r + 2]
        BY <1>3, <4>1
      <4>3. QED
        BY <1>2, <2>1, <3>2, <4>2
    <3>3. QED
      BY <3>1, <3>2
  <2> HIDE DEF b, e
  <2>3. IsInterval(lv, s[b], Threads) /\ IsInterval(lv, s[e], Threads)
    BY <1>2, <2>1, <2>2
  <2>4. s[b][1] <= s[e][1]
    <3>1. CASE b < e
      BY <1>4, <2>1, <2>2, <3>1
    <3>2. CASE b = e
      BY <1>5, <2>1, <3>2
    <3>3. QED
      BY <1>2, <2>1, <2>2, <3>1, <3>2
  <2>5. BeginInterval(lv, r) = s[b] /\ EndInterval(lv, r) = s[e] /\ First(lv, r) = IntervalEntry(lv, s[b])
    BY <1>6, <1>7 DEF b, e
  <2>6. OldEntries(lv, r) = {p \in Used(lv) : First(lv, r) <= p /\ p < PhysicalEnd(lv, s[e])}
    BY <1>1, <2>3, <2>4, <2>5, OldEntriesAre
  <2>7. \A p \in Used(lv) : p < PhysicalEnd(lv, s[e]) <=> (r + 1 \in RangeNum => p < First(lv, r + 1))
    <3>1. CASE r = Threads - 1
      <4>1. r + 1 \notin RangeNum
        BY <1>8, <3>1
      <4>2. PhysicalEnd(lv, s[e]) = LastPhysical(lv.ranges[r]) + 1
        BY <1>2, <3>1 DEF e
      <4>3. ASSUME NEW p \in Used(lv) PROVE p < LastPhysical(lv.ranges[r]) + 1
        <5>1. PICK t \in RangeNum : p \in lv.ranges[t].physical .. LastPhysical(lv.ranges[t])
          BY <1>1, UsedIs
        <5>2. PICK z : z = LastPhysical(lv.ranges[r])
          OBVIOUS
        <5>3. /\ lv.ranges[r].physical \in Nat /\ lv.ranges[r].entries \in Nat \ {0}
              /\ z = lv.ranges[r].physical + lv.ranges[r].entries - 1
          BY <1>1, <5>2, RangeIs
        <5>4. z \in Nat /\ z \in lv.ranges[r].physical .. LastPhysical(lv.ranges[r])
          BY <5>2, <5>3
        <5>5. p \in Nat /\ (t < r => p < z)
          BY <1>1, <5>1, <5>4, RangesApart
        <5>6. t < r \/ t = r
          BY <1>8, <3>1
        <5>7. t = r => p <= z
          BY <5>1, <5>2
        <5>8. QED
          BY <5>2, <5>4, <5>5, <5>6, <5>7
      <4>4. QED
        BY <4>1, <4>2, <4>3
    <3>2. CASE r # Threads - 1
      <4>1. r + 1 \in RangeNum /\ (r + 1) + 1 = r + 2
        BY <1>8, <3>2
      <4>2. s[e + 1] = Successor(lv, s[e]) /\ e + 1 \in 1 .. n /\ e + 1 = c[r + 2]
        BY <1>2, <2>2, <3>2
      <4>3. IsInterval(lv, Successor(lv, s[e]), Threads)
        BY <1>2, <4>2
      <4>4. First(lv, r + 1) = IntervalEntry(lv, Successor(lv, s[e]))
        BY <1>6, <4>1, <4>2
      <4>5. \A p \in Used(lv) :
              p < PhysicalEnd(lv, s[e]) <=> p < IntervalEntry(lv, Successor(lv, s[e]))
        BY <1>1, <2>3, <4>3, NextInterval
      <4>6. QED
        BY <4>1, <4>4, <4>5
    <3>3. QED
      BY <3>1, <3>2
  <2>8. QED
    BY <2>6, <2>7
<1>14. QED
  BY <1>10, <1>11, <1>12, <1>13

(* Every entry is in the share that begins last at or before it. *)
LEMMA ShareOfEntry ==
  ASSUME NEW lv, Built(lv), Counted(lv), Countable(lv), RangesAllCut(lv), NEW p \in Used(lv)
  PROVE  \E r \in RangeNum : p \in OldEntries(lv, r)
<1> DEFINE S == {r \in RangeNum : First(lv, r) <= p}
<1>1. p \in Nat
  BY UsedIs DEF Built
<1>2. Threads \in Nat \ {0} /\ 0 \in RangeNum /\ \A r \in RangeNum : r \in Int /\ r <= Threads /\ r \in Nat
  BY SearchAssumption DEF RangeNum
<1>3. 0 \in S /\ S \in SUBSET Int /\ \A r \in S : r <= Threads
  BY <1>1, <1>2, SharesAre
<1>4. Max(S) \in S /\ \A r \in S : r <= Max(S)
  <2> HIDE DEF S
  <2>1. S # {} /\ Threads \in Int
    BY <1>2, <1>3
  <2>2. QED
    BY <1>3, <2>1, MaxProperty
<1> DEFINE r == Max(S)
<1>5. r \in RangeNum /\ First(lv, r) <= p
  BY <1>4
<1>6. r + 1 \in RangeNum => ~ (First(lv, r + 1) <= p)
  <2>1. SUFFICES ASSUME r + 1 \in S PROVE FALSE
    OBVIOUS
  <2>2. r + 1 <= r
    BY <1>4, <2>1
  <2> HIDE DEF r
  <2>3. QED
    BY <1>2, <1>5, <2>2
<1> HIDE DEF r
<1>7. r + 1 \in RangeNum => p < First(lv, r + 1)
  BY <1>1, <1>6, SharesAre
<1>8. QED
  BY <1>5, <1>7, SharesAre

(* All of it: what SharesPartition says of a level whose cut makes as many *)
(* shares as there are threads.                                            *)
LEMMA SharesPart ==
  ASSUME NEW lv, Built(lv), Counted(lv), Countable(lv), RangesAllCut(lv)
  PROVE  /\ UNION {OldEntries(lv, r) : r \in RangeNum} = Used(lv)
         /\ \A r \in RangeNum :
              /\ OldEntries(lv, r) # {}
              /\ r + 1 \in RangeNum =>
                   Max(OldEntries(lv, r)) < Min(OldEntries(lv, r + 1))
<1>1. \A r \in RangeNum : OldEntries(lv, r) \subseteq Used(lv)
  BY SharesAre
<1>2. UNION {OldEntries(lv, r) : r \in RangeNum} = Used(lv)
  BY <1>1, ShareOfEntry
<1>3. \A p \in Used(lv) : p \in Nat
  BY UsedIs DEF Built
<1>4. ASSUME NEW r \in RangeNum PROVE First(lv, r) \in OldEntries(lv, r)
  <2>1. r + 1 \in RangeNum => First(lv, r) < First(lv, r + 1)
    <3>1. r < r + 1
      BY SearchAssumption DEF RangeNum
    <3>2. QED
      BY <3>1, SharesAre
  <2>2. First(lv, r) \in Used(lv) /\ First(lv, r) <= First(lv, r)
    BY SharesAre
  <2>3. QED
    BY <2>1, <2>2, SharesAre
<1>5. ASSUME NEW r \in RangeNum, r + 1 \in RangeNum
      PROVE  Max(OldEntries(lv, r)) < Min(OldEntries(lv, r + 1))
  <2> DEFINE P == OldEntries(lv, r)
             Q == OldEntries(lv, r + 1)
             f == First(lv, r + 1)
  <2>1. f \in Nat /\ \A p \in P : p \in Nat /\ p < f
    BY <1>1, <1>3, <1>5, SharesAre
  <2>2. \A p \in Q : p \in Nat /\ f <= p
    BY <1>1, <1>3, <1>5, SharesAre
  <2>3. P # {} /\ Q # {}
    BY <1>4, <1>5
  <2> HIDE DEF P, Q, f
  <2>4. P \in SUBSET Int /\ Q \in SUBSET Int /\ f \in Int
    BY <2>1, <2>2
  <2>5. \A p \in P : p <= f
    BY <2>1
  <2>6. Max(P) \in P
    BY <2>3, <2>4, <2>5, MaxProperty
  <2>7. Min(Q) \in Q
    BY <2>2, <2>3, <2>4, MinProperty
  <2>8. Max(P) < Min(Q)
    BY <2>1, <2>2, <2>6, <2>7
  <2>9. QED
    BY <2>8 DEF P, Q
<1>6. QED
  BY <1>2, <1>4, <1>5

-----------------------------------------------------------------------------
(* The keys of a share *)

KeysOf(lv, S, r) == {k \in S : Home(lv, k) \in OldEntries(lv, r)}

(* No entry in use is without a key. *)
Peopled(lv) == \A p \in Used(lv) : lv.held[p] # {}

(* A range of the next level starts at the entry key of the first old      *)
(* entry of its share.                                                     *)
LEMMA NextStartIs ==
  ASSUME NEW lv, Built(lv), Counted(lv), Countable(lv), RangesAllCut(lv), NEW r \in RangeNum
  PROVE  NextStart(lv, r) = lv.entryKey[First(lv, r)] /\ NextStart(lv, r) \in Key
<1>1. WellFormed(lv) /\ lv.ranges[0].physical = 0
  BY DEF Built
<1>2. r # Threads /\ 0 \in RangeNum
  BY SearchAssumption DEF RangeNum
<1>3. First(lv, r) \in Used(lv)
  BY SharesAre
<1>4. lv.entryKey[First(lv, r)] \in Key
  BY <1>1, <1>3, UsedIs
<1>5. CASE r = 0
  <2>1. lv.ranges[0].start = 0 /\ lv.ranges[0].start = lv.entryKey[0]
    BY <1>1, <1>2, RangeIs DEF WellFormed
  <2>2. First(lv, r) = 0
    BY <1>5, SharesAre
  <2>3. QED
    BY <1>4, <1>5, <2>1, <2>2 DEF NextStart
<1>6. CASE r # 0
  BY <1>2, <1>4, <1>6 DEF NextStart, First
<1>7. QED
  BY <1>5, <1>6

(* The keys of the shares: none is without keys, they lie between the      *)
(* start keys, and every key is in one.                                    *)
LEMMA KeysOfAre ==
  ASSUME NEW lv, Built(lv), Counted(lv), Countable(lv), RangesAllCut(lv), NEW S, Content(lv, S),
         Peopled(lv)
  PROVE  /\ NextStart(lv, 0) = 0
         /\ \A r, s \in RangeNum : r < s => NextStart(lv, r) < NextStart(lv, s)
         /\ \A r \in RangeNum :
              /\ KeysOf(lv, S, r) \subseteq S /\ KeysOf(lv, S, r) # {}
              /\ NextStart(lv, r) \in Key
              /\ \A k \in KeysOf(lv, S, r) :
                   /\ NextStart(lv, r) <= k
                   /\ \A s \in RangeNum : r < s => k < NextStart(lv, s)
         /\ \A k \in S : \E r \in RangeNum : k \in KeysOf(lv, S, r)
<1>1. WellFormed(lv) /\ S \subseteq Key /\ 0 \in RangeNum
  BY SearchAssumption DEF Built, Content, RangeNum
<1>2. \A p \in Used(lv) : p \in Nat /\ p \in DOMAIN lv.held /\ lv.entryKey[p] \in Key
  BY <1>1, UsedIs DEF Built
<1>3. \A k \in Key : k \in Nat
  BY SearchAssumption DEF Key
<1>4. \A r \in RangeNum : /\ First(lv, r) \in Used(lv)
                          /\ NextStart(lv, r) = lv.entryKey[First(lv, r)] /\ NextStart(lv, r) \in Key
  BY SharesAre, NextStartIs
<1>5. ASSUME NEW r \in RangeNum, NEW s \in RangeNum, r < s
      PROVE  NextStart(lv, r) < NextStart(lv, s) /\ First(lv, r) < First(lv, s)
  <2>1. First(lv, r) < First(lv, s)
    BY <1>5, SharesAre
  <2>2. lv.entryKey[First(lv, r)] < lv.entryKey[First(lv, s)]
    BY <1>4, <2>1 DEF Built
  <2>3. QED
    BY <1>4, <2>1, <2>2
<1>6. \A k \in S : /\ Home(lv, k) \in Used(lv) /\ lv.entryKey[Home(lv, k)] <= k
                   /\ \A q \in Used(lv) : lv.entryKey[q] <= k => q <= Home(lv, k)
  BY <1>1, HomeInRange
<1>7. NextStart(lv, 0) = 0
  BY DEF NextStart
<1>8. ASSUME NEW r \in RangeNum, NEW k \in KeysOf(lv, S, r)
      PROVE  /\ NextStart(lv, r) <= k
             /\ \A s \in RangeNum : r < s => k < NextStart(lv, s)
  <2> DEFINE h == Home(lv, k)
  <2>1. k \in S /\ k \in Nat /\ h \in OldEntries(lv, r)
    BY <1>1, <1>3 DEF KeysOf
  <2>2. h \in Used(lv) /\ First(lv, r) <= h /\ (r + 1 \in RangeNum => h < First(lv, r + 1))
    BY <2>1, SharesAre
  <2>3. /\ lv.entryKey[h] <= k /\ lv.entryKey[h] \in Nat /\ h \in Nat
        /\ \A q \in Used(lv) : lv.entryKey[q] <= k => q <= h
    BY <1>2, <1>3, <1>6, <2>1, <2>2
  <2> HIDE DEF h
  <2>4. First(lv, r) \in Nat /\ lv.entryKey[First(lv, r)] \in Nat
    BY <1>2, <1>3, <1>4
  <2>5. lv.entryKey[First(lv, r)] <= lv.entryKey[h]
    <3>1. CASE First(lv, r) = h
      BY <2>4, <3>1
    <3>2. CASE First(lv, r) # h
      <4>1. First(lv, r) < h
        BY <2>2, <2>3, <2>4, <3>2
      <4>2. lv.entryKey[First(lv, r)] < lv.entryKey[h]
        BY <1>4, <2>2, <4>1 DEF Built
      <4>3. QED
        BY <2>3, <2>4, <4>2
    <3>3. QED
      BY <3>1, <3>2
  <2>6. NextStart(lv, r) <= k
    BY <1>4, <2>1, <2>3, <2>4, <2>5
  <2>7. ASSUME NEW s \in RangeNum, r < s PROVE k < NextStart(lv, s)
    <3>1. r + 1 \in RangeNum /\ r \in Nat /\ s \in Nat
      BY <2>7, SearchAssumption DEF RangeNum
    <3>2. First(lv, r + 1) <= First(lv, s) /\ First(lv, s) \in Nat /\ First(lv, r + 1) \in Nat
      <4>1. First(lv, s) \in Nat /\ First(lv, r + 1) \in Nat
        BY <1>2, <1>4, <3>1
      <4>2. r + 1 < s => First(lv, r + 1) < First(lv, s)
        BY <1>5, <3>1
      <4>3. r + 1 < s \/ r + 1 = s
        BY <2>7, <3>1
      <4>4. QED
        BY <4>1, <4>2, <4>3
    <3>3. h < First(lv, s)
      BY <2>2, <2>3, <3>1, <3>2
    <3>4. ~ (lv.entryKey[First(lv, s)] <= k)
      <4>1. lv.entryKey[First(lv, s)] <= k => First(lv, s) <= h
        BY <1>4, <2>3
      <4>2. QED
        BY <2>3, <3>2, <3>3, <4>1
    <3>5. QED
      BY <1>3, <1>4, <2>1, <3>4
  <2>8. QED
    BY <2>6, <2>7
<1>9. ASSUME NEW r \in RangeNum PROVE KeysOf(lv, S, r) # {}
  <2>1. First(lv, r) \in OldEntries(lv, r)
    <3>1. r + 1 \in RangeNum => First(lv, r) < First(lv, r + 1)
      <4>1. r < r + 1
        BY SearchAssumption DEF RangeNum
      <4>2. QED
        BY <1>5, <4>1
    <3>2. First(lv, r) <= First(lv, r)
      BY <1>2, <1>4
    <3>3. QED
      BY <1>4, <3>1, <3>2, SharesAre
  <2>2. PICK k : k \in lv.held[First(lv, r)]
    BY <1>4 DEF Peopled
  <2>3. k \in S /\ First(lv, r) = Home(lv, k)
    BY <1>2, <1>4, <2>2 DEF Content
  <2>4. QED
    BY <2>1, <2>3 DEF KeysOf
<1>10. \A k \in S : \E r \in RangeNum : k \in KeysOf(lv, S, r)
  BY <1>6, ShareOfEntry DEF KeysOf
<1>11. \A r \in RangeNum : KeysOf(lv, S, r) \subseteq S
  BY DEF KeysOf
<1>12. QED
  BY <1>4, <1>5, <1>7, <1>8, <1>9, <1>10, <1>11

(* An expander copies the keys of its entries in order. *)
LEMMA MovedIs ==
  ASSUME NEW lv, Built(lv), NEW S, Content(lv, S), NEW r, OldEntries(lv, r) \subseteq Used(lv)
  PROVE  Moved(lv, r) = Ascending(KeysOf(lv, S, r))
<1> DEFINE P     == OldEntries(lv, r)
           e     == Ascending(P)
           n     == Len(e)
           K(i)  == {k \in S : \E j \in 1 .. i : Home(lv, k) = e[j]}
           f     == CHOOSE f : f = [i \in 0 .. n |->
                      IF i = 0 THEN <<>> ELSE f[i - 1] \o Ascending(lv.held[e[i]])]
           g     == [i \in 0 .. n |-> Ascending(K(i))]
<1>1. Moved(lv, r) = f[n]
  BY DEF Moved
<1> HIDE DEF f
<1>2. WellFormed(lv) /\ S \subseteq Key /\ \A k \in S : k \in Key
  BY DEF Built, Content
<1>3. IsFiniteSet(P) /\ P \in SUBSET Int
  <2>1. Used(lv) \subseteq 0 .. LastPhysical(lv.ranges[Threads - 1])
    <3>1. ASSUME NEW p \in Used(lv) PROVE p \in 0 .. LastPhysical(lv.ranges[Threads - 1])
      <4>1. PICK t \in RangeNum : p \in lv.ranges[t].physical .. LastPhysical(lv.ranges[t])
        BY <1>2, UsedIs
      <4>2. p \in Nat /\ Threads - 1 \in RangeNum /\ t <= Threads - 1 /\ t \in Nat
        BY <1>2, UsedIs, SearchAssumption DEF RangeNum
      <4>3. PICK z : z = LastPhysical(lv.ranges[Threads - 1])
        OBVIOUS
      <4>4. /\ lv.ranges[Threads - 1].physical \in Nat /\ lv.ranges[Threads - 1].entries \in Nat \ {0}
            /\ z = lv.ranges[Threads - 1].physical + lv.ranges[Threads - 1].entries - 1
        BY <1>2, <4>2, <4>3, RangeIs
      <4>5. z \in Nat /\ z \in lv.ranges[Threads - 1].physical .. LastPhysical(lv.ranges[Threads - 1])
        BY <4>3, <4>4
      <4>6. t < Threads - 1 => p < z
        <5>1. /\ Threads - 1 \in RangeNum /\ t \in RangeNum
              /\ z \in lv.ranges[Threads - 1].physical .. LastPhysical(lv.ranges[Threads - 1])
          BY <4>2, <4>5
        <5>2. QED
          BY <1>2, <4>1, <5>1, RangesApart
      <4>7. t = Threads - 1 => p <= z
        BY <4>1, <4>3
      <4>8. t < Threads - 1 \/ t = Threads - 1
        BY <4>2, SearchAssumption
      <4>9. p <= z
        BY <4>2, <4>5, <4>6, <4>7, <4>8
      <4>10. QED
        BY <4>2, <4>3, <4>5, <4>9
    <3>2. QED
      BY <3>1
  <2>2. LastPhysical(lv.ranges[Threads - 1]) \in Int
    BY <1>2, RangeIs, SearchAssumption DEF RangeNum
  <2>3. IsFiniteSet(0 .. LastPhysical(lv.ranges[Threads - 1]))
    BY <2>2, FS_Interval
  <2>4. QED
    BY <2>1, <2>2, <2>3, FS_Subset
<1>4. P \subseteq Used(lv)
  OBVIOUS
<1> HIDE DEF P
<1>5. /\ n \in Nat /\ \A i \in 1 .. n : e[i] \in P
      /\ \A i, j \in 1 .. n : i < j => e[i] < e[j]
      /\ \A p \in P : \E i \in 1 .. n : e[i] = p
  <2>1. Sorted(e, P)
    BY <1>3, AscendingIs
  <2> HIDE DEF e
  <2>2. QED
    BY <2>1, SortedParts
<1> HIDE DEF e, n
<1>6. \A i \in 1 .. n : /\ e[i] \in Used(lv) /\ e[i] \in Nat /\ lv.entryKey[e[i]] \in Nat
                        /\ lv.held[e[i]] = {k \in S : e[i] = Home(lv, k)}
  <2>1. \A p \in Used(lv) : p \in Nat /\ p \in DOMAIN lv.held /\ lv.entryKey[p] \in Key
    BY <1>2, UsedIs DEF Built
  <2>2. Key \subseteq Nat
    BY SearchAssumption DEF Key
  <2>3. QED
    BY <1>4, <1>5, <2>1, <2>2 DEF Content
<1>7. ASSUME NEW k \in S, NEW l \in S, Home(lv, k) < Home(lv, l) PROVE k < l
  <2>1. /\ Home(lv, k) \in Used(lv) /\ \A q \in Used(lv) : lv.entryKey[q] <= k => q <= Home(lv, k)
        /\ Home(lv, l) \in Used(lv) /\ lv.entryKey[Home(lv, l)] <= l
    BY <1>2, HomeInRange
  <2>2. k \in Nat /\ l \in Nat /\ Home(lv, k) \in Nat /\ Home(lv, l) \in Nat /\ lv.entryKey[Home(lv, l)] \in Nat
    <3>1. Key \subseteq Nat
      BY SearchAssumption DEF Key
    <3>2. QED
      BY <1>2, <2>1, <3>1, UsedIs
  <2>3. ~ (lv.entryKey[Home(lv, l)] <= k)
    BY <1>7, <2>1, <2>2
  <2>4. QED
    BY <2>1, <2>2, <2>3
<1>8. ASSUME NEW i \in 1 .. n
      PROVE  Ascending(K(i - 1)) \o Ascending(lv.held[e[i]]) = Ascending(K(i))
  <2> DEFINE A == K(i - 1)
             B == lv.held[e[i]]
             C == K(i)
  <2>1. A \subseteq Key /\ B \subseteq Key /\ C \subseteq Key
    BY <1>2, <1>6
  <2>2. C = A \union B
    <3>1. i \in 1 .. i /\ i \in Nat /\ \A j \in 1 .. i - 1 : j \in 1 .. i
      BY <1>5
    <3>2. \A j \in 1 .. i : j \in 1 .. i - 1 \/ j = i
      BY <1>5
    <3>3. B = {k \in S : e[i] = Home(lv, k)}
      BY <1>6
    <3> HIDE DEF B
    <3>4. C \subseteq A \union B
      BY <3>2, <3>3
    <3>5. A \union B \subseteq C
      BY <3>1, <3>3
    <3>6. QED
      BY <3>4, <3>5
  <2>3. ASSUME NEW x \in A, NEW y \in B PROVE x < y
    <3>1. PICK j \in 1 .. i - 1 : Home(lv, x) = e[j]
      OBVIOUS
    <3>2. j \in 1 .. n /\ j < i
      BY <1>5, <3>1
    <3>3. e[j] < e[i]
      BY <1>5, <3>2
    <3>4. x \in S /\ y \in S /\ Home(lv, y) = e[i]
      BY <1>6
    <3>5. QED
      BY <1>7, <3>1, <3>3, <3>4
  <2> HIDE DEF A, B, C
  <2>4. /\ A \in SUBSET Int /\ Sorted(Ascending(A), A)
        /\ B \in SUBSET Int /\ Sorted(Ascending(B), B)
        /\ C \in SUBSET Int /\ IsFiniteSet(C)
    BY <2>1, KeysFinite
  <2>5. Sorted(Ascending(A) \o Ascending(B), C)
    BY <2>2, <2>3, <2>4, SortedConcat
  <2>6. Ascending(A) \o Ascending(B) = Ascending(C)
    BY <2>4, <2>5, SortedIs
  <2>7. QED
    BY <2>6 DEF A, B, C
<1>9. Ascending(K(0)) = <<>>
  <2>1. K(0) = {}
    OBVIOUS
  <2>2. Sorted(<<>>, {})
    BY DEF Sorted
  <2>3. Ascending({}) = <<>>
    BY <2>2, SortedIs, FS_EmptySet
  <2>4. QED
    BY <2>1, <2>3
<1>10. K(n) = KeysOf(lv, S, r)
  BY <1>5 DEF KeysOf, P
<1> HIDE DEF K
<1>11. g = [i \in 0 .. n |-> IF i = 0 THEN <<>> ELSE g[i - 1] \o Ascending(lv.held[e[i]])]
  <2>1. ASSUME NEW i \in 0 .. n
        PROVE  Ascending(K(i)) = IF i = 0 THEN <<>> ELSE g[i - 1] \o Ascending(lv.held[e[i]])
    <3>1. CASE i = 0
      BY <1>9, <3>1
    <3>2. CASE i # 0
      <4>1. i \in 1 .. n /\ i - 1 \in 0 .. n
        BY <1>5, <3>2
      <4>2. g[i - 1] = Ascending(K(i - 1))
        BY <4>1
      <4>3. QED
        BY <1>8, <3>2, <4>1, <4>2
    <3>3. QED
      BY <3>1, <3>2
  <2>2. QED
    BY <2>1
<1>12. f = [i \in 0 .. n |-> IF i = 0 THEN <<>> ELSE f[i - 1] \o Ascending(lv.held[e[i]])]
  BY <1>11 DEF f
<1> DEFINE G == {i \in 0 .. n : f[i] = Ascending(K(i))}
<1>13. 0 \in G
  BY <1>5, <1>9, <1>12
<1>14. ASSUME NEW i \in 0 .. n - 1, i \in G PROVE i + 1 \in G
  <2>1. i + 1 \in 0 .. n /\ i + 1 \in 1 .. n /\ i + 1 # 0 /\ (i + 1) - 1 = i
    BY <1>5
  <2>2. f[i + 1] = f[i] \o Ascending(lv.held[e[i + 1]])
    BY <1>12, <2>1
  <2>3. Ascending(K((i + 1) - 1)) \o Ascending(lv.held[e[i + 1]]) = Ascending(K(i + 1))
    BY <1>8, <2>1
  <2>4. QED
    BY <1>14, <2>1, <2>2, <2>3
<1>15. n \in G
  <2> HIDE DEF G
  <2>1. \A i \in 0 .. n : i \in G
    BY <1>5, <1>13, <1>14, Induct
  <2>2. QED
    BY <1>5, <2>1
<1>16. QED
  BY <1>1, <1>10, <1>15

-----------------------------------------------------------------------------
(* What the bulk load and an expansion build *)

(* Multiples of a number.                                                  *)
LEMMA Multiples ==
  ASSUME NEW b \in Nat \ {0}
  PROVE  /\ \A e \in Nat : e * b \in Nat /\ (e + 1) * b = e * b + b /\ b * e = e * b
         /\ \A e, f \in Nat : e < f => e * b + b <= f * b
<1>1. \A e \in Nat : e * b \in Nat /\ (e + 1) * b = e * b + b /\ b * e = e * b
  OBVIOUS
<1>2. ASSUME NEW e \in Nat, NEW f \in Nat, e < f PROVE e * b + b <= f * b
  <2>1. (e + 1) * b <= f * b
    <3>1. e + 1 \in Nat /\ e + 1 <= f /\ b \in Nat
      BY <1>2
    <3>2. QED
      BY <3>1, ProductOrder
  <2>2. QED
    BY <1>1, <2>1
<1>3. QED
  BY <1>1, <1>2

(* Min of two numbers.                                                     *)
LEMMA MinPair ==
  ASSUME NEW a \in Int, NEW b \in Int
  PROVE  Min({a, b}) = IF a <= b THEN a ELSE b
<1>1. {a, b} \in SUBSET Int
  OBVIOUS
<1>2. CASE a <= b
  BY <1>1, <1>2, MinIs
<1>3. CASE ~ (a <= b)
  BY <1>1, <1>3, MinIs
<1>4. QED
  BY <1>2, <1>3

Fills(K, keys, room, start, n) ==
  /\ n \in Nat \ {0} /\ n <= room
  /\ \A e \in 0 .. n - 1 : FillKey(keys, start, e) \in {start} \union K
  /\ \A e, f \in 0 .. n - 1 : e < f => FillKey(keys, start, e) < FillKey(keys, start, f)
  /\ \A e \in 0 .. n - 1 :
       /\ FillHeld(keys, room, e) # {} /\ FillHeld(keys, room, e) \subseteq K
       /\ \A k \in FillHeld(keys, room, e) :
            /\ FillKey(keys, start, e) <= k
            /\ \A f \in 0 .. n - 1 : e < f => k < FillKey(keys, start, f)
  /\ \A k \in K : \E e \in 0 .. n - 1 : k \in FillHeld(keys, room, e)

(* What Fill makes of keys in order: the first entry gets the start key,   *)
(* the others their first key; every key is in the entry that its          *)
(* neighbours' entry keys assign it to, and no entry stays empty.          *)
LEMMA FillIs ==
  ASSUME NEW K, K \subseteq Key, K # {}, NEW keys, Sorted(keys, K),
         NEW room \in Nat \ {0}, NEW start \in Nat, \A k \in K : start <= k
  PROVE  Fills(K, keys, room, start, Filled(keys, room))
<1> DEFINE n == Filled(keys, room)
           l == Len(keys)
           b == BufKey
           c == CeilDiv(l, b)
           hi(e) == IF e + 1 = room THEN l ELSE Min({l, (e + 1) * b})
<1>1. b \in Nat \ {0}
  BY GenerationAssumption
<1>2. /\ l \in Nat /\ \A i \in 1 .. l : keys[i] \in K
      /\ \A i, j \in 1 .. l : i < j => keys[i] < keys[j]
      /\ \A k \in K : \E i \in 1 .. l : keys[i] = k
  BY SortedParts
<1>3. l # 0
  BY <1>2
<1>4. K \subseteq Nat
  BY SearchAssumption DEF Key
<1> HIDE DEF l, b
<1>5. c \in Nat \ {0} /\ \A q \in Nat : q < c <=> b * q < l
  BY <1>1, <1>2, <1>3, CeilDivIs
<1> HIDE DEF c
<1>6. n \in Nat \ {0} /\ n <= room /\ n <= c /\ (n = room \/ n = c)
  <2>1. n = Min({room, c})
    BY DEF Filled, c, l, b
  <2>2. Min({room, c}) = IF room <= c THEN room ELSE c
    BY <1>5, MinPair
  <2>3. QED
    BY <1>5, <2>1, <2>2
<1>7. /\ \A e \in Nat : e * b \in Nat /\ (e + 1) * b = e * b + b /\ b * e = e * b
      /\ \A e, f \in Nat : e < f => e * b + b <= f * b
  BY <1>1, Multiples
<1>8. \A e : FillHeld(keys, room, e) = {keys[i] : i \in e * b + 1 .. hi(e)}
  BY DEF FillHeld, l, b
<1>9. \A e : FillKey(keys, start, e) = IF e = 0 THEN start ELSE keys[e * b + 1]
  BY DEF FillKey, b
<1>10. \A e \in 0 .. n - 1 : /\ hi(e) \in Nat /\ hi(e) <= l /\ e * b + 1 <= hi(e)
                             /\ e + 1 # room => hi(e) <= e * b + b
                             /\ e + 1 = room => hi(e) = l
                             /\ hi(e) = l \/ hi(e) = e * b + b
                             /\ e \in Nat /\ e * b \in Nat /\ e * b + 1 \in 1 .. l
  <2>1. ASSUME NEW e \in 0 .. n - 1
        PROVE  /\ hi(e) \in Nat /\ hi(e) <= l /\ e * b + 1 <= hi(e)
               /\ e + 1 # room => hi(e) <= e * b + b
               /\ e + 1 = room => hi(e) = l
               /\ hi(e) = l \/ hi(e) = e * b + b
               /\ e \in Nat /\ e * b \in Nat /\ e * b + 1 \in 1 .. l
    <3>1. e \in Nat /\ e < c
      BY <1>5, <1>6
    <3>2. PICK x \in Nat : x = e * b
      BY <1>7, <3>1
    <3>3. x < l /\ (e + 1) * b = x + b
      BY <1>5, <1>7, <3>1, <3>2
    <3>4. l \in Int /\ x + b \in Int
      BY <1>1, <1>2
    <3>5. Min({l, x + b}) = IF l <= x + b THEN l ELSE x + b
      BY <3>4, MinPair
    <3>6. hi(e) = IF e + 1 = room THEN l ELSE Min({l, x + b})
      BY <3>3
    <3> HIDE DEF hi
    <3>7. QED
      BY <1>1, <1>2, <3>1, <3>2, <3>3, <3>5, <3>6
  <2>2. QED
    BY <2>1
<1> HIDE DEF hi, n
<1>11. ASSUME NEW e \in 0 .. n - 1 PROVE FillKey(keys, start, e) \in {start} \union K
  BY <1>2, <1>9, <1>10
<1>12. ASSUME NEW f \in 0 .. n - 1, NEW e \in 0 .. n - 1, e < f, NEW i \in 1 .. l, i <= e * b + b
       PROVE  keys[i] < FillKey(keys, start, f)
  <2>1. e \in Nat /\ f \in Nat /\ f # 0 /\ e * b \in Nat /\ f * b \in Nat /\ f * b + 1 \in 1 .. l
    BY <1>6, <1>10, <1>12
  <2>2. e * b + b <= f * b
    BY <1>7, <1>12, <2>1
  <2>3. PICK x \in Nat : x = e * b
    BY <2>1
  <2>4. PICK y \in Nat : y = f * b
    BY <2>1
  <2>5. i < f * b + 1
    BY <1>1, <1>2, <1>12, <2>2, <2>3, <2>4
  <2>6. keys[i] < keys[f * b + 1]
    BY <1>2, <2>1, <2>5
  <2>7. QED
    BY <1>9, <2>1, <2>6
<1>13. ASSUME NEW e \in 0 .. n - 1, NEW i \in 1 .. l, e * b + 1 <= i
       PROVE  FillKey(keys, start, e) <= keys[i]
  <2>1. keys[i] \in K /\ keys[i] \in Nat
    BY <1>2, <1>4
  <2>2. CASE e = 0
    BY <1>9, <2>1, <2>2
  <2>3. CASE e # 0
    <3>1. FillKey(keys, start, e) = keys[e * b + 1] /\ e * b + 1 \in 1 .. l
      BY <1>9, <1>10, <2>3
    <3>2. keys[e * b + 1] \in Nat
      BY <1>2, <1>4, <3>1
    <3>3. e * b + 1 < i => keys[e * b + 1] < keys[i]
      BY <1>2, <3>1
    <3>4. e * b + 1 < i \/ e * b + 1 = i
      BY <1>2, <1>10, <1>13
    <3>5. QED
      BY <2>1, <3>1, <3>2, <3>3, <3>4
  <2>4. QED
    BY <2>2, <2>3
<1>14. ASSUME NEW e \in 0 .. n - 1, NEW f \in 0 .. n - 1, e < f
       PROVE  FillKey(keys, start, e) < FillKey(keys, start, f)
  <2>1. e * b + 1 \in 1 .. l /\ e * b \in Nat
    BY <1>10
  <2>2. e * b + 1 <= e * b + b /\ e * b + 1 <= e * b + 1
    BY <1>1, <2>1
  <2>3. keys[e * b + 1] < FillKey(keys, start, f) /\ FillKey(keys, start, e) <= keys[e * b + 1]
    BY <1>12, <1>13, <1>14, <2>1, <2>2
  <2>4. keys[e * b + 1] \in Nat /\ FillKey(keys, start, e) \in Nat /\ FillKey(keys, start, f) \in Nat
    BY <1>2, <1>4, <1>11, <2>1
  <2>5. QED
    BY <2>3, <2>4
<1>15. ASSUME NEW e \in 0 .. n - 1
       PROVE  /\ FillHeld(keys, room, e) # {} /\ FillHeld(keys, room, e) \subseteq K
              /\ \A k \in FillHeld(keys, room, e) :
                   /\ FillKey(keys, start, e) <= k
                   /\ \A f \in 0 .. n - 1 : e < f => k < FillKey(keys, start, f)
  <2>1. \A i \in e * b + 1 .. hi(e) : i \in 1 .. l /\ e * b + 1 <= i /\ i <= hi(e)
    BY <1>2, <1>10
  <2>2. e * b + 1 \in e * b + 1 .. hi(e)
    BY <1>10
  <2>3. FillHeld(keys, room, e) # {} /\ FillHeld(keys, room, e) \subseteq K
    <3>1. FillHeld(keys, room, e) # {}
      <4>1. PICK x : x \in e * b + 1 .. hi(e)
        BY <2>2
      <4>2. keys[x] \in {keys[i] : i \in e * b + 1 .. hi(e)}
        BY <4>1
      <4>3. QED
        BY <1>8, <4>2
    <3>2. \A i \in e * b + 1 .. hi(e) : keys[i] \in K
      BY <1>2, <2>1
    <3>3. QED
      BY <1>8, <3>1, <3>2
  <2>4. ASSUME NEW k \in FillHeld(keys, room, e)
        PROVE  /\ FillKey(keys, start, e) <= k
               /\ \A f \in 0 .. n - 1 : e < f => k < FillKey(keys, start, f)
    <3>1. PICK i \in e * b + 1 .. hi(e) : k = keys[i]
      BY <1>8
    <3>2. i \in 1 .. l /\ e * b + 1 <= i /\ i <= hi(e)
      BY <2>1
    <3>3. FillKey(keys, start, e) <= k
      BY <1>13, <3>1, <3>2
    <3>4. ASSUME NEW f \in 0 .. n - 1, e < f PROVE k < FillKey(keys, start, f)
      <4>1. e + 1 # room
        BY <1>6, <3>4
      <4>2. hi(e) <= e * b + b
        BY <1>10, <4>1
      <4>3. i <= e * b + b
        <5>1. i \in Nat /\ hi(e) \in Nat /\ e * b + b \in Nat
          BY <1>1, <1>2, <1>10, <3>2
        <5>2. QED
          BY <3>2, <4>2, <5>1
      <4>4. QED
        BY <1>12, <3>1, <3>2, <3>4, <4>3
    <3>5. QED
      BY <3>3, <3>4
  <2>5. QED
    BY <2>3, <2>4
<1>16. ASSUME NEW k \in K PROVE \E e \in 0 .. n - 1 : k \in FillHeld(keys, room, e)
  <2>1. PICK i \in 1 .. l : keys[i] = k
    BY <1>2
  <2> DEFINE q == (i - 1) \div b
  <2>2. i - 1 = b * q + ((i - 1) % b) /\ (i - 1) % b \in 0 .. b - 1 /\ q \in Nat
    <3>1. i - 1 \in Nat
      BY <1>2
    <3>2. QED
      BY <1>1, <3>1, Division
  <2> HIDE DEF q
  <2>3. PICK x \in Nat : x = q * b
    BY <1>7, <2>2
  <2>4. x <= i - 1 /\ i - 1 < x + b /\ b * q = x
    BY <1>1, <1>2, <1>7, <2>2, <2>3
  <2>5. q < c
    BY <1>2, <1>5, <2>2, <2>4
  <2>6. CASE q < n
    <3>1. q \in 0 .. n - 1
      BY <1>6, <2>2, <2>6
    <3>2. hi(q) = l \/ hi(q) = x + b
      BY <1>10, <2>3, <3>1
    <3>3. i \in x + 1 .. hi(q)
      BY <1>1, <1>2, <2>4, <3>2
    <3>4. QED
      BY <1>8, <2>1, <2>3, <3>1, <3>3
  <2>7. CASE ~ (q < n)
    <3> DEFINE e == room - 1
    <3>1. n = room /\ e \in 0 .. n - 1 /\ e \in Nat /\ e < q /\ e + 1 = room
      BY <1>5, <1>6, <2>2, <2>5, <2>7
    <3> HIDE DEF e
    <3>2. e * b + b <= x /\ e * b \in Nat
      BY <1>7, <2>2, <2>3, <3>1
    <3>3. hi(e) = l
      BY <1>10, <3>1
    <3>4. i \in e * b + 1 .. hi(e)
      BY <1>1, <1>2, <2>4, <3>2, <3>3
    <3>5. QED
      BY <1>8, <2>1, <3>1, <3>4
  <2>8. QED
    BY <2>6, <2>7
<1>17. QED
  BY <1>6, <1>11, <1>14, <1>15, <1>16, Zenon DEF Fills, n

(* A level is built when its ranges are numbered one behind the other,     *)
(* their start keys and entry keys ascend, and entries not in use have key *)
(* 0.                                                                      *)
LEMMA BuiltIs ==
  ASSUME NEW lv, NEW m \in Nat,
         lv.entryKey \in [0 .. m - 1 -> Key], DOMAIN lv.held = 0 .. m - 1, DOMAIN lv.ranges = 0 .. Threads,
         \A r \in 0 .. Threads : /\ lv.ranges[r].physical \in Nat /\ lv.ranges[r].logical \in Nat
                                 /\ lv.ranges[r].logical <= lv.ranges[r].physical,
         \A r \in RangeNum : /\ lv.ranges[r].entries \in Nat \ {0}
                             /\ lv.ranges[r].start = lv.entryKey[lv.ranges[r].physical]
                             /\ lv.ranges[r + 1].logical = lv.ranges[r].logical + lv.ranges[r].entries
                             /\ lv.ranges[r].physical + lv.ranges[r].entries <= m,
         \A r \in RangeNum : \A s \in 0 .. Threads :
            r < s => lv.ranges[r].physical + lv.ranges[r].entries <= lv.ranges[s].physical,
         lv.ranges[0].physical = 0, lv.ranges[0].logical = 0, lv.ranges[0].start = 0,
         \A p, q \in Used(lv) : p < q => lv.entryKey[p] < lv.entryKey[q],
         \A p \in 0 .. m - 1 : p \notin Used(lv) => lv.entryKey[p] = 0
  PROVE  Built(lv)
<1>1. Threads \in Nat \ {0} /\ \A r \in RangeNum : r \in Nat /\ r \in 0 .. Threads /\ r + 1 \in 0 .. Threads /\ r < r + 1
  BY SearchAssumption DEF RangeNum
<1>2. Key \subseteq Nat
  BY SearchAssumption DEF Key
<1>3. \A r \in RangeNum :
        /\ LastPhysical(lv.ranges[r]) = lv.ranges[r].physical + lv.ranges[r].entries - 1
        /\ lv.ranges[r].physical \in Nat /\ LastPhysical(lv.ranges[r]) \in Nat
        /\ lv.ranges[r].physical <= LastPhysical(lv.ranges[r]) /\ LastPhysical(lv.ranges[r]) < m
  <2>1. ASSUME NEW r \in RangeNum
        PROVE  /\ LastPhysical(lv.ranges[r]) = lv.ranges[r].physical + lv.ranges[r].entries - 1
               /\ lv.ranges[r].physical \in Nat /\ LastPhysical(lv.ranges[r]) \in Nat
               /\ lv.ranges[r].physical <= LastPhysical(lv.ranges[r]) /\ LastPhysical(lv.ranges[r]) < m
    <3>1. /\ lv.ranges[r].physical \in Nat /\ lv.ranges[r].entries \in Nat \ {0}
          /\ lv.ranges[r].physical + lv.ranges[r].entries <= m
      BY <1>1
    <3>2. PICK x \in Nat, e \in Nat \ {0} : x = lv.ranges[r].physical /\ e = lv.ranges[r].entries
      BY <3>1
    <3>3. LastPhysical(lv.ranges[r]) = x + e - 1 /\ x + e <= m
      BY <3>1, <3>2 DEF LastPhysical
    <3>4. PICK z : z = LastPhysical(lv.ranges[r])
      OBVIOUS
    <3>5. z = x + e - 1 /\ x + e <= m
      BY <3>3, <3>4
    <3>6. z \in Nat /\ x <= z /\ z < m
      BY <3>5
    <3>7. QED
      BY <3>2, <3>4, <3>5, <3>6
  <2>2. QED
    BY <2>1
<1>4. \A r \in RangeNum : \A p \in lv.ranges[r].physical .. LastPhysical(lv.ranges[r]) : p \in Used(lv)
  BY DEF Used
<1>5. \A p \in 0 .. m - 1 : lv.entryKey[p] \in Key /\ lv.entryKey[p] \in Nat
  BY <1>2
<1>6. ASSUME NEW r \in RangeNum
      PROVE  /\ 0 .. LastPhysical(lv.ranges[r]) \subseteq DOMAIN lv.entryKey
             /\ \A p \in 0 .. lv.ranges[r].physical - 1 : lv.entryKey[p] <= lv.ranges[r].start
             /\ \A p, q \in lv.ranges[r].physical .. LastPhysical(lv.ranges[r]) :
                  p < q => lv.entryKey[p] < lv.entryKey[q]
  <2>1. 0 .. LastPhysical(lv.ranges[r]) \subseteq 0 .. m - 1
    BY <1>3
  <2>2. lv.ranges[r].physical \in 0 .. m - 1 /\ lv.ranges[r].physical \in Used(lv)
        /\ lv.ranges[r].start = lv.entryKey[lv.ranges[r].physical]
    <3>1. PICK x : x = lv.ranges[r].physical
      OBVIOUS
    <3>2. x \in 0 .. m - 1 /\ x \in lv.ranges[r].physical .. LastPhysical(lv.ranges[r])
      BY <1>3, <3>1
    <3>3. QED
      BY <1>4, <3>1, <3>2
  <2>3. ASSUME NEW p \in 0 .. lv.ranges[r].physical - 1 PROVE lv.entryKey[p] <= lv.ranges[r].start
    <3>1. p \in 0 .. m - 1 /\ p < lv.ranges[r].physical
      BY <1>3, <2>2
    <3>2. lv.entryKey[p] \in Nat /\ lv.ranges[r].start \in Nat
      BY <1>5, <2>2, <3>1
    <3>3. CASE p \in Used(lv)
      <4>1. lv.entryKey[p] < lv.entryKey[lv.ranges[r].physical]
        BY <2>2, <3>1, <3>3
      <4>2. QED
        BY <2>2, <3>2, <4>1
    <3>4. CASE p \notin Used(lv)
      BY <3>1, <3>2, <3>4
    <3>5. QED
      BY <3>3, <3>4
  <2>4. QED
    BY <1>4, <2>1, <2>3
<1>7. ASSUME NEW r \in RangeNum, NEW s \in 0 .. Threads, r < s
      PROVE  LastPhysical(lv.ranges[r]) < lv.ranges[s].physical
  <2>1. lv.ranges[r].physical + lv.ranges[r].entries <= lv.ranges[s].physical
    BY <1>7
  <2>2. lv.ranges[s].physical \in Nat /\ lv.ranges[r].physical \in Nat /\ lv.ranges[r].entries \in Nat
    BY <1>1
  <2>3. LastPhysical(lv.ranges[r]) = lv.ranges[r].physical + lv.ranges[r].entries - 1
    BY <1>3
  <2>4. PICK x, e, y, z : /\ x = lv.ranges[r].physical /\ e = lv.ranges[r].entries
                          /\ y = lv.ranges[s].physical /\ z = LastPhysical(lv.ranges[r])
    OBVIOUS
  <2>5. z = x + e - 1 /\ x + e <= y /\ x \in Nat /\ e \in Nat /\ y \in Nat
    BY <2>1, <2>2, <2>3, <2>4
  <2>6. z < y
    BY <2>5
  <2>7. QED
    BY <2>4, <2>6
<1>8. WellFormed(lv)
  <2>1. lv.entryKey \in [DOMAIN lv.entryKey -> Key]
    OBVIOUS
  <2>2. \A r \in 0 .. Threads : lv.ranges[r].physical \in Nat /\ lv.ranges[r].logical \in 0 .. lv.ranges[r].physical
    OBVIOUS
  <2>3. \A r, s \in RangeNum : r < s => LastPhysical(lv.ranges[r]) < lv.ranges[s].physical
    BY <1>1, <1>7
  <2>4. QED
    BY <1>6, <2>1, <2>2, <2>3, Zenon DEF WellFormed
<1>9. LastPhysical(lv.ranges[Threads - 1]) < lv.ranges[Threads].physical
  <2>1. Threads - 1 \in RangeNum /\ Threads \in 0 .. Threads /\ Threads - 1 < Threads
    BY <1>1 DEF RangeNum
  <2>2. QED
    BY <1>7, <2>1
<1>10. QED
  BY <1>8, <1>9, Zenon DEF Built

(* A level whose entries hold every key between their own entry key and    *)
(* the next holds each key where it is to be found.                        *)
LEMMA ContentIs ==
  ASSUME NEW lv, Built(lv), NEW S, S \subseteq Key,
         \A p \in DOMAIN lv.held : p \notin Used(lv) => lv.held[p] = {},
         \A p \in Used(lv) :
           /\ lv.held[p] \subseteq S
           /\ \A k \in lv.held[p] : /\ lv.entryKey[p] <= k
                                    /\ \A q \in Used(lv) : p < q => k < lv.entryKey[q],
         \A k \in S : \E p \in Used(lv) : k \in lv.held[p]
  PROVE  Content(lv, S)
<1>1. WellFormed(lv) /\ Key \subseteq Nat
  BY SearchAssumption DEF Built, Key
<1>2. \A p \in Used(lv) : p \in Nat /\ lv.entryKey[p] \in Nat
  BY <1>1, UsedIs
<1>3. ASSUME NEW p \in Used(lv), NEW k \in lv.held[p] PROVE p = Home(lv, k)
  <2> DEFINE h == Home(lv, k)
  <2>1. k \in S /\ k \in Key /\ k \in Nat
    BY <1>1
  <2>2. /\ h \in Used(lv) /\ lv.entryKey[h] <= k
        /\ \A q \in Used(lv) : lv.entryKey[q] <= k => q <= h
    BY <1>1, <2>1, HomeInRange
  <2> HIDE DEF h
  <2>3. p <= h
    BY <2>2
  <2>4. p < h => k < lv.entryKey[h]
    BY <2>2
  <2>5. p = h
    BY <1>2, <2>1, <2>2, <2>3, <2>4
  <2>6. QED
    BY <2>5 DEF h
<1>4. ASSUME NEW p \in DOMAIN lv.held PROVE lv.held[p] = {k \in S : p = Home(lv, k)}
  <2>1. CASE p \in Used(lv)
    <3>1. ASSUME NEW k \in S, p = Home(lv, k) PROVE k \in lv.held[p]
      <4>1. PICK q \in Used(lv) : k \in lv.held[q]
        OBVIOUS
      <4>2. q = p
        BY <1>3, <3>1, <4>1
      <4>3. QED
        BY <4>1, <4>2
    <3>2. QED
      BY <1>3, <2>1, <3>1
  <2>2. CASE p \notin Used(lv)
    <3>1. \A k \in S : Home(lv, k) \in Used(lv)
      BY <1>1, HomeInRange
    <3>2. QED
      BY <2>2, <3>1
  <2>3. QED
    BY <2>1, <2>2
<1>5. QED
  BY <1>4 DEF Content

(* The counters that the builders assume. *)
LEMMA IntervalSizesAre ==
  ASSUME NEW entries \in Nat \ {0}, NEW interval \in Nat \ {0}
  PROVE  IntervalSizes(entries, interval) \in [0 .. CeilDiv(entries, interval) - 1 -> 0 .. WordSize - 1]
<1> DEFINE n == CeilDiv(entries, interval)
           x(j) == (IF j < n - 1 THEN interval ELSE entries - interval * (n - 1)) * BufKey
<1>1. n \in Nat \ {0} /\ \A q \in Nat : q < n <=> interval * q < entries
  BY CeilDivIs
<1> HIDE DEF n
<1>2. n - 1 \in Nat /\ interval * (n - 1) < entries /\ interval * (n - 1) \in Nat
  BY <1>1
<1>3. WordSize \in Nat \ {0} /\ BufKey \in Nat
  BY GenerationAssumption
<1>4. \A j : x(j) \in Nat
  <2>1. ASSUME NEW j PROVE x(j) \in Nat
    <3>1. PICK y : y = IF j < n - 1 THEN interval ELSE entries - interval * (n - 1)
      OBVIOUS
    <3>2. y \in Nat
      BY <1>2, <3>1
    <3>3. y * BufKey \in Nat
      BY <1>3, <3>2
    <3>4. QED
      BY <3>1, <3>3
  <2>2. QED
    BY <2>1
<1>5. IntervalSizes(entries, interval) = [j \in 0 .. n - 1 |-> x(j) % WordSize]
  BY DEF IntervalSizes, n
<1> HIDE DEF x
<1>6. \A j : x(j) % WordSize \in 0 .. WordSize - 1
  BY <1>3, <1>4, Remainder, Zenon
<1>7. QED
  BY <1>5, <1>6 DEF n

(* The physical or logical start of range r, when m entries are divided    *)
(* evenly and the last range takes what is left.                           *)
StartOf(m, r) == IF r = Threads THEN m ELSE r * (m \div Threads)

(* These starts ascend, and no range is without an entry.                  *)
LEMMA StartsAre ==
  ASSUME NEW m \in Nat, Threads <= m
  PROVE  /\ m \div Threads \in Nat \ {0}
         /\ \A r \in 0 .. Threads : StartOf(m, r) \in Nat /\ StartOf(m, r) <= m
         /\ StartOf(m, 0) = 0 /\ StartOf(m, Threads) = m
         /\ \A r, s \in 0 .. Threads :
              r < s => /\ StartOf(m, r) < StartOf(m, s)
                       /\ StartOf(m, r + 1) <= StartOf(m, s)
<1> DEFINE d == m \div Threads
           t == Threads
<1>1. t \in Nat \ {0}
  BY SearchAssumption
<1>2. m = t * d + (m % t) /\ m % t \in 0 .. t - 1 /\ d \in Nat
  BY <1>1, Division
<1>3. d # 0
  <2>1. SUFFICES ASSUME d = 0 PROVE FALSE
    OBVIOUS
  <2>2. t * d = 0
    BY <1>1, <2>1
  <2>3. QED
    BY <1>1, <1>2, <2>2
<1>4. d \in Nat \ {0}
  BY <1>2, <1>3
<1> HIDE DEF d
<1>5. /\ \A r \in Nat : r * d \in Nat
      /\ \A r, s \in Nat : r < s => r * d + d <= s * d
  BY <1>4, Multiples
<1>6. t * d <= m
  BY <1>1, <1>2, <1>5
<1>7. \A r : StartOf(m, r) = IF r = t THEN m ELSE r * d
  BY DEF StartOf, d
<1> HIDE DEF t
<1>8. \A r \in Nat : r < t => r * d + d <= m
  <2>1. ASSUME NEW r \in Nat, r < t PROVE r * d + d <= m
    <3>1. r * d + d <= t * d /\ t * d \in Nat /\ r * d \in Nat
      BY <1>1, <1>5, <2>1
    <3>2. QED
      BY <1>4, <1>6, <3>1
  <2>2. QED
    BY <2>1
<1>9. \A r \in 0 .. t : StartOf(m, r) \in Nat /\ StartOf(m, r) <= m
  <2>1. ASSUME NEW r \in 0 .. t PROVE StartOf(m, r) \in Nat /\ StartOf(m, r) <= m
    <3>1. CASE r = t
      BY <1>7, <3>1
    <3>2. CASE r # t
      <4>1. r \in Nat /\ r < t
        BY <1>1, <3>2
      <4>2. r * d + d <= m /\ r * d \in Nat
        BY <1>5, <1>8, <4>1
      <4>3. QED
        BY <1>4, <1>7, <3>2, <4>2
    <3>3. QED
      BY <3>1, <3>2
  <2>2. QED
    BY <2>1
<1>10. StartOf(m, 0) = 0 /\ StartOf(m, t) = m
  BY <1>1, <1>4, <1>7
<1>11. ASSUME NEW r \in 0 .. t, NEW s \in 0 .. t, r < s
       PROVE  StartOf(m, r) < StartOf(m, s) /\ StartOf(m, r + 1) <= StartOf(m, s)
  <2>1. r \in Nat /\ r < t /\ r # t /\ s \in Nat /\ r + 1 \in Nat /\ r + 1 \in 0 .. t
    BY <1>1, <1>11
  <2>2. StartOf(m, r) = r * d /\ r * d \in Nat /\ r * d + d <= m
    BY <1>5, <1>7, <1>8, <2>1
  <2>3. CASE s = t
    <3>1. StartOf(m, s) = m
      BY <1>7, <2>3
    <3>2. StartOf(m, r + 1) <= m
      BY <1>9, <2>1
    <3>3. QED
      BY <1>4, <2>2, <3>1, <3>2
  <2>4. CASE s # t
    <3>1. StartOf(m, s) = s * d /\ s * d \in Nat
      BY <1>5, <1>7, <2>1, <2>4
    <3>2. r * d + d <= s * d
      BY <1>5, <1>11, <2>1
    <3>3. r + 1 # t
      BY <1>1, <1>11, <2>1, <2>4
    <3>4. StartOf(m, r + 1) = (r + 1) * d
      BY <1>7, <3>3
    <3>5. (r + 1) * d = r * d + d
      BY <1>4, <2>1
    <3>6. QED
      BY <1>4, <2>2, <3>1, <3>2, <3>4, <3>5
  <2>5. QED
    BY <2>3, <2>4
<1>12. QED
  BY <1>4, <1>9, <1>10, <1>11 DEF d, t

(* What every level satisfies, the keys S being in it.                     *)
Good(lv, S) ==
  /\ Built(lv) /\ Counted(lv) /\ Content(lv, S) /\ Peopled(lv)
  /\ lv.size \in 0 .. WordSize - 1

(* Max of two numbers.                                                     *)
LEMMA MaxPair ==
  ASSUME NEW a \in Int, NEW b \in Int
  PROVE  Max({a, b}) = IF a >= b THEN a ELSE b
<1>1. {a, b} \in SUBSET Int
  OBVIOUS
<1>2. CASE a >= b
  BY <1>1, <1>2, MaxIs
<1>3. CASE ~ (a >= b)
  BY <1>1, <1>3, MaxIs
<1>4. QED
  BY <1>2, <1>3

(* interval_size_ is positive.                                             *)
LEMMA IntervalLength ==
  ASSUME NEW least \in Nat \ {0}, NEW share \in Nat
  PROVE  Max({least, share \div IntervalsPerRange}) \in Nat \ {0}
<1>1. share \div IntervalsPerRange \in Nat
  BY GenerationAssumption, QuotientType
<1>2. PICK x \in Nat : x = share \div IntervalsPerRange
  BY <1>1
<1>3. Max({least, x}) \in Nat \ {0}
  BY MaxPair
<1>4. QED
  BY <1>2, <1>3

(* The range that a position falls into. *)
LEMMA PositionOf ==
  ASSUME NEW m \in Nat, Threads <= m, NEW p \in 0 .. m - 1
  PROVE  /\ \E r \in RangeNum : StartOf(m, r) <= p /\ p < StartOf(m, r + 1)
         /\ \A r \in RangeNum :
              StartOf(m, r) <= p /\ p < StartOf(m, r + 1)
                => Max({q \in RangeNum : StartOf(m, q) <= p}) = r
<1>1. Threads \in Nat \ {0} /\ 0 \in RangeNum
      /\ \A r \in RangeNum : r \in Nat /\ r < Threads /\ r \in 0 .. Threads /\ r + 1 \in 0 .. Threads
  BY SearchAssumption DEF RangeNum
<1>2. \A r \in Nat : r < Threads => r \in RangeNum
  BY <1>1 DEF RangeNum
<1> DEFINE S == {q \in RangeNum : StartOf(m, q) <= p}
<1>3. /\ \A r \in 0 .. Threads : StartOf(m, r) \in Nat
      /\ StartOf(m, 0) = 0 /\ StartOf(m, Threads) = m
      /\ \A r, s \in 0 .. Threads : r < s => StartOf(m, r) < StartOf(m, s) /\ StartOf(m, r + 1) <= StartOf(m, s)
  BY StartsAre
<1>4. S \in SUBSET Int /\ 0 \in S /\ \A q \in S : q <= Threads
  BY <1>1, <1>3
<1>5. Max(S) \in S /\ \A q \in S : q <= Max(S)
  <2> HIDE DEF S
  <2>1. S # {} /\ Threads \in Int
    BY <1>1, <1>4
  <2>2. QED
    BY <1>4, <2>1, MaxProperty
<1>6. \E r \in RangeNum : StartOf(m, r) <= p /\ p < StartOf(m, r + 1)
  <2> DEFINE r == Max(S)
  <2>1. r \in RangeNum /\ StartOf(m, r) <= p
    BY <1>5
  <2>2. r + 1 \in S => r + 1 <= r
    BY <1>5
  <2> HIDE DEF r
  <2>3. r + 1 \notin S
    BY <1>1, <2>1, <2>2
  <2>4. CASE r + 1 = Threads
    BY <1>3, <2>1, <2>4
  <2>5. CASE r + 1 # Threads
    <3>1. r + 1 \in RangeNum
      BY <1>1, <1>2, <2>1, <2>5
    <3>2. ~ (StartOf(m, r + 1) <= p) /\ StartOf(m, r + 1) \in Nat
      BY <1>1, <1>3, <2>1, <2>3, <3>1
    <3>3. QED
      BY <2>1, <3>2
  <2>6. QED
    BY <2>4, <2>5
<1>7. ASSUME NEW r \in RangeNum, StartOf(m, r) <= p, p < StartOf(m, r + 1) PROVE Max(S) = r
  <2>1. r \in S
    BY <1>7
  <2>2. ASSUME NEW q \in S PROVE q <= r
    <3>1. SUFFICES ASSUME r < q PROVE FALSE
      BY <1>1, <2>2
    <3>2. q \in 0 .. Threads /\ r \in 0 .. Threads /\ r + 1 \in 0 .. Threads /\ StartOf(m, q) <= p
      BY <1>1, <2>2
    <3>3. StartOf(m, r + 1) <= StartOf(m, q) /\ StartOf(m, q) \in Nat /\ StartOf(m, r + 1) \in Nat
      BY <1>3, <3>1, <3>2
    <3>4. QED
      BY <1>7, <3>2, <3>3
  <2> HIDE DEF S
  <2>3. QED
    BY <1>4, <2>1, <2>2, MaxIs
<1>8. QED
  BY <1>6, <1>7

(* The file has room for an entry more than the keys would make, and for   *)
(* an entry in every range.                                                *)
LEMMA RoomFor ==
  ASSUME NEW l \in Nat
  PROVE  /\ PhysicalEntries(l) \in Nat /\ CeilDiv(l, BufKey) <= PhysicalEntries(l)
         /\ CeilDiv(l, BufKey) \in Nat
         /\ \A t \in Nat : (BufKey * t <= l => t <= PhysicalEntries(l))
         /\ \A t \in Nat : (BufKey * t < l => t < CeilDiv(l, BufKey))
<1> DEFINE b == BufKey
           c == CeilDiv(l, b)
           d == CeilDiv(l + 1, b)
<1>1. b \in Nat \ {0}
  BY GenerationAssumption
<1> HIDE DEF b
<1>2. c \in Nat /\ \A q \in Nat : q < c <=> b * q < l
  BY <1>1, CeilDivIs
<1>3. d \in Nat /\ l + 1 <= b * d /\ \A q \in Nat : q < d <=> b * q < l + 1
  <2>1. l + 1 \in Nat
    OBVIOUS
  <2>2. QED
    BY <1>1, <2>1, CeilDivIs
<1> HIDE DEF c
<1>4. PhysicalEntries(l) = (d * 6) \div 5
  BY DEF PhysicalEntries, b
<1> HIDE DEF d
<1>5. (d * 6) \div 5 \in Nat /\ d <= (d * 6) \div 5
  BY <1>3
<1>6. c <= d
  <2>1. SUFFICES ASSUME d < c PROVE FALSE
    BY <1>2, <1>3
  <2>2. b * d < l
    BY <1>2, <1>3, <2>1
  <2>3. b * d \in Nat
    BY <1>1, <1>3
  <2>4. QED
    BY <1>3, <2>2, <2>3
<1>7. \A t \in Nat : b * t <= l => t < d
  <2>1. \A t \in Nat : b * t \in Nat
    BY <1>1
  <2>2. QED
    BY <1>3, <2>1
<1>8. QED
  <2>1. c <= (d * 6) \div 5
    BY <1>2, <1>3, <1>5, <1>6
  <2>2. \A t \in Nat : b * t <= l => t <= (d * 6) \div 5
    BY <1>3, <1>5, <1>7
  <2>3. QED
    BY <1>2, <1>4, <1>5, <2>1, <2>2 DEF b, c

-----------------------------------------------------------------------------
(* The bulk load *)

(* All of it: the bulk load builds a level of the keys that it finds.      *)
LEMMA LoadIs ==
  ASSUME NEW load \in Loads
  PROVE  Good(LoadedLevel(load), load)
<1> DEFINE keys     == Ascending(load)
           l        == Len(keys)
           m        == PhysicalEntries(l)
           n        == Filled(keys, m)
           share    == n \div Threads
           interval == Max({LoadInterval, share \div IntervalsPerRange})
           lv       == LoadedLevel(load)
           key(p)   == FillKey(keys, 0, p)
           in(p)    == FillHeld(keys, m, p)
           count(r) == IF r < Threads - 1 THEN share ELSE n - (Threads - 1) * share
<1>1. /\ load \subseteq Key /\ BufKey \in Nat \ {0} /\ LoadInterval \in Nat \ {0} /\ WordSize \in Nat
      /\ (Threads - 1) * BufKey < Cardinality(load) /\ Cardinality(load) < WordSize
  BY GenerationAssumption
<1>2. Threads \in Nat \ {0} /\ Threads >= 2 /\ Threads - 1 \in Nat
  BY SearchAssumption, IndexAssumption
<1>3. Sorted(keys, load) /\ IsFiniteSet(load) /\ load \in SUBSET Int
  BY <1>1, KeysFinite
<1>4. l = Cardinality(load) /\ l \in Nat
  BY <1>3, AscendingIs
<1>5. (Threads - 1) * BufKey < l
  BY <1>1, <1>4
<1>6. BufKey * (Threads - 1) < l
  <2>1. BufKey * (Threads - 1) = (Threads - 1) * BufKey
    BY <1>1, <1>2
  <2>2. QED
    BY <1>5, <2>1
<1>7. l # 0
  <2>1. BufKey * (Threads - 1) \in Nat
    BY <1>1, <1>2
  <2>2. QED
    BY <1>4, <1>6, <2>1
<1>8. load # {}
  BY <1>3, <1>4, <1>7, FS_EmptySet
<1>9. l < WordSize
  BY <1>1, <1>4
(* The parts of the level. *)
<1>10. lv.entryKey = [p \in 0 .. m - 1 |-> IF p < n THEN key(p) ELSE 0]
  BY DEF LoadedLevel
<1>11. lv.held = [p \in 0 .. m - 1 |-> IF p < n THEN in(p) ELSE {}]
  BY DEF LoadedLevel
<1>12. lv.interval = interval /\ lv.size = l
  BY DEF LoadedLevel
<1>13. /\ DOMAIN lv.ranges = 0 .. Threads
       /\ \A r \in 0 .. Threads :
            lv.ranges[r].physical = StartOf(n, r) /\ lv.ranges[r].logical = StartOf(n, r)
  BY DEF LoadedLevel, StartOf
<1>14. \A r \in RangeNum : r \in 0 .. Threads /\ r # Threads /\ r \in Nat /\ r + 1 \in 0 .. Threads /\ r < Threads
  BY <1>2 DEF RangeNum
<1>15. \A r \in RangeNum : lv.ranges[r].entries = count(r)
  BY <1>14 DEF LoadedLevel
<1>16. \A r \in RangeNum : lv.ranges[r].start = lv.entryKey[StartOf(n, r)]
  BY <1>14 DEF LoadedLevel, StartOf
<1>17. lv.sizes = [r \in RangeNum |-> IntervalSizes(count(r), interval)]
  BY DEF LoadedLevel
<1> HIDE DEF lv, keys, l
(* The numbers of entries. *)
<1>18. /\ m \in Nat /\ CeilDiv(l, BufKey) \in Nat /\ CeilDiv(l, BufKey) <= m
       /\ Threads - 1 < CeilDiv(l, BufKey)
  BY <1>2, <1>4, <1>6, RoomFor
<1>19. n \in Nat /\ Threads <= n /\ n <= m
  <2>1. n = Min({m, CeilDiv(l, BufKey)})
    BY DEF Filled, l
  <2>2. Min({m, CeilDiv(l, BufKey)}) = IF m <= CeilDiv(l, BufKey) THEN m ELSE CeilDiv(l, BufKey)
    BY <1>18, MinPair
  <2> HIDE DEF n, m
  <2>3. QED
    BY <1>2, <1>18, <2>1, <2>2
<1>20. /\ \A e \in 0 .. n - 1 : key(e) \in {0} \union load
       /\ \A e, f \in 0 .. n - 1 : e < f => key(e) < key(f)
       /\ \A e \in 0 .. n - 1 :
            /\ in(e) # {} /\ in(e) \subseteq load
            /\ \A k \in in(e) : /\ key(e) <= k
                                /\ \A f \in 0 .. n - 1 : e < f => k < key(f)
       /\ \A k \in load : \E e \in 0 .. n - 1 : k \in in(e)
       /\ key(0) = 0
  <2>1. m \in Nat \ {0}
    BY <1>2, <1>18, <1>19
  <2>2. \A k \in load : 0 <= k
    BY <1>1, SearchAssumption DEF Key
  <2>3. key(0) = 0
    BY DEF FillKey
  <2> HIDE DEF m
  <2>4. Fills(load, keys, m, 0, n)
    BY <1>1, <1>3, <1>8, <2>1, <2>2, FillIs
  <2>5. QED
    BY <2>3, <2>4, Zenon DEF Fills
<1> HIDE DEF n, m, key, in
<1>21. /\ share \in Nat \ {0}
       /\ \A r \in 0 .. Threads : StartOf(n, r) \in Nat /\ StartOf(n, r) <= n
       /\ StartOf(n, 0) = 0 /\ StartOf(n, Threads) = n
       /\ \A r, s \in 0 .. Threads :
            r < s => /\ StartOf(n, r) < StartOf(n, s)
                     /\ StartOf(n, r + 1) <= StartOf(n, s)
  BY <1>19, StartsAre
<1>22. \A r \in RangeNum : count(r) \in Nat \ {0} /\ StartOf(n, r + 1) = StartOf(n, r) + count(r)
  <2>1. ASSUME NEW r \in RangeNum
        PROVE  count(r) \in Nat \ {0} /\ StartOf(n, r + 1) = StartOf(n, r) + count(r)
    <3>1. StartOf(n, r) \in Nat /\ StartOf(n, r + 1) \in Nat /\ StartOf(n, r) < StartOf(n, r + 1)
      <4>1. r < r + 1
        BY <1>14
      <4>2. QED
        BY <1>14, <1>21, <4>1
    <3>2. StartOf(n, r) = r * share
      BY <1>14 DEF StartOf
    <3>3. CASE r < Threads - 1
      <4>1. r + 1 # Threads
        BY <1>2, <1>14, <3>3
      <4>2. StartOf(n, r + 1) = (r + 1) * share
        BY <4>1 DEF StartOf
      <4>3. (r + 1) * share = r * share + share
        BY <1>14, <1>21
      <4> HIDE DEF share
      <4>4. QED
        BY <1>21, <3>2, <3>3, <4>2, <4>3
    <3>4. CASE ~ (r < Threads - 1)
      <4>1. r = Threads - 1 /\ r + 1 = Threads
        BY <1>2, <1>14, <3>4
      <4>2. StartOf(n, r + 1) = n
        BY <4>1, <1>21
      <4>3. count(r) = n - StartOf(n, r)
        BY <3>2, <3>4, <4>1
      <4> HIDE DEF count, share
      <4>4. QED
        BY <1>19, <3>1, <4>2, <4>3
    <3>5. QED
      BY <3>3, <3>4
  <2>2. QED
    BY <2>1
<1>23. interval \in Nat \ {0}
  BY <1>1, <1>21, IntervalLength
<1> HIDE DEF count, interval, share
<1>24. /\ \A p \in 0 .. n - 1 : p \in 0 .. m - 1 /\ lv.entryKey[p] = key(p) /\ lv.held[p] = in(p)
       /\ \A p \in 0 .. m - 1 : p \notin 0 .. n - 1 => lv.entryKey[p] = 0 /\ lv.held[p] = {}
       /\ DOMAIN lv.held = 0 .. m - 1
  <2>1. \A p \in 0 .. n - 1 : p \in 0 .. m - 1 /\ p < n
    BY <1>18, <1>19
  <2>2. \A p \in 0 .. m - 1 : p \notin 0 .. n - 1 => ~ (p < n)
    BY <1>18, <1>19
  <2>3. QED
    BY <1>10, <1>11, <2>1, <2>2
<1>25. lv.entryKey \in [0 .. m - 1 -> Key]
  <2>1. 0 \in Key
    BY SearchAssumption DEF Key
  <2>2. \A p \in 0 .. m - 1 : p < n => p \in 0 .. n - 1
    BY <1>18, <1>19
  <2>3. \A p \in 0 .. m - 1 : (IF p < n THEN key(p) ELSE 0) \in Key
    BY <1>1, <1>20, <2>1, <2>2
  <2>4. QED
    BY <1>10, <2>3
<1>26. \A r \in RangeNum : lv.ranges[r].physical .. LastPhysical(lv.ranges[r]) = StartOf(n, r) .. StartOf(n, r + 1) - 1
  <2>1. ASSUME NEW r \in RangeNum
        PROVE  lv.ranges[r].physical .. LastPhysical(lv.ranges[r]) = StartOf(n, r) .. StartOf(n, r + 1) - 1
    <3>0. lv.ranges[r].physical = StartOf(n, r) /\ lv.ranges[r].entries = count(r)
      BY <1>13, <1>14, <1>15
    <3>1. LastPhysical(lv.ranges[r]) = StartOf(n, r) + count(r) - 1
      BY <3>0 DEF LastPhysical
    <3>2. StartOf(n, r) + count(r) - 1 = StartOf(n, r + 1) - 1
      <4>1. StartOf(n, r) \in Nat /\ StartOf(n, r + 1) = StartOf(n, r) + count(r) /\ count(r) \in Nat
        BY <1>14, <1>21, <1>22
      <4>2. QED
        BY <4>1
    <3>3. QED
      BY <1>13, <1>14, <3>1, <3>2
  <2>2. QED
    BY <2>1
<1>27. Used(lv) = 0 .. n - 1
  <2>1. ASSUME NEW p \in Used(lv) PROVE p \in 0 .. n - 1
    <3>1. PICK r \in RangeNum : p \in StartOf(n, r) .. StartOf(n, r + 1) - 1
      BY <1>26 DEF Used
    <3>2. StartOf(n, r) \in Nat /\ StartOf(n, r + 1) \in Nat /\ StartOf(n, r + 1) <= n
      BY <1>14, <1>21
    <3>3. QED
      BY <1>19, <3>1, <3>2
  <2>2. ASSUME NEW p \in 0 .. n - 1 PROVE p \in Used(lv)
    <3>1. PICK r \in RangeNum : StartOf(n, r) <= p /\ p < StartOf(n, r + 1)
      BY <1>19, PositionOf
    <3>2. StartOf(n, r) \in Nat /\ StartOf(n, r + 1) \in Nat
      BY <1>14, <1>21
    <3>3. p \in StartOf(n, r) .. StartOf(n, r + 1) - 1
      BY <1>19, <3>1, <3>2
    <3>4. QED
      BY <1>26, <3>3 DEF Used
  <2>3. QED
    BY <2>1, <2>2
<1>28. Built(lv)
  <2>1. \A r \in 0 .. Threads : /\ lv.ranges[r].physical \in Nat /\ lv.ranges[r].logical \in Nat
                                /\ lv.ranges[r].logical <= lv.ranges[r].physical
    BY <1>13, <1>21
  <2>2. ASSUME NEW r \in RangeNum
        PROVE  /\ lv.ranges[r].entries \in Nat \ {0}
               /\ lv.ranges[r].start = lv.entryKey[lv.ranges[r].physical]
               /\ lv.ranges[r + 1].logical = lv.ranges[r].logical + lv.ranges[r].entries
               /\ lv.ranges[r].physical + lv.ranges[r].entries <= m
    <3>1. StartOf(n, r + 1) \in Nat /\ StartOf(n, r + 1) <= n
      BY <1>14, <1>21
    <3>2. StartOf(n, r + 1) <= m
      BY <1>18, <1>19, <3>1
    <3>3. QED
      BY <1>13, <1>14, <1>15, <1>16, <1>22, <3>2
  <2>3. ASSUME NEW r \in RangeNum, NEW s \in 0 .. Threads, r < s
        PROVE  lv.ranges[r].physical + lv.ranges[r].entries <= lv.ranges[s].physical
    <3>1. StartOf(n, r + 1) <= StartOf(n, s)
      BY <1>14, <1>21, <2>3
    <3>2. QED
      BY <1>13, <1>14, <1>15, <1>22, <3>1
  <2>4. 0 \in RangeNum /\ 0 \in 0 .. Threads /\ 0 \in 0 .. n - 1
    BY <1>2, <1>19 DEF RangeNum
  <2>5. lv.ranges[0].physical = 0 /\ lv.ranges[0].logical = 0 /\ lv.ranges[0].start = 0
    BY <1>13, <1>16, <1>20, <1>21, <1>24, <2>4
  <2>6. \A p, q \in Used(lv) : p < q => lv.entryKey[p] < lv.entryKey[q]
    BY <1>20, <1>24, <1>27
  <2>7. \A p \in 0 .. m - 1 : p \notin Used(lv) => lv.entryKey[p] = 0
    BY <1>24, <1>27
  <2>8. QED
    BY <1>13, <1>18, <1>24, <1>25, <2>1, <2>2, <2>3, <2>5, <2>6, <2>7, BuiltIs
<1>29. Content(lv, load)
  <2>1. \A p \in DOMAIN lv.held : p \notin Used(lv) => lv.held[p] = {}
    BY <1>24, <1>27
  <2>2. \A p \in Used(lv) :
          /\ lv.held[p] \subseteq load
          /\ \A k \in lv.held[p] : /\ lv.entryKey[p] <= k
                                   /\ \A q \in Used(lv) : p < q => k < lv.entryKey[q]
    BY <1>20, <1>24, <1>27
  <2>3. \A k \in load : \E p \in Used(lv) : k \in lv.held[p]
    BY <1>20, <1>24, <1>27
  <2>4. QED
    BY <1>1, <1>28, <2>1, <2>2, <2>3, ContentIs
<1>30. Peopled(lv)
  BY <1>20, <1>24, <1>27 DEF Peopled
<1>31. Counted(lv)
  <2>1. \A r \in RangeNum : lv.sizes[r] \in [0 .. Counters(lv, r) - 1 -> 0 .. WordSize - 1]
    BY <1>12, <1>15, <1>17, <1>22, <1>23, IntervalSizesAre DEF Counters
  <2>2. DOMAIN lv.sizes = RangeNum
    BY <1>17
  <2>3. QED
    BY <1>12, <1>23, <2>1, <2>2 DEF Counted
<1>32. lv.size \in 0 .. WordSize - 1
  BY <1>1, <1>4, <1>9, <1>12
<1>33. QED
  BY <1>28, <1>29, <1>30, <1>31, <1>32 DEF Good, lv

-----------------------------------------------------------------------------
(* The expansion *)

(* The sum of the first numbers of a list, number by number.               *)
LEMMA SumBelowIs ==
  ASSUME NEW numbers \in [RangeNum -> Nat]
  PROVE  /\ SumBelow(numbers, 0) = 0
         /\ \A r \in 0 .. Threads : SumBelow(numbers, r) \in Nat
         /\ \A r \in RangeNum : SumBelow(numbers, r + 1) = SumBelow(numbers, r) + numbers[r]
<1> DEFINE D == RangeNum \cup {Threads}
           f == CHOOSE f : f = [r \in D |-> IF r = 0 THEN 0 ELSE f[r - 1] + numbers[r - 1]]
           F == [x \in Nat \X (1 .. Threads) |-> x[1] + numbers[x[2] - 1]]
<1>1. \A r : SumBelow(numbers, r) = f[r]
  BY DEF SumBelow
<1> HIDE DEF f
<1>2. Threads \in Nat \ {0}
  BY SearchAssumption
<1>3. D = 0 .. Threads /\ \A r \in 1 .. Threads : r - 1 \in RangeNum /\ r - 1 \in 0 .. Threads
  BY <1>2 DEF RangeNum
<1> HIDE DEF D
<1>4. F \in [Nat \X (1 .. Threads) -> Nat]
  BY <1>3
<1>5. PICK g : Turns(g, Threads, Nat, 0, F)
  BY <1>2, <1>4, TurnsExist
<1>6. g \in [0 .. Threads -> Nat] /\ g[0] = 0
  BY <1>5 DEF Turns
<1>7. ASSUME NEW r \in 1 .. Threads PROVE g[r] = g[r - 1] + numbers[r - 1]
  <2>1. g[r] = F[<<g[r - 1], r>>] /\ <<g[r - 1], r>> \in Nat \X (1 .. Threads)
    BY <1>3, <1>5, <1>6 DEF Turns
  <2>2. QED
    BY <2>1
<1>8. g = [r \in D |-> IF r = 0 THEN 0 ELSE g[r - 1] + numbers[r - 1]]
  <2>1. \A r \in 0 .. Threads : r # 0 => r \in 1 .. Threads
    BY <1>2
  <2>2. QED
    BY <1>3, <1>6, <1>7, <2>1
<1>9. f = [r \in D |-> IF r = 0 THEN 0 ELSE f[r - 1] + numbers[r - 1]]
  BY <1>8 DEF f
<1>10. f[0] = 0
  BY <1>2, <1>3, <1>9
<1>11. \A r \in RangeNum : r \in Nat /\ r + 1 \in 0 .. Threads /\ r + 1 # 0 /\ (r + 1) - 1 = r
  BY <1>2 DEF RangeNum
<1>12. \A r \in RangeNum : f[r + 1] = f[r] + numbers[r]
  BY <1>3, <1>9, <1>11
<1> DEFINE G == {r \in 0 .. Threads : f[r] \in Nat}
<1>13. 0 \in G
  BY <1>2, <1>10
<1>14. \A r \in 0 .. Threads - 1 : r \in G => r + 1 \in G
  BY <1>11, <1>12 DEF RangeNum
<1>15. \A r \in 0 .. Threads : r \in G
  <2> HIDE DEF G
  <2>1. QED
    BY <1>2, <1>13, <1>14, Induct
<1>16. QED
  BY <1>1, <1>10, <1>12, <1>15

(* An expansion is due when there are more keys than entries for one key   *)
(* in every range.                                                         *)
LEMMA DueMeans ==
  ASSUME NEW size \in Nat, NEW factor \in Nat \ {0}, NEW b \in Nat \ {0}, NEW n \in Nat,
         NEW t \in Nat, t <= n, size >= factor * b * n
  PROVE  b * t <= size
<1>1. 1 * b <= factor * b /\ factor * b \in Nat
  BY ProductOrder
<1>2. PICK x \in Nat : x = factor * b
  BY <1>1
<1>3. b <= x
  BY <1>1, <1>2
<1>4. b * n <= x * n /\ b * n \in Nat /\ x * n \in Nat
  BY <1>3, ProductOrder
<1>5. t * b <= n * b /\ t * b \in Nat
  BY ProductOrder
<1>6. n * b = b * n /\ t * b = b * t
  OBVIOUS
<1>7. size >= x * n
  BY <1>2
<1>8. QED
  BY <1>4, <1>5, <1>6, <1>7

(* All of it: an expansion that is due and whose cut makes as many shares  *)
(* as there are threads builds a level of the same keys.                   *)
LEMMA ExpandIs ==
  ASSUME NEW lv, NEW S, Good(lv, S), Countable(lv), RangesAllCut(lv),
         lv.size >= ExpansionFactor * BufKey * Entries(lv)
  PROVE  Good(ExpandedLevel(lv), S)
<1> DEFINE m        == PhysicalEntries(lv.size)
           share    == m \div Threads
           start    == [r \in 0 .. Threads |-> IF r = Threads THEN m ELSE r * share]
           room     == [r \in RangeNum |-> start[r + 1] - start[r]]
           keys     == [r \in RangeNum |-> Moved(lv, r)]
           entries  == [r \in RangeNum |-> Filled(keys[r], room[r])]
           interval == Max({ExpandInterval, share \div IntervalsPerRange})
           at(p)    == Max({r \in RangeNum : start[r] <= p})
           new      == ExpandedLevel(lv)
           K(r)     == KeysOf(lv, S, r)
           low(r)   == NextStart(lv, r)
           key(r, e) == FillKey(keys[r], low(r), e)
           in(r, e)  == FillHeld(keys[r], room[r], e)
<1>1. /\ Built(lv) /\ Counted(lv) /\ Content(lv, S) /\ Peopled(lv) /\ lv.size \in 0 .. WordSize - 1
      /\ WellFormed(lv) /\ S \subseteq Key
  BY DEF Good, Built, Content
<1>2. /\ BufKey \in Nat \ {0} /\ ExpansionFactor \in Nat \ {0} /\ ExpandInterval \in Nat \ {0}
      /\ WordSize \in Nat \ {0} /\ lv.size \in Nat
  BY <1>1, GenerationAssumption
<1>3. Threads \in Nat \ {0} /\ 0 \in RangeNum
  BY SearchAssumption DEF RangeNum
<1>4. \A r \in RangeNum : /\ r \in 0 .. Threads /\ r # Threads /\ r \in Nat /\ r + 1 \in 0 .. Threads
                          /\ r < Threads /\ r < r + 1
  BY <1>3 DEF RangeNum
(* The parts of the level. *)
<1>5. new.entryKey = [p \in 0 .. m - 1 |->
        IF p - start[at(p)] < entries[at(p)]
        THEN FillKey(keys[at(p)], low(at(p)), p - start[at(p)]) ELSE 0]
  BY DEF ExpandedLevel
<1>6. new.held = [p \in 0 .. m - 1 |->
        IF p - start[at(p)] < entries[at(p)]
        THEN FillHeld(keys[at(p)], room[at(p)], p - start[at(p)]) ELSE {}]
  BY DEF ExpandedLevel
<1>7. /\ DOMAIN new.ranges = 0 .. Threads
      /\ \A r \in 0 .. Threads :
           new.ranges[r].physical = start[r] /\ new.ranges[r].logical = SumBelow(entries, r)
  BY DEF ExpandedLevel
<1>8. \A r \in RangeNum : new.ranges[r].entries = entries[r] /\ new.ranges[r].start = low(r)
  BY <1>4 DEF ExpandedLevel
<1>9. new.interval = interval /\ new.sizes = [r \in RangeNum |-> IntervalSizes(entries[r], interval)]
  BY DEF ExpandedLevel
<1>10. new.size = SumBelow([r \in RangeNum |-> Len(keys[r])], Threads) % WordSize
  BY DEF ExpandedLevel
<1> HIDE DEF new
(* The room in the file. *)
<1>11. m \in Nat /\ Threads <= m
  <2>1. Entries(lv) \in Nat /\ Threads <= Entries(lv)
    BY <1>1, PlaceIs
  <2>2. BufKey * Threads <= lv.size
    BY <1>2, <1>3, <2>1, DueMeans
  <2>3. QED
    BY <1>2, <1>3, <2>2, RoomFor
<1> HIDE DEF m
<1>12. \A r \in 0 .. Threads : start[r] = StartOf(m, r)
  BY DEF StartOf
<1>13. share \in Nat \ {0}
  BY <1>11, StartsAre
<1> HIDE DEF share, start
<1>14. /\ \A r \in 0 .. Threads : start[r] \in Nat /\ start[r] <= m
       /\ start[0] = 0 /\ start[Threads] = m
       /\ \A r, s \in 0 .. Threads : r < s => start[r + 1] <= start[s]
       /\ \A r \in RangeNum : start[r] < start[r + 1]
  <2>1. /\ \A r \in 0 .. Threads : StartOf(m, r) \in Nat /\ StartOf(m, r) <= m
        /\ StartOf(m, 0) = 0 /\ StartOf(m, Threads) = m
        /\ \A r, s \in 0 .. Threads :
             r < s => /\ StartOf(m, r) < StartOf(m, s)
                      /\ StartOf(m, r + 1) <= StartOf(m, s)
    BY <1>11, StartsAre
  <2>2. 0 \in 0 .. Threads /\ Threads \in 0 .. Threads
    BY <1>3
  <2>3. \A r, s \in 0 .. Threads : r < s => r + 1 \in 0 .. Threads
    BY <1>3
  <2>4. QED
    BY <1>4, <1>12, <2>1, <2>2, <2>3
<1>15. interval \in Nat \ {0}
  BY <1>2, <1>13, IntervalLength
<1> HIDE DEF interval
<1>16. \A r \in RangeNum : room[r] = start[r + 1] - start[r] /\ room[r] \in Nat \ {0}
  BY <1>4, <1>14
(* The keys of each range, and the entries that they make. *)
<1>17. /\ low(0) = 0
       /\ \A r, s \in RangeNum : r < s => low(r) < low(s)
       /\ \A r \in RangeNum : /\ K(r) \subseteq S /\ K(r) # {} /\ low(r) \in Key
                              /\ \A k \in K(r) : /\ low(r) <= k
                                                 /\ \A s \in RangeNum : r < s => k < low(s)
       /\ \A k \in S : \E r \in RangeNum : k \in K(r)
  BY <1>1, KeysOfAre
<1>18. \A k \in Key : k \in Nat
  BY SearchAssumption DEF Key
<1>19. \A r \in RangeNum : keys[r] = Ascending(K(r))
  <2>1. ASSUME NEW r \in RangeNum PROVE Moved(lv, r) = Ascending(K(r))
    <3>1. OldEntries(lv, r) \subseteq Used(lv)
      BY <1>1, SharesAre
    <3>2. QED
      BY <1>1, <3>1, MovedIs
  <2>2. QED
    BY <2>1
<1> HIDE DEF K, low, room, keys
<1>20. \A r \in RangeNum : Sorted(keys[r], K(r)) /\ Len(keys[r]) \in Nat
  <2>1. ASSUME NEW r \in RangeNum PROVE Sorted(keys[r], K(r)) /\ Len(keys[r]) \in Nat
    <3>1. K(r) \subseteq Key
      BY <1>1, <1>17
    <3>2. Sorted(keys[r], K(r))
      BY <1>19, <3>1, KeysFinite
    <3>3. QED
      BY <3>2, SortedParts
  <2>2. QED
    BY <2>1
<1>21. \A r \in RangeNum : Fills(K(r), keys[r], room[r], low(r), entries[r])
  <2>1. ASSUME NEW r \in RangeNum PROVE Fills(K(r), keys[r], room[r], low(r), Filled(keys[r], room[r]))
    <3>1. /\ K(r) \subseteq Key /\ K(r) # {} /\ Sorted(keys[r], K(r)) /\ room[r] \in Nat \ {0}
          /\ low(r) \in Nat /\ \A k \in K(r) : low(r) <= k
      BY <1>1, <1>16, <1>17, <1>18, <1>20
    <3>2. QED
      BY <3>1, FillIs
  <2>2. QED
    BY <2>1
<1> HIDE DEF entries
<1>22. ASSUME NEW r \in RangeNum
       PROVE  /\ entries[r] \in Nat \ {0} /\ entries[r] <= room[r]
              /\ \A e \in 0 .. entries[r] - 1 : key(r, e) \in {low(r)} \union K(r)
              /\ \A e, f \in 0 .. entries[r] - 1 : e < f => key(r, e) < key(r, f)
              /\ \A e \in 0 .. entries[r] - 1 :
                   /\ in(r, e) # {} /\ in(r, e) \subseteq K(r)
                   /\ \A k \in in(r, e) : /\ key(r, e) <= k
                                          /\ \A f \in 0 .. entries[r] - 1 : e < f => k < key(r, f)
              /\ \A k \in K(r) : \E e \in 0 .. entries[r] - 1 : k \in in(r, e)
              /\ key(r, 0) = low(r)
  <2>1. key(r, 0) = low(r)
    BY DEF FillKey
  <2>2. Fills(K(r), keys[r], room[r], low(r), entries[r])
    BY <1>21
  <2>3. QED
    BY <2>1, <2>2, Zenon DEF Fills
<1>23. \A r \in RangeNum : /\ start[r] + entries[r] <= start[r + 1] /\ entries[r] \in Nat \ {0}
                           /\ start[r] \in Nat /\ start[r + 1] \in Nat /\ start[r + 1] <= m
  <2>1. ASSUME NEW r \in RangeNum
        PROVE  /\ start[r] + entries[r] <= start[r + 1] /\ entries[r] \in Nat \ {0}
               /\ start[r] \in Nat /\ start[r + 1] \in Nat /\ start[r + 1] <= m
    <3>1. entries[r] \in Nat \ {0} /\ entries[r] <= room[r] /\ room[r] = start[r + 1] - start[r]
      BY <1>16, <1>22
    <3>2. start[r] \in Nat /\ start[r + 1] \in Nat /\ start[r + 1] <= m
      BY <1>4, <1>14
    <3>3. QED
      BY <3>1, <3>2
  <2>2. QED
    BY <2>1
(* Entry e of range r. *)
<1>24. \A r \in RangeNum : \A p : start[r] <= p /\ p < start[r + 1] /\ p \in 0 .. m - 1 => at(p) = r
  <2>1. \A p : {r \in RangeNum : start[r] <= p} = {r \in RangeNum : StartOf(m, r) <= p}
    BY <1>4, <1>12
  <2>2. \A r \in RangeNum : start[r] = StartOf(m, r) /\ start[r + 1] = StartOf(m, r + 1)
    BY <1>4, <1>12
  <2>3. ASSUME NEW r \in RangeNum, NEW p \in 0 .. m - 1, StartOf(m, r) <= p, p < StartOf(m, r + 1)
        PROVE  Max({q \in RangeNum : StartOf(m, q) <= p}) = r
    BY <1>11, <2>3, PositionOf
  <2>4. QED
    BY <2>1, <2>2, <2>3
<1> HIDE DEF at, key, in
<1>25. ASSUME NEW r \in RangeNum, NEW e \in 0 .. entries[r] - 1
       PROVE  /\ start[r] + e \in 0 .. m - 1
              /\ new.entryKey[start[r] + e] = key(r, e) /\ new.held[start[r] + e] = in(r, e)
  <2>1. /\ start[r] \in Nat /\ entries[r] \in Nat /\ start[r + 1] \in Nat
        /\ start[r] + entries[r] <= start[r + 1] /\ start[r + 1] <= m
    BY <1>23
  <2>2. PICK p : p = start[r] + e
    OBVIOUS
  <2>3. p \in 0 .. m - 1 /\ start[r] <= p /\ p < start[r + 1] /\ p - start[r] = e /\ e < entries[r]
    BY <1>11, <2>1, <2>2
  <2>4. at(p) = r
    BY <1>24, <2>3
  <2>5. new.entryKey[p] = FillKey(keys[r], low(r), e) /\ new.held[p] = FillHeld(keys[r], room[r], e)
    BY <1>5, <1>6, <2>3, <2>4
  <2>6. QED
    BY <2>2, <2>3, <2>5 DEF key, in
<1>26. \A r \in RangeNum : new.ranges[r].physical .. LastPhysical(new.ranges[r]) = start[r] .. start[r] + entries[r] - 1
  <2>1. ASSUME NEW r \in RangeNum
        PROVE  new.ranges[r].physical .. LastPhysical(new.ranges[r]) = start[r] .. start[r] + entries[r] - 1
    <3>1. new.ranges[r].physical = start[r] /\ new.ranges[r].entries = entries[r]
      BY <1>4, <1>7, <1>8
    <3>2. LastPhysical(new.ranges[r]) = start[r] + entries[r] - 1
      BY <3>1 DEF LastPhysical
    <3>3. QED
      BY <3>1, <3>2
  <2>2. QED
    BY <2>1
<1>27. \A p \in Used(new) : \E r \in RangeNum : \E e \in 0 .. entries[r] - 1 : p = start[r] + e
  <2>1. ASSUME NEW p \in Used(new)
        PROVE  \E r \in RangeNum : \E e \in 0 .. entries[r] - 1 : p = start[r] + e
    <3>1. PICK r \in RangeNum : p \in start[r] .. start[r] + entries[r] - 1
      BY <1>26 DEF Used
    <3>2. start[r] \in Nat /\ entries[r] \in Nat
      BY <1>23
    <3>3. p - start[r] \in 0 .. entries[r] - 1 /\ p = start[r] + (p - start[r])
      BY <3>1, <3>2
    <3>4. QED
      BY <3>3
  <2>2. QED
    BY <2>1
<1>28. \A r \in RangeNum : \A e \in 0 .. entries[r] - 1 : start[r] + e \in Used(new)
  <2>1. ASSUME NEW r \in RangeNum, NEW e \in 0 .. entries[r] - 1 PROVE start[r] + e \in Used(new)
    <3>1. start[r] \in Nat /\ entries[r] \in Nat
      BY <1>23
    <3>2. start[r] + e \in start[r] .. start[r] + entries[r] - 1
      BY <3>1
    <3>3. QED
      BY <1>26, <3>2 DEF Used
  <2>2. QED
    BY <2>1
<1>29. ASSUME NEW p \in 0 .. m - 1, p \notin Used(new) PROVE new.entryKey[p] = 0 /\ new.held[p] = {}
  <2>1. PICK r \in RangeNum : start[r] <= p /\ p < start[r + 1]
    <3>1. PICK r \in RangeNum : StartOf(m, r) <= p /\ p < StartOf(m, r + 1)
      BY <1>11, PositionOf
    <3>2. QED
      BY <1>4, <1>12, <3>1
  <2>2. at(p) = r
    BY <1>24, <2>1
  <2>3. start[r] \in Nat /\ entries[r] \in Nat
    BY <1>23
  <2>4. ~ (p - start[r] < entries[r])
    <3>1. SUFFICES ASSUME p - start[r] < entries[r] PROVE FALSE
      OBVIOUS
    <3>2. p - start[r] \in 0 .. entries[r] - 1 /\ start[r] + (p - start[r]) = p
      BY <1>11, <2>1, <2>3, <3>1
    <3>3. QED
      BY <1>28, <1>29, <3>2
  <2>5. QED
    BY <1>5, <1>6, <2>2, <2>4
<1>30. DOMAIN new.entryKey = 0 .. m - 1 /\ DOMAIN new.held = 0 .. m - 1
  BY <1>5, <1>6
(* Keys and entry keys in the order of the ranges. *)
<1>31. \A r \in RangeNum : \A e \in 0 .. entries[r] - 1 : key(r, e) \in Key /\ key(r, e) \in Nat
  <2>1. \A r \in RangeNum : {low(r)} \union K(r) \subseteq Key
    BY <1>1, <1>17
  <2>2. QED
    BY <1>18, <1>22, <2>1
<1>32. ASSUME NEW r \in RangeNum, NEW e \in 0 .. entries[r] - 1,
              NEW s \in RangeNum, NEW f \in 0 .. entries[s] - 1, start[r] + e < start[s] + f
       PROVE  /\ key(r, e) < key(s, f)
              /\ \A k \in in(r, e) : k < key(s, f)
  <2>1. /\ start[r] \in Nat /\ entries[r] \in Nat /\ start[r + 1] \in Nat
        /\ start[s] \in Nat /\ entries[s] \in Nat /\ start[s + 1] \in Nat
        /\ start[r] + entries[r] <= start[r + 1] /\ start[s] + entries[s] <= start[s + 1]
    BY <1>23
  <2>2. r = s \/ r < s
    <3>1. s < r => start[s + 1] <= start[r]
      BY <1>4, <1>14
    <3>2. ~ (s < r)
      BY <1>32, <2>1, <3>1
    <3>3. QED
      BY <1>4, <3>2
  <2>3. CASE r = s
    <3>1. e < f
      BY <1>32, <2>1, <2>3
    <3>2. QED
      BY <1>22, <2>3, <3>1
  <2>4. CASE r < s
    <3>1. low(s) <= key(s, f)
      <4>1. key(s, f) \in {low(s)} \union K(s)
        BY <1>22
      <4>2. low(s) \in Nat
        BY <1>17, <1>18
      <4>3. QED
        BY <1>17, <4>1, <4>2
    <3>2. low(s) \in Nat /\ key(s, f) \in Nat /\ key(r, e) \in Nat
      BY <1>17, <1>18, <1>31
    <3>3. \A k \in {low(r)} \union K(r) : k \in Nat /\ k < low(s)
      BY <1>1, <1>17, <1>18, <2>4
    <3>4. key(r, e) \in {low(r)} \union K(r) /\ in(r, e) \subseteq K(r)
      BY <1>22
    <3>5. QED
      BY <3>1, <3>2, <3>3, <3>4
  <2>5. QED
    BY <2>2, <2>3, <2>4
<1>33. new.entryKey \in [0 .. m - 1 -> Key]
  <2>1. 0 \in Key
    BY SearchAssumption DEF Key
  <2>2. ASSUME NEW p \in 0 .. m - 1 PROVE new.entryKey[p] \in Key
    <3>1. CASE p \in Used(new)
      <4>1. PICK r \in RangeNum : \E e \in 0 .. entries[r] - 1 : p = start[r] + e
        BY <1>27, <3>1
      <4>2. PICK e \in 0 .. entries[r] - 1 : p = start[r] + e
        BY <4>1
      <4>3. QED
        BY <1>25, <1>31, <4>2
    <3>2. CASE p \notin Used(new)
      BY <1>29, <2>1, <3>2
    <3>3. QED
      BY <3>1, <3>2
  <2>3. new.entryKey = [p \in 0 .. m - 1 |-> new.entryKey[p]]
    BY <1>5
  <2>4. QED
    BY <2>2, <2>3
(* The logical positions. *)
<1>34. entries \in [RangeNum -> Nat]
  <2>1. entries = [r \in RangeNum |-> entries[r]]
    BY DEF entries
  <2>2. QED
    BY <1>23, <2>1
<1>35. /\ SumBelow(entries, 0) = 0
       /\ \A r \in 0 .. Threads : SumBelow(entries, r) \in Nat
       /\ \A r \in RangeNum : SumBelow(entries, r + 1) = SumBelow(entries, r) + entries[r]
  BY <1>34, SumBelowIs
<1>36. \A r \in 0 .. Threads : SumBelow(entries, r) <= start[r]
  <2> DEFINE G == {r \in 0 .. Threads : SumBelow(entries, r) <= start[r]}
  <2>1. 0 \in G
    BY <1>3, <1>14, <1>35
  <2>2. ASSUME NEW r \in 0 .. Threads - 1, r \in G PROVE r + 1 \in G
    <3>1. r \in RangeNum /\ r \in 0 .. Threads /\ r + 1 \in 0 .. Threads
      BY <1>3 DEF RangeNum
    <3>2. /\ SumBelow(entries, r) \in Nat /\ SumBelow(entries, r) <= start[r]
          /\ SumBelow(entries, r + 1) = SumBelow(entries, r) + entries[r]
      BY <1>35, <2>2, <3>1
    <3>3. start[r] \in Nat /\ entries[r] \in Nat /\ start[r + 1] \in Nat /\ start[r] + entries[r] <= start[r + 1]
      BY <1>23, <3>1
    <3>4. SumBelow(entries, r + 1) <= start[r + 1]
      BY <3>2, <3>3
    <3>5. QED
      BY <3>1, <3>4
  <2> HIDE DEF G
  <2>3. \A r \in 0 .. Threads : r \in G
    BY <1>3, <2>1, <2>2, Induct
  <2>4. QED
    BY <2>3 DEF G
<1>37. Built(new)
  <2>1. \A r \in 0 .. Threads : /\ new.ranges[r].physical \in Nat /\ new.ranges[r].logical \in Nat
                                /\ new.ranges[r].logical <= new.ranges[r].physical
    BY <1>7, <1>14, <1>35, <1>36
  <2>2. ASSUME NEW r \in RangeNum
        PROVE  /\ new.ranges[r].entries \in Nat \ {0}
               /\ new.ranges[r].start = new.entryKey[new.ranges[r].physical]
               /\ new.ranges[r + 1].logical = new.ranges[r].logical + new.ranges[r].entries
               /\ new.ranges[r].physical + new.ranges[r].entries <= m
    <3>1. /\ start[r] \in Nat /\ entries[r] \in Nat \ {0} /\ start[r + 1] \in Nat
          /\ start[r] + entries[r] <= start[r + 1] /\ start[r + 1] <= m
      BY <1>23
    <3>2. 0 \in 0 .. entries[r] - 1 /\ start[r] + 0 = start[r]
      BY <3>1
    <3>3. new.entryKey[start[r]] = low(r)
      BY <1>22, <1>25, <3>2
    <3>4. /\ new.ranges[r].physical = start[r] /\ new.ranges[r].entries = entries[r]
          /\ new.ranges[r].start = low(r)
          /\ new.ranges[r].logical = SumBelow(entries, r)
          /\ new.ranges[r + 1].logical = SumBelow(entries, r + 1)
      BY <1>4, <1>7, <1>8
    <3>5. start[r] + entries[r] <= m
      BY <1>11, <3>1
    <3>6. QED
      BY <1>35, <3>1, <3>3, <3>4, <3>5
  <2>3. ASSUME NEW r \in RangeNum, NEW s \in 0 .. Threads, r < s
        PROVE  new.ranges[r].physical + new.ranges[r].entries <= new.ranges[s].physical
    <3>1. start[r + 1] <= start[s] /\ start[s] \in Nat
      BY <1>4, <1>14, <2>3
    <3>2. start[r] \in Nat /\ entries[r] \in Nat /\ start[r + 1] \in Nat /\ start[r] + entries[r] <= start[r + 1]
      BY <1>23
    <3>3. start[r] + entries[r] <= start[s]
      BY <3>1, <3>2
    <3>4. QED
      BY <1>4, <1>7, <1>8, <3>3
  <2>4. new.ranges[0].physical = 0 /\ new.ranges[0].logical = 0 /\ new.ranges[0].start = 0
    BY <1>3, <1>4, <1>7, <1>8, <1>14, <1>17, <1>35
  <2>5. ASSUME NEW p \in Used(new), NEW q \in Used(new), p < q PROVE new.entryKey[p] < new.entryKey[q]
    <3>1. PICK r \in RangeNum : \E e \in 0 .. entries[r] - 1 : p = start[r] + e
      BY <1>27
    <3>2. PICK e \in 0 .. entries[r] - 1 : p = start[r] + e
      BY <3>1
    <3>3. PICK s \in RangeNum : \E f \in 0 .. entries[s] - 1 : q = start[s] + f
      BY <1>27
    <3>4. PICK f \in 0 .. entries[s] - 1 : q = start[s] + f
      BY <3>3
    <3>5. key(r, e) < key(s, f)
      BY <1>32, <2>5, <3>2, <3>4
    <3>6. QED
      BY <1>25, <3>2, <3>4, <3>5
  <2>6. \A p \in 0 .. m - 1 : p \notin Used(new) => new.entryKey[p] = 0
    BY <1>29
  <2>7. QED
    BY <1>7, <1>11, <1>30, <1>33, <2>1, <2>2, <2>3, <2>4, <2>5, <2>6, BuiltIs
<1>38. Content(new, S)
  <2>1. \A p \in DOMAIN new.held : p \notin Used(new) => new.held[p] = {}
    BY <1>29, <1>30
  <2>2. ASSUME NEW p \in Used(new)
        PROVE  /\ new.held[p] \subseteq S
               /\ \A k \in new.held[p] : /\ new.entryKey[p] <= k
                                         /\ \A q \in Used(new) : p < q => k < new.entryKey[q]
    <3>1. PICK r \in RangeNum : \E e \in 0 .. entries[r] - 1 : p = start[r] + e
      BY <1>27
    <3>2. PICK e \in 0 .. entries[r] - 1 : p = start[r] + e
      BY <3>1
    <3>3. new.held[p] = in(r, e) /\ new.entryKey[p] = key(r, e)
      BY <1>25, <3>2
    <3>4. in(r, e) \subseteq K(r) /\ K(r) \subseteq S /\ \A k \in in(r, e) : key(r, e) <= k
      BY <1>17, <1>22
    <3>5. ASSUME NEW k \in in(r, e), NEW q \in Used(new), p < q PROVE k < new.entryKey[q]
      <4>1. PICK s \in RangeNum : \E f \in 0 .. entries[s] - 1 : q = start[s] + f
        BY <1>27
      <4>2. PICK f \in 0 .. entries[s] - 1 : q = start[s] + f
        BY <4>1
      <4>3. k < key(s, f)
        BY <1>32, <3>2, <3>5, <4>2
      <4>4. QED
        BY <1>25, <4>2, <4>3
    <3>6. QED
      BY <3>3, <3>4, <3>5
  <2>3. ASSUME NEW k \in S PROVE \E p \in Used(new) : k \in new.held[p]
    <3>1. PICK r \in RangeNum : k \in K(r)
      BY <1>17
    <3>2. PICK e \in 0 .. entries[r] - 1 : k \in in(r, e)
      BY <1>22, <3>1
    <3>3. QED
      BY <1>25, <1>28, <3>2
  <2>4. QED
    BY <1>1, <1>37, <2>1, <2>2, <2>3, ContentIs
<1>39. Peopled(new)
  <2>1. ASSUME NEW p \in Used(new) PROVE new.held[p] # {}
    <3>1. PICK r \in RangeNum : \E e \in 0 .. entries[r] - 1 : p = start[r] + e
      BY <1>27
    <3>2. PICK e \in 0 .. entries[r] - 1 : p = start[r] + e
      BY <3>1
    <3>3. QED
      BY <1>22, <1>25, <3>2
  <2>2. QED
    BY <2>1 DEF Peopled
<1>40. Counted(new)
  <2>1. \A r \in RangeNum : new.sizes[r] \in [0 .. Counters(new, r) - 1 -> 0 .. WordSize - 1]
    BY <1>8, <1>9, <1>15, <1>23, IntervalSizesAre DEF Counters
  <2>2. DOMAIN new.sizes = RangeNum
    BY <1>9
  <2>3. QED
    BY <1>9, <1>15, <2>1, <2>2 DEF Counted
<1>41. new.size \in 0 .. WordSize - 1
  <2> DEFINE lengths == [r \in RangeNum |-> Len(keys[r])]
  <2>1. lengths \in [RangeNum -> Nat]
    BY <1>20
  <2> HIDE DEF lengths
  <2>2. SumBelow(lengths, Threads) \in Nat
    BY <1>3, <2>1, SumBelowIs
  <2>3. SumBelow(lengths, Threads) % WordSize \in 0 .. WordSize - 1
    BY <1>2, <2>2, Remainder, Zenon
  <2>4. QED
    BY <1>10, <2>3 DEF lengths
<1>42. QED
  BY <1>37, <1>38, <1>39, <1>40, <1>41 DEF Good, new

-----------------------------------------------------------------------------
(* Puts and Deletes *)

(* A level is a record of its six parts, and nothing else. *)
Shaped(lv) ==
  lv = [entryKey |-> lv.entryKey, held |-> lv.held, ranges |-> lv.ranges,
        interval |-> lv.interval, sizes |-> lv.sizes, size |-> lv.size]

(* The bulk load makes such a record.                                      *)
LEMMA LoadShaped ==
  ASSUME NEW load PROVE Shaped(LoadedLevel(load))
BY Zenon DEF LoadedLevel, Shaped

(* So does an expansion.                                                   *)
LEMMA ExpandShaped ==
  ASSUME NEW lv PROVE Shaped(ExpandedLevel(lv))
BY Zenon DEF ExpandedLevel, Shaped

(* What an entry holds, one counter of intervals and the size are changed. *)
Changed(lv, p, keys, r, j, by) ==
  [entryKey |-> lv.entryKey, held |-> [lv.held EXCEPT ![p] = keys], ranges |-> lv.ranges,
   interval |-> lv.interval,
   sizes    |-> [lv.sizes EXCEPT ![r] = [lv.sizes[r] EXCEPT ![j] = (lv.sizes[r][j] + by) % WordSize]],
   size     |-> (lv.size + by) % WordSize]

(* That is what Put_ and Delete_ make of a level.                          *)
LEMMA CountChanges ==
  ASSUME NEW lv, Shaped(lv), NEW p, NEW keys, NEW r \in DOMAIN lv.sizes, NEW by
  PROVE  /\ Shaped(Count([lv EXCEPT !.held[p] = keys], r, p, by))
         /\ Count([lv EXCEPT !.held[p] = keys], r, p, by) =
              Changed(lv, p, keys, r, (p - lv.ranges[r].physical) \div lv.interval, by)
<1>1. PICK k, h, g, i, s, z : lv = [entryKey |-> k, held |-> h, ranges |-> g, interval |-> i, sizes |-> s, size |-> z]
  BY DEF Shaped
<1> DEFINE mid == [entryKey |-> k, held |-> [h EXCEPT ![p] = keys], ranges |-> g, interval |-> i, sizes |-> s, size |-> z]
<1>2. [lv EXCEPT !.held[p] = keys] = mid
  BY <1>1
<1>3. Count(mid, r, p, by) = Changed(lv, p, keys, r, (p - lv.ranges[r].physical) \div lv.interval, by)
  <2>1. DOMAIN lv.sizes = DOMAIN s /\ r \in DOMAIN s
    BY <1>1
  <2>2. mid.sizes = s /\ mid.size = z /\ mid.ranges = g /\ mid.interval = i
    OBVIOUS
  <2>3. PICK j : j = (p - g[r].physical) \div i
    OBVIOUS
  <2>4. Count(mid, r, p, by) = [mid EXCEPT !.sizes[r][j] = (@ + by) % WordSize, !.size = (@ + by) % WordSize]
    BY <2>2, <2>3 DEF Count
  <2>5. Count(mid, r, p, by) =
          [entryKey |-> k, held |-> [h EXCEPT ![p] = keys], ranges |-> g, interval |-> i,
           sizes |-> [s EXCEPT ![r] = [s[r] EXCEPT ![j] = (s[r][j] + by) % WordSize]],
           size |-> (z + by) % WordSize]
    BY <2>4
  <2>6. QED
    BY <1>1, <2>3, <2>5, Zenon DEF Changed
<1>4. Shaped(Changed(lv, p, keys, r, (p - lv.ranges[r].physical) \div lv.interval, by))
  BY Zenon DEF Changed, Shaped
<1>5. QED
  BY <1>2, <1>3, <1>4

(* The counter of an entry is one of its range's.                          *)
LEMMA CounterOf ==
  ASSUME NEW lv, WellFormed(lv), Counted(lv), NEW r \in RangeNum,
         NEW p \in lv.ranges[r].physical .. LastPhysical(lv.ranges[r])
  PROVE  (p - lv.ranges[r].physical) \div lv.interval \in 0 .. Counters(lv, r) - 1
<1>1. /\ lv.ranges[r].physical \in Nat /\ lv.ranges[r].entries \in Nat
      /\ LastPhysical(lv.ranges[r]) = lv.ranges[r].physical + lv.ranges[r].entries - 1
  BY RangeIs
<1>2. /\ Counters(lv, r) \in Nat /\ lv.interval \in Nat \ {0}
      /\ \A j \in Nat : j < Counters(lv, r) <=> lv.interval * j < lv.ranges[r].entries
  BY CountersAre
<1>2a. p - lv.ranges[r].physical \in Nat /\ p - lv.ranges[r].physical < lv.ranges[r].entries
  <2>1. PICK first, n, last : first = lv.ranges[r].physical /\ n = lv.ranges[r].entries /\ last = LastPhysical(lv.ranges[r])
    OBVIOUS
  <2>2. first \in Nat /\ n \in Nat /\ last = first + n - 1 /\ p \in first .. last
    BY <1>1, <2>1
  <2>3. QED
    BY <2>1, <2>2
<1>3. PICK a \in Nat : a = p - lv.ranges[r].physical /\ a < lv.ranges[r].entries
  BY <1>2a
<1>4. PICK j : j = a \div lv.interval
  OBVIOUS
<1>5. PICK d \in Nat \ {0} : d = lv.interval
  BY <1>2
<1>5a. a = d * (a \div d) + (a % d) /\ a % d \in 0 .. d - 1 /\ a \div d \in Nat
  BY Division
<1>5b. j \in Nat /\ lv.interval * j <= a
  <2>1. j = a \div d
    BY <1>4, <1>5
  <2>2. a = d * j + (a % d) /\ a % d \in 0 .. d - 1 /\ j \in Nat
    BY <1>5a, <2>1
  <2>3. PICK c, rest : c = d * j /\ rest = a % d
    OBVIOUS
  <2>4. c \in Int /\ rest \in Nat
    BY <2>2, <2>3
  <2>5. c <= a
    BY <2>2, <2>3, <2>4
  <2>6. QED
    BY <1>5, <2>2, <2>3, <2>5
<1>6. PICK c : c = lv.interval * j
  OBVIOUS
<1>7. c \in Int
  BY <1>2, <1>5b, <1>6
<1>8. c < lv.ranges[r].entries
  BY <1>1, <1>3, <1>5, <1>5b, <1>6, <1>7
<1>9. j < Counters(lv, r)
  BY <1>2, <1>5b, <1>6, <1>8
<1>10. QED
  BY <1>2, <1>3, <1>4, <1>5b, <1>9

(* Where entries are and which one a key belongs to depends on the entry   *)
(* keys and ranges only.                                                   *)
LEMMA SamePlaces ==
  ASSUME NEW lv, Built(lv), NEW new, new.entryKey = lv.entryKey, new.ranges = lv.ranges,
         DOMAIN new.held = DOMAIN lv.held
  PROVE  Built(new) /\ Used(new) = Used(lv) /\ \A k : Home(new, k) = Home(lv, k)
<1>1. Used(new) = Used(lv)
  BY DEF Used
<1>2. \A k : Home(new, k) = Home(lv, k)
  BY <1>1 DEF Home
<1>3. WellFormed(new)
  BY DEF Built, WellFormed
<1>4. QED
  BY <1>1, <1>2, <1>3 DEF Built

(* A counter stays a word, below 0 too.                                    *)
LEMMA IntRemainder ==
  ASSUME NEW a \in Int, NEW w \in Nat \ {0}
  PROVE  a % w \in 0 .. w - 1
OBVIOUS

(* A level remains one when an entry gets other keys that belong there,    *)
(* whatever is done to the counters.                                       *)
LEMMA ChangeIs ==
  ASSUME NEW lv, NEW S, Good(lv, S), NEW T, T \subseteq Key, NEW key \in Key, NEW keys, keys # {},
         NEW by \in Int, NEW r, r = FindBRangeByKey(lv, key), NEW p, p = Home(lv, key),
         keys = {k \in T : p = Home(lv, k)},
         \A k \in Key : Home(lv, k) # p => (k \in T <=> k \in S)
  PROVE  Good(Changed(lv, p, keys, r, (p - lv.ranges[r].physical) \div lv.interval, by), T)
<1> DEFINE j   == (p - lv.ranges[r].physical) \div lv.interval
           new == Changed(lv, p, keys, r, j, by)
<1>1. /\ Built(lv) /\ Counted(lv) /\ Content(lv, S) /\ Peopled(lv) /\ lv.size \in 0 .. WordSize - 1
      /\ WellFormed(lv) /\ S \subseteq Key
  BY DEF Good, Built, Content
<1>2. WordSize \in Nat \ {0} /\ WordSize \in Nat
  BY GenerationAssumption
<1>3. r \in RangeNum /\ p \in lv.ranges[r].physical .. LastPhysical(lv.ranges[r]) /\ p \in Used(lv)
  BY <1>1, RangeOfKey, HomeInRange
<1>4. j \in 0 .. Counters(lv, r) - 1
  BY <1>1, <1>3, CounterOf
<1> HIDE DEF j
<1>5. /\ new.entryKey = lv.entryKey /\ new.ranges = lv.ranges /\ new.interval = lv.interval
      /\ new.held = [lv.held EXCEPT ![p] = keys]
      /\ new.size = (lv.size + by) % WordSize
      /\ new.sizes = [lv.sizes EXCEPT ![r] = [lv.sizes[r] EXCEPT ![j] = (lv.sizes[r][j] + by) % WordSize]]
  BY Zenon DEF Changed
<1> HIDE DEF new
<1>6. Built(new) /\ Used(new) = Used(lv) /\ \A k : Home(new, k) = Home(lv, k)
  <2>1. DOMAIN new.held = DOMAIN lv.held
    BY <1>5
  <2>2. QED
    BY <1>1, <1>5, <2>1, SamePlaces
<1>7. p \in DOMAIN lv.held /\ DOMAIN new.held = DOMAIN lv.held
      /\ \A q \in DOMAIN lv.held : new.held[q] = IF q = p THEN keys ELSE lv.held[q]
  <2>1. p \in DOMAIN lv.held
    BY <1>1, <1>3, UsedIs DEF Built
  <2>2. QED
    BY <1>5, <2>1
<1>8. Content(new, T)
  <2>1. ASSUME NEW q \in DOMAIN new.held PROVE new.held[q] = {k \in T : q = Home(lv, k)}
    <3>1. CASE q = p
      BY <1>7, <3>1
    <3>2. CASE q # p
      <4>1. new.held[q] = {k \in S : q = Home(lv, k)}
        BY <1>1, <1>7, <3>2 DEF Content
      <4>2. \A k \in Key : q = Home(lv, k) => (k \in T <=> k \in S)
        BY <3>2
      <4>3. QED
        BY <1>1, <4>1, <4>2
    <3>3. QED
      BY <3>1, <3>2
  <2>2. QED
    BY <1>6, <2>1 DEF Content
<1>9. Peopled(new)
  <2>1. \A q \in Used(lv) : q \in DOMAIN lv.held
    BY <1>1, UsedIs DEF Built
  <2>2. QED
    BY <1>1, <1>6, <1>7, <2>1 DEF Peopled
<1>10. Counted(new)
  <2>1. lv.interval \in Nat \ {0} /\ DOMAIN lv.sizes = RangeNum
        /\ \A s \in RangeNum : lv.sizes[s] \in [0 .. Counters(lv, s) - 1 -> 0 .. WordSize - 1]
    BY <1>1 DEF Counted
  <2>2. \A s : Counters(new, s) = Counters(lv, s)
    BY <1>5 DEF Counters
  <2>3. PICK x : x = (lv.sizes[r][j] + by) % WordSize
    OBVIOUS
  <2>4. x \in 0 .. WordSize - 1
    <3>1. lv.sizes[r][j] \in 0 .. WordSize - 1
      BY <1>3, <1>4, <2>1
    <3>2. PICK a : a = lv.sizes[r][j] + by
      OBVIOUS
    <3>3. a \in Int
      BY <1>2, <3>1, <3>2
    <3>4. QED
      BY <1>2, <2>3, <3>2, <3>3, IntRemainder, Zenon
  <2>5. new.sizes = [lv.sizes EXCEPT ![r] = [lv.sizes[r] EXCEPT ![j] = x]]
    BY <1>5, <2>3
  <2>6. \A s \in RangeNum : new.sizes[s] = IF s = r THEN [lv.sizes[r] EXCEPT ![j] = x] ELSE lv.sizes[s]
    BY <2>1, <2>5
  <2>7. DOMAIN new.sizes = RangeNum
    BY <2>1, <2>5
  <2>8. [lv.sizes[r] EXCEPT ![j] = x] \in [0 .. Counters(lv, r) - 1 -> 0 .. WordSize - 1]
    BY <1>3, <2>1, <2>4
  <2>9. \A s \in RangeNum : new.sizes[s] \in [0 .. Counters(lv, s) - 1 -> 0 .. WordSize - 1]
    BY <2>1, <2>6, <2>8
  <2>10. QED
    BY <1>5, <2>1, <2>2, <2>7, <2>9 DEF Counted
<1>11. new.size \in 0 .. WordSize - 1
  <2>1. PICK a : a = lv.size + by
    OBVIOUS
  <2>2. a \in Int
    BY <1>1, <1>2, <2>1
  <2>3. QED
    BY <1>2, <1>5, <2>1, <2>2, IntRemainder, Zenon
<1>12. QED
  BY <1>6, <1>8, <1>9, <1>10, <1>11 DEF Good, new, j

(* One key more or less in its entry. *)
LEMMA CountIs ==
  ASSUME NEW lv, NEW S, Good(lv, S), Shaped(lv), NEW T, T \subseteq Key, NEW key \in Key,
         NEW keys, keys # {}, NEW by \in Int,
         keys = {k \in T : Home(lv, key) = Home(lv, k)},
         \A k \in Key : Home(lv, k) # Home(lv, key) => (k \in T <=> k \in S)
  PROVE  LET new == Count([lv EXCEPT !.held[Home(lv, key)] = keys],
                          FindBRangeByKey(lv, key), Home(lv, key), by)
         IN Good(new, T) /\ Shaped(new)
<1>1. PICK r, p : r = FindBRangeByKey(lv, key) /\ p = Home(lv, key)
  OBVIOUS
<1>2. r \in DOMAIN lv.sizes
  BY <1>1, RangeOfKey DEF Good, Built, Counted
<1>3. PICK j : j = (p - lv.ranges[r].physical) \div lv.interval
  OBVIOUS
<1>4. Good(Changed(lv, p, keys, r, j, by), T)
  BY <1>1, <1>3, ChangeIs, Zenon
<1>5. /\ Shaped(Count([lv EXCEPT !.held[p] = keys], r, p, by))
      /\ Count([lv EXCEPT !.held[p] = keys], r, p, by) = Changed(lv, p, keys, r, j, by)
  BY <1>2, <1>3, CountChanges, Zenon
<1>6. Good(Count([lv EXCEPT !.held[p] = keys], r, p, by), T)
  BY <1>4, <1>5, Zenon
<1>7. QED
  BY <1>1, <1>5, <1>6, Zenon

-----------------------------------------------------------------------------
(* The specification *)

(***************************************************************************)
(* The inductive invariant.  Whether an expansion was aborted matters to   *)
(* the guards only.                                                        *)
(***************************************************************************)
Inv ==
  /\ Good(level, stored)
  /\ Shaped(level)
  /\ aborted \in BOOLEAN

(* The bulk load builds such a level. *)
LEMMA InvInit == Init => Inv
<1> SUFFICES ASSUME Init PROVE Inv
  OBVIOUS
<1>1. PICK load \in Loads : level = LoadedLevel(load) /\ stored = load
  BY DEF Init
<1>2. Good(level, stored)
  BY <1>1, LoadIs, Zenon
<1>3. Shaped(level)
  BY <1>1, LoadShaped, Zenon
<1>4. QED
  BY <1>2, <1>3 DEF Init, Inv

(* Put_ adds the key to the entry that FindNearPos_ ends at, and counts it *)
(* in that entry's interval.                                               *)
LEMMA InvPut ==
  ASSUME Inv, NEW key \in Key, Put(key)
  PROVE  Inv'
<1>1. Good(level, stored) /\ Shaped(level) /\ Built(level) /\ Counted(level) /\ Content(level, stored)
      /\ WellFormed(level) /\ stored \subseteq Key
  BY DEF Inv, Good, Content, Built
<1> DEFINE r == FindBRangeByKey(level, key)
           p == Home(level, key)
           held == level.held[p] \union {key}
           T == stored \union {key}
<1>2. PICK pos \in NearPositions(level, key) :
        level' = Count([level EXCEPT !.held[FindNearPos(level, key, pos)] = @ \union {key}],
                       r, FindNearPos(level, key, pos), 1)
  BY DEF Put
<1>3. FindNearPos(level, key, pos) = p
  BY <1>1, LearnedAnswers
<1>4. level' = Count([level EXCEPT !.held[p] = held], r, p, 1)
  BY <1>2, <1>3
<1>5. r \in RangeNum /\ p \in Used(level) /\ DOMAIN level.sizes = RangeNum /\ p \in DOMAIN level.held
  BY <1>1, RangeOfKey, HomeInRange, UsedIs DEF Counted, Built
<1>6. held = {k \in T : p = Home(level, k)}
  BY <1>1, <1>5 DEF Content
<1>7. \A k \in Key : Home(level, k) # p => (k \in T <=> k \in stored)
  OBVIOUS
<1>8. held # {} /\ T \subseteq Key
  BY <1>1
<1>9. /\ stored' = T /\ aborted' = aborted
  BY DEF Put
<1> HIDE DEF T, held
<1>10. PICK by \in Int : by = 1
  OBVIOUS
<1>11. Good(level', T) /\ Shaped(level')
  <2>1. LET new == Count([level EXCEPT !.held[Home(level, key)] = held],
                         FindBRangeByKey(level, key), Home(level, key), by)
        IN Good(new, T) /\ Shaped(new)
    BY <1>1, <1>6, <1>7, <1>8, CountIs, Zenon
  <2>2. QED
    BY <1>4, <1>10, <2>1, Zenon
<1>12. QED
  BY <1>9, <1>11 DEF Inv

(* Delete_ takes the key out of the entry that Find_ ends at; the entry    *)
(* keeps another key.                                                      *)
LEMMA InvDelete ==
  ASSUME Inv, NEW key \in Key, Delete(key)
  PROVE  Inv'
<1>1. Good(level, stored) /\ Shaped(level) /\ Built(level) /\ Counted(level) /\ Content(level, stored)
      /\ WellFormed(level) /\ stored \subseteq Key /\ Peopled(level)
  BY DEF Inv, Good, Content, Built
<1> DEFINE r == FindBRangeByKey(level, key)
           p == Home(level, key)
           held == level.held[p] \ {key}
           T == stored \ {key}
           at(b) == Find(level, key, b[1], b[2])
<1>2. PICK b \in LearnBrackets(level, key) :
        /\ level.held[at(b)] # {key}
        /\ level' = Count([level EXCEPT !.held[at(b)] = @ \ {key}], r, at(b), -1)
  BY DEF Delete
<1>3. at(b) = p
  BY <1>1, LearnedAnswers
<1>4. level.held[p] # {key} /\ level' = Count([level EXCEPT !.held[p] = held], r, p, -1)
  BY <1>2, <1>3
<1>5. r \in RangeNum /\ p \in Used(level) /\ DOMAIN level.sizes = RangeNum /\ p \in DOMAIN level.held
  BY <1>1, RangeOfKey, HomeInRange, UsedIs DEF Counted, Built
<1>6. held = {k \in T : p = Home(level, k)}
  BY <1>1, <1>5 DEF Content
<1>7. \A k \in Key : Home(level, k) # p => (k \in T <=> k \in stored)
  OBVIOUS
<1>8. held # {} /\ T \subseteq Key
  BY <1>1, <1>4, <1>5 DEF Peopled
<1>9. /\ stored' = T /\ aborted' = aborted
  BY DEF Delete
<1> HIDE DEF T, held
<1>10. PICK by \in Int : by = -1
  OBVIOUS
<1>11. Good(level', T) /\ Shaped(level')
  <2>1. LET new == Count([level EXCEPT !.held[Home(level, key)] = held],
                         FindBRangeByKey(level, key), Home(level, key), by)
        IN Good(new, T) /\ Shaped(new)
    BY <1>1, <1>6, <1>7, <1>8, CountIs, Zenon
  <2>2. QED
    BY <1>4, <1>10, <2>1, Zenon
<1>12. QED
  BY <1>9, <1>11 DEF Inv

(* The expanders build the next level of the same keys. *)
LEMMA InvExpand ==
  ASSUME Inv, Countable(level), Expand
  PROVE  Inv'
<1>1. Good(level, stored) /\ Countable(level) /\ RangesAllCut(level)
      /\ level.size >= ExpansionFactor * BufKey * Entries(level)
  BY DEF Inv, Expand, Due
<1>2. level' = ExpandedLevel(level) /\ stored' = stored /\ aborted' = aborted
  BY DEF Expand
<1>3. Good(ExpandedLevel(level), stored)
  BY <1>1, ExpandIs, Zenon
<1>4. Shaped(ExpandedLevel(level))
  BY ExpandShaped, Zenon
<1>5. QED
  BY <1>2, <1>3, <1>4 DEF Inv

(* Every step, as long as the first counter is not what 0 minus one leaves *)
(* when an expansion divides the level.                                    *)
LEMMA InvNext ==
  ASSUME Inv, Countable(level), [Next]_vars
  PROVE  Inv'
<1>1. CASE \E key \in Key : Put(key)
  BY <1>1, InvPut
<1>2. CASE \E key \in Victims : Delete(key)
  <2>1. PICK key \in Victims : Delete(key)
    BY <1>2
  <2>2. QED
    BY <2>1, InvDelete, GenerationAssumption
<1>3. CASE Expand
  BY <1>3, InvExpand
<1>4. CASE Abort
  BY <1>4 DEF Abort, Inv
<1>5. CASE UNCHANGED vars
  BY <1>5 DEF vars, Inv
<1>6. QED
  BY <1>1, <1>2, <1>3, <1>4, <1>5 DEF Next

(* Levels are what every search, iterator and expander relies on, from the *)
(* bulk load through Puts, Deletes and expansions.  The hypothesis: the    *)
(* counter of the first interval is never the one that deleting an absent  *)
(* key from a counter of 0 leaves; PrepareExpansion would begin its first  *)
(* share at the second interval.                                           *)
THEOREM Invariance == Spec /\ []Countable(level) => []Inv
<1>1. Inv /\ Countable(level) /\ [Next]_vars => Inv'
  BY InvNext
<1>2. QED
  BY InvInit, <1>1, PTL DEF Spec

(* Levels have the shape of TypeOK, whatever was put, deleted and          *)
(* expanded: ranges follow one another, and entry keys ascend in each.     *)
THEOREM TypeCorrect == Spec /\ []Countable(level) => []TypeOK
<1>1. Inv => TypeOK
  <2> SUFFICES ASSUME Inv PROVE TypeOK
    OBVIOUS
  <2>1. Built(level) /\ Content(level, stored) /\ level.size \in 0 .. WordSize - 1 /\ aborted \in BOOLEAN
    BY DEF Inv, Good
  <2>2. \A p \in DOMAIN level.held : level.held[p] \subseteq Key
    BY <2>1 DEF Content
  <2>3. QED
    BY <2>1, <2>2 DEF Built, Content, TypeOK
<1>2. QED
  BY <1>1, Invariance, PTL

(* FindNearPos_ of a Put and Find_ of a Get or Delete end at the same      *)
(* entry, from every prediction of Learn_Index, and that entry holds the   *)
(* key if the tree has it.                                                 *)
THEOREM SearchesAgreeAlways == Spec /\ []Countable(level) => []SearchesAgree
<1>1. Inv => SearchesAgree
  <2> SUFFICES ASSUME Inv PROVE SearchesAgree
    OBVIOUS
  <2>1. Built(level) /\ Content(level, stored)
    BY DEF Inv, Good
  <2>2. ASSUME NEW key \in Key
        PROVE  /\ \A pos \in NearPositions(level, key) : FindNearPos(level, key, pos) = Home(level, key)
               /\ \A b \in LearnBrackets(level, key) : Find(level, key, b[1], b[2]) = Home(level, key)
    BY <2>1, LearnedAnswers
  <2>3. QED
    BY <2>1, <2>2 DEF Content, SearchesAgree
<1>2. QED
  BY <1>1, Invariance, PTL

(* Find_ ends there too from the brackets of ALevel and from those that    *)
(* RMI_Index widens, whatever its model predicts.                          *)
THEOREM BracketsHoldAlways == Spec /\ []Countable(level) => []BracketsHold
<1>1. Inv => BracketsHold
  <2> SUFFICES ASSUME Inv PROVE BracketsHold
    OBVIOUS
  <2>1. Built(level)
    BY DEF Inv, Good
  <2>2. QED
    BY <2>1, BracketAnswers, Zenon DEF BracketsHold
<1>2. QED
  BY <1>1, Invariance, PTL

(* Iterators give out exactly the stored keys in order, from the start and *)
(* from any key.                                                           *)
THEOREM IterationInOrderAlways == Spec /\ []Countable(level) => []IterationInOrder
<1>1. Inv => IterationInOrder
  <2> SUFFICES ASSUME Inv PROVE IterationInOrder
    OBVIOUS
  <2>1. Built(level) /\ Content(level, stored)
    BY DEF Inv, Good
  <2>2. QED
    BY <2>1, IteratorsAre, Zenon DEF IterationInOrder
<1>2. QED
  BY <1>1, Invariance, PTL

(* ExpandRange_'s threads share the old entries out among them: each has   *)
(* exactly one mover, no thread is without an entry, and the shares lie in *)
(* the order of the start keys.                                            *)
THEOREM SharesPartitionAlways == Spec /\ []Countable(level) => []SharesPartition
<1>1. Inv /\ Countable(level) => SharesPartition
  <2> SUFFICES ASSUME Inv, Countable(level), RangesAllCut(level)
               PROVE  /\ UNION {OldEntries(level, r) : r \in RangeNum} = Used(level)
                      /\ \A r \in RangeNum :
                           /\ OldEntries(level, r) # {}
                           /\ r + 1 \in RangeNum =>
                                Max(OldEntries(level, r)) < Min(OldEntries(level, r + 1))
    BY DEF SharesPartition
  <2>1. Built(level) /\ Counted(level)
    BY DEF Inv, Good
  <2>2. QED
    BY <2>1, SharesPart, Zenon
<1>2. QED
  BY <1>1, Invariance, PTL
=================================================================================
