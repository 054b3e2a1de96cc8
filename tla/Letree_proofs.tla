---------------------------- MODULE Letree_proofs ----------------------------
(***************************************************************************)
(* Theorems about Letree for every number of keys, every capacity and      *)
(* every bulk load: through splits, group expansions and tree expansions   *)
(* each key is found from every prediction, what the groups say of their   *)
(* entries is true, an iterator yields the keys in order, and a Put        *)
(* expands at most once.                                                   *)
(*                                                                         *)
(* The order of the module: sequences that list a finite set; trees and    *)
(* the places of their pointers; the searches; the tree that is sound and  *)
(* the place that a key belongs to; what a Put, a Delete and the two       *)
(* expansions make of it; what bulk_load makes; the inductive invariant    *)
(* and its preservation; the theorems.                                     *)
(*                                                                         *)
(* The theorems assume that a prediction stays in the range of int         *)
(* (~ MayOverflow).  Nothing in the code sees to that; while it lasts the  *)
(* root model does not descend, and without it the tree does lose keys.    *)
(* They say nothing of a tree that Deletes have made dirty: once a Put has *)
(* met a hole of a greater key, or AdjustEntryKey a hole in slot 0.  With  *)
(* holes that did neither they hold.                                       *)
(***************************************************************************)
EXTENDS Letree, TLAPS, FiniteSetTheorems, SequenceTheorems
-----------------------------------------------------------------------------
(* Least and greatest members, and the sequence that lists a finite set *)

(* Least and greatest members. *)
LEMMA Least ==
  ASSUME NEW T \in SUBSET Nat, T # {}
  PROVE  \E n \in T : \A m \in T : n <= m
<1> DEFINE lt == OpToRel(<, Nat)
<1>1. IsWellFoundedOn(lt, Nat)
  BY NatLessThanWellFounded, Zenon
<1>2. \E n \in T : \A m \in T : ~ (<<m, n>> \in lt)
  <2> HIDE DEF lt
  <2>1. QED
    BY <1>1, WFMin
<1>3. PICK n \in T : \A m \in T : ~ (<<m, n>> \in lt)
  BY <1>2
<1>4. ASSUME NEW m \in T PROVE n <= m
  <2>1. m \in Nat /\ n \in Nat
    OBVIOUS
  <2>2. CASE m < n
    <3>1. <<m, n>> \in lt
      BY <2>1, <2>2 DEF OpToRel
    <3>2. QED
      BY <3>1, <1>3
  <2>3. CASE ~ m < n
    BY <2>1, <2>3
  <2>4. QED
    BY <2>2, <2>3
<1>5. QED
  BY <1>4

(* The operator Min on a set of integers with a lower bound: FiniteSetsExt *)
(* defines it by a choice.                                                 *)
LEMMA MinProperty ==
  ASSUME NEW S \in SUBSET Int, S # {}, NEW lo \in Int, \A x \in S : lo <= x
  PROVE  Min(S) \in S /\ \A y \in S : Min(S) <= y
<1> DEFINE T == {x - lo : x \in S}
<1>1. T \subseteq Nat /\ T # {}
  <2>1. \A x \in S : x - lo \in Nat
    <3>1. ASSUME NEW x \in S PROVE x - lo \in Nat
      <4>1. x \in Int /\ lo <= x
        OBVIOUS
      <4>2. QED
        BY <4>1
    <3>2. QED
      BY <3>1
  <2>2. QED
    BY <2>1, Zenon
<1>2. \E n \in T : \A m \in T : n <= m
  <2> HIDE DEF T
  <2>1. QED
    BY <1>1, Least
<1>3. PICK x \in S : \A m \in T : x - lo <= m
  BY <1>2
<1>4. ASSUME NEW y \in S PROVE x <= y
  <2>1. x - lo <= y - lo
    BY <1>3
  <2>2. x \in Int /\ y \in Int
    OBVIOUS
  <2>3. QED
    BY <2>1, <2>2
<1>5. QED
  BY <1>4 DEF Min

(* Max, likewise, under an upper bound. *)
LEMMA MaxProperty ==
  ASSUME NEW S \in SUBSET Int, S # {}, NEW hi \in Int, \A x \in S : x <= hi
  PROVE  Max(S) \in S /\ \A y \in S : y <= Max(S)
<1> DEFINE T == {hi - x : x \in S}
<1>1. T \subseteq Nat /\ T # {}
  <2>1. \A x \in S : hi - x \in Nat
    <3>1. ASSUME NEW x \in S PROVE hi - x \in Nat
      <4>1. x \in Int /\ x <= hi
        OBVIOUS
      <4>2. QED
        BY <4>1
    <3>2. QED
      BY <3>1
  <2>2. QED
    BY <2>1, Zenon
<1>2. \E n \in T : \A m \in T : n <= m
  <2> HIDE DEF T
  <2>1. QED
    BY <1>1, Least
<1>3. PICK x \in S : \A m \in T : hi - x <= m
  BY <1>2
<1>4. ASSUME NEW y \in S PROVE y <= x
  <2>1. hi - x <= hi - y
    BY <1>3
  <2>2. x \in Int /\ y \in Int
    OBVIOUS
  <2>3. QED
    BY <2>1, <2>2
<1>5. QED
  BY <1>4 DEF Max

(* A member that no other is below is the least one. *)
LEMMA MinIs ==
  ASSUME NEW S \in SUBSET Int, NEW x \in S, \A y \in S : x <= y
  PROVE  Min(S) = x
<1>1. Min(S) \in S /\ \A y \in S : Min(S) <= y
  BY DEF Min
<1>2. Min(S) \in Int /\ x \in Int /\ Min(S) <= x /\ x <= Min(S)
  BY <1>1
<1>3. QED
  BY <1>2

(* A member that no other is above is the greatest one. *)
LEMMA MaxIs ==
  ASSUME NEW S \in SUBSET Int, NEW x \in S, \A y \in S : y <= x
  PROVE  Max(S) = x
<1>1. Max(S) \in S /\ \A y \in S : y <= Max(S)
  BY DEF Max
<1>2. Max(S) \in Int /\ x \in Int /\ Max(S) <= x /\ x <= Max(S)
  BY <1>1
<1>3. QED
  BY <1>2

(* An order of a set, as a set of pairs: irreflexive, transitive and       *)
(* total.                                                                  *)
Orders(before, S) ==
  /\ \A x \in S : <<x, x>> \notin before
  /\ \A x, y, z \in S : <<x, y>> \in before /\ <<y, z>> \in before => <<x, z>> \in before
  /\ \A x, y \in S : x = y \/ <<x, y>> \in before \/ <<y, x>> \in before

(* s lists S in the order of before. *)
Lists(s, S, before) ==
  /\ DOMAIN s = 1 .. Cardinality(S)
  /\ \A n \in DOMAIN s : s[n] \in S
  /\ \A m, n \in DOMAIN s : m < n => <<s[m], s[n]>> \in before
  /\ \A x \in S : \E n \in DOMAIN s : s[n] = x

(* Listed puts any finite set in any order: the number of members before   *)
(* one is its place. This stands for the loops of EntryIter and Iter over  *)
(* what they visit.                                                        *)
LEMMA Listing ==
  ASSUME NEW S, IsFiniteSet(S), NEW before, Orders(before, S)
  PROVE  Cardinality(S) \in Nat /\ Lists(Listed(S, before), S, before)
<1> DEFINE Below(x) == {y \in S : <<y, x>> \in before}
           N == Cardinality(S)
           c == [x \in S |-> Cardinality(Below(x))]
           f == [x \in S |-> c[x] + 1]
           s == Listed(S, before)
<1>1. N \in Nat
  BY FS_CardinalityType
<1>2. \A x \in S : IsFiniteSet(Below(x)) /\ c[x] = Cardinality(Below(x)) /\ c[x] \in 0 .. N - 1
  <2> SUFFICES ASSUME NEW x \in S
               PROVE  IsFiniteSet(Below(x)) /\ Cardinality(Below(x)) \in 0 .. N - 1
    OBVIOUS
  <2>1. Below(x) \in SUBSET (S \ {x})
    BY DEF Orders
  <2>2. IsFiniteSet(S \ {x}) /\ Cardinality(S \ {x}) = N - 1
    BY FS_RemoveElement
  <2>3. IsFiniteSet(Below(x)) /\ Cardinality(Below(x)) <= N - 1
    <3> HIDE DEF Below
    <3>1. QED
      BY <2>1, <2>2, FS_Subset
  <2>4. Cardinality(Below(x)) \in Nat
    <3> HIDE DEF Below
    <3>1. QED
      BY <2>3, FS_CardinalityType
  <2>5. QED
    BY <1>1, <2>3, <2>4
<1>3. \A x, y \in S : <<x, y>> \in before => c[x] < c[y]
  <2> SUFFICES ASSUME NEW x \in S, NEW y \in S, <<x, y>> \in before PROVE c[x] < c[y]
    OBVIOUS
  <2>1. Below(x) \in SUBSET Below(y)
    BY DEF Orders
  <2>2. x \in Below(y) /\ x \notin Below(x)
    BY DEF Orders
  <2> HIDE DEF Below, c
  <2>3. IsFiniteSet(Below(y)) /\ c[x] \in Nat /\ c[y] \in Nat
        /\ c[x] = Cardinality(Below(x)) /\ c[y] = Cardinality(Below(y))
    BY <1>1, <1>2
  <2>4. c[x] <= c[y] /\ (c[y] = c[x] => Below(y) = Below(x))
    BY <2>1, <2>3, FS_Subset
  <2>5. QED
    BY <2>2, <2>3, <2>4
<1>4. \A n \in 1 .. N : s[n] = CHOOSE x \in S : c[x] = n - 1
  <2>1. \A n \in 1 .. N : s[n] = CHOOSE x \in S : Cardinality(Below(x)) = n - 1
    BY DEF Listed
  <2> HIDE DEF s
  <2>2. ASSUME NEW n \in 1 .. N
        PROVE  (CHOOSE x \in S : Cardinality(Below(x)) = n - 1) = CHOOSE x \in S : c[x] = n - 1
    OBVIOUS
  <2>3. QED
    BY <2>1, <2>2
<1>5. DOMAIN s = 1 .. N
  BY DEF Listed
<1> HIDE DEF Below, c, s
<1>6. \A x, y \in S : c[x] = c[y] => x = y
  <2> SUFFICES ASSUME NEW x \in S, NEW y \in S, c[x] = c[y] PROVE x = y
    OBVIOUS
  <2>1. c[x] \in Int /\ c[y] \in Int
    BY <1>1, <1>2
  <2>2. ~ (<<x, y>> \in before) /\ ~ (<<y, x>> \in before)
    BY <1>3, <2>1
  <2>3. QED
    BY <2>2 DEF Orders
<1>7. f \in [S -> 1 .. N]
  <2>1. ASSUME NEW x \in S PROVE c[x] + 1 \in 1 .. N
    <3>1. c[x] \in 0 .. N - 1
      BY <1>2
    <3>2. QED
      BY <1>1, <3>1
  <2>2. QED
    BY <2>1
<1>8. f \in Injection(S, 1 .. N)
  <2>1. ASSUME NEW x \in S, NEW y \in S, f[x] = f[y] PROVE x = y
    <3>1. c[x] \in Int /\ c[y] \in Int
      BY <1>1, <1>2
    <3>2. c[x] = c[y]
      BY <2>1, <3>1
    <3>3. QED
      BY <1>6, <3>2
  <2> HIDE DEF f
  <2>2. QED
    BY <1>7, <2>1 DEF Injection, IsInjective
<1>9. f \in Surjection(S, 1 .. N)
  <2>1. IsFiniteSet(1 .. N) /\ Cardinality(1 .. N) = N
    BY <1>1, FS_Interval
  <2> HIDE DEF f
  <2>2. QED
    BY <1>8, <2>1, FS_Injection
<1>10. \A n \in 1 .. N : s[n] \in S /\ c[s[n]] = n - 1
  <2> SUFFICES ASSUME NEW n \in 1 .. N PROVE s[n] \in S /\ c[s[n]] = n - 1
    OBVIOUS
  <2>1. PICK x \in S : f[x] = n
    <3> HIDE DEF f
    <3>1. QED
      BY <1>9 DEF Surjection
  <2>2. c[x] \in Int /\ n \in Int
    BY <1>1, <1>2
  <2>3. c[x] = n - 1
    BY <2>1, <2>2
  <2>4. QED
    BY <1>4, <2>3
<1>11. \A m, n \in 1 .. N : m < n => <<s[m], s[n]>> \in before
  <2> SUFFICES ASSUME NEW m \in 1 .. N, NEW n \in 1 .. N, m < n PROVE <<s[m], s[n]>> \in before
    OBVIOUS
  <2>1. s[m] \in S /\ s[n] \in S /\ c[s[m]] = m - 1 /\ c[s[n]] = n - 1
    BY <1>10
  <2>2. m \in Int /\ n \in Int
    BY <1>1
  <2>3. c[s[m]] < c[s[n]]
    BY <2>1, <2>2
  <2>4. s[m] # s[n] /\ ~ (<<s[n], s[m]>> \in before)
    BY <1>3, <2>1, <2>2
  <2>5. QED
    BY <2>1, <2>4 DEF Orders
<1>12. \A x \in S : \E n \in 1 .. N : s[n] = x
  <2> SUFFICES ASSUME NEW x \in S PROVE \E n \in 1 .. N : s[n] = x
    OBVIOUS
  <2>1. f[x] \in 1 .. N /\ f[x] = c[x] + 1 /\ c[x] \in Int
    BY <1>1, <1>2, <1>7
  <2> HIDE DEF f
  <2>2. c[s[f[x]]] = c[x] /\ s[f[x]] \in S
    BY <1>10, <2>1
  <2>3. s[f[x]] = x
    BY <1>6, <2>2
  <2>4. QED
    BY <2>1, <2>3
<1> HIDE DEF f
<1>13. Lists(s, S, before)
  BY <1>1, <1>5, <1>10, <1>11, <1>12 DEF Lists
<1>14. QED
  BY <1>1, <1>13 DEF s

(* The place of a member is told by the number of members before it. *)
LEMMA ListingPlace ==
  ASSUME NEW S, IsFiniteSet(S), NEW before, Orders(before, S), NEW n \in 1 .. Cardinality(S)
  PROVE  Cardinality({y \in S : <<y, Listed(S, before)[n]>> \in before}) = n - 1
<1> DEFINE s == Listed(S, before)
           D == {y \in S : <<y, s[n]>> \in before}
<1>1. Cardinality(S) \in Nat /\ Lists(s, S, before)
  BY Listing
<1>2. n \in Nat /\ n - 1 \in Nat
  BY <1>1
<1> DEFINE g == [m \in 1 .. n - 1 |-> s[m]]
<1>3. \A m \in 1 .. n - 1 : m \in DOMAIN s /\ m < n
  BY <1>1 DEF Lists
<1>4. g \in [1 .. n - 1 -> D]
  <2>1. ASSUME NEW m \in 1 .. n - 1 PROVE s[m] \in S /\ <<s[m], s[n]>> \in before
    BY <1>1, <1>3 DEF Lists
  <2> HIDE DEF s
  <2>2. QED
    BY <2>1
<1>5. ASSUME NEW y \in D PROVE \E m \in 1 .. n - 1 : g[m] = y
  <2>1. PICK m \in DOMAIN s : s[m] = y
    BY <1>1 DEF Lists
  <2>2. m \in Nat /\ m >= 1 /\ n \in DOMAIN s
    BY <1>1 DEF Lists
  <2>3. ~ n < m
    <3>1. SUFFICES ASSUME n < m PROVE FALSE
      OBVIOUS
    <3>2. <<s[n], s[m]>> \in before /\ <<s[m], s[n]>> \in before /\ s[n] \in S /\ s[m] \in S
      BY <1>1, <2>1, <2>2, <3>1 DEF Lists
    <3> HIDE DEF s
    <3>3. QED
      BY <3>2 DEF Orders
  <2>4. m # n
    <3>1. y \in S /\ <<y, s[n]>> \in before
      OBVIOUS
    <3> HIDE DEF s
    <3>2. QED
      BY <2>1, <3>1 DEF Orders
  <2>5. m \in 1 .. n - 1
    BY <1>2, <2>2, <2>3, <2>4
  <2>6. QED
    BY <2>1, <2>5
<1>6. ASSUME NEW a \in 1 .. n - 1, NEW b \in 1 .. n - 1, g[a] = g[b] PROVE a = b
  <2>1. a \in DOMAIN s /\ b \in DOMAIN s /\ a \in Int /\ b \in Int
    BY <1>2, <1>3
  <2>2. s[a] = s[b] /\ s[a] \in S
    BY <1>1, <1>6, <2>1 DEF Lists
  <2>3. ~ a < b /\ ~ b < a
    <3>1. (a < b => <<s[a], s[b]>> \in before) /\ (b < a => <<s[b], s[a]>> \in before)
      BY <1>1, <2>1 DEF Lists
    <3> HIDE DEF s
    <3>2. QED
      BY <2>2, <3>1 DEF Orders
  <2>4. QED
    BY <2>1, <2>3
<1>7. g \in Bijection(1 .. n - 1, D)
  <2> HIDE DEF g, D
  <2>1. QED
    BY <1>4, <1>5, <1>6 DEF Bijection, Injection, Surjection, IsInjective
<1>8. Cardinality(D) = n - 1
  <2> HIDE DEF g, D
  <2>1. ExistsBijection(1 .. n - 1, D)
    BY <1>7 DEF ExistsBijection
  <2>2. QED
    BY <1>2, <2>1, FS_CountingElements
<1>9. QED
  BY <1>8

-----------------------------------------------------------------------------
(* Trees, and the places of their pointers *)

(* Trees: sequences of groups, and the places of their pointers. *)
Buckets == {ks \in SUBSET Keys : Cardinality(ks) <= MaxEntries}
Pointer == {x \in [key : 0 .. MaxKey, keys : SUBSET Keys, holes : SUBSET Keys,
                   prefix : {0, InitPrefix}] :
              Cardinality(x.keys) + Cardinality(x.holes) <= MaxEntries}
Bents == {b \in Seq(Pointer) : Len(b) \in 1 .. EntryCount}
Group == [bents : Seq(Bents), next_entry_count : Nat, min_key : 0 .. MaxKey]
Tree == Seq(Group)

(* The order of the places. *)
Before(P, Q) ==
  \/ P[1] < Q[1]
  \/ P[1] = Q[1] /\ P[2] < Q[2]
  \/ P[1] = Q[1] /\ P[2] = Q[2] /\ P[3] < Q[3]

Key(gs, P) == PointerAt(gs, P).key
KeysAt(gs, P) == PointerAt(gs, P).keys

(* The numbers among the constants. *)
LEMMA Constants ==
  /\ MaxKey \in Nat /\ MaxDeletes \in Nat /\ MaxEntryCount \in Nat /\ LinearLimit \in Nat
  /\ MaxEntries \in Nat /\ MaxEntries >= 2 /\ EntryCount \in Nat /\ EntryCount >= 2
  /\ MinEntryCount \in Nat /\ MinEntryCount >= 1 /\ InitPrefix \in 0 .. MaxKey
BY LetreeAssumption

(* Sets of keys are finite, so a bucket has a number of pairs. *)
LEMMA KeysFinite ==
  /\ IsFiniteSet(Keys)
  /\ \A ks \in SUBSET Keys : IsFiniteSet(ks) /\ Cardinality(ks) \in Nat
<1>1. IsFiniteSet(Keys)
  BY Constants, FS_Interval DEF Keys
<1>2. ASSUME NEW ks \in SUBSET Keys PROVE IsFiniteSet(ks) /\ Cardinality(ks) \in Nat
  BY <1>1, FS_Subset, FS_CardinalityType
<1>3. QED
  BY <1>1, <1>2

(* What a pointer's parts are. *)
LEMMA PointerParts ==
  ASSUME NEW x \in Pointer
  PROVE  /\ x = [key |-> x.key, keys |-> x.keys, holes |-> x.holes, prefix |-> x.prefix]
         /\ x.key \in 0 .. MaxKey /\ x.keys \in Buckets /\ x.keys \in SUBSET Keys
         /\ x.holes \in SUBSET Keys /\ x.prefix \in {0, InitPrefix}
         /\ Cardinality(x.keys) \in Nat /\ Cardinality(x.holes) \in Nat
         /\ Cardinality(x.keys) + Cardinality(x.holes) <= MaxEntries
<1>1. /\ x = [key |-> x.key, keys |-> x.keys, holes |-> x.holes, prefix |-> x.prefix]
      /\ x.key \in 0 .. MaxKey /\ x.keys \in SUBSET Keys
      /\ x.holes \in SUBSET Keys /\ x.prefix \in {0, InitPrefix}
      /\ Cardinality(x.keys) + Cardinality(x.holes) <= MaxEntries
  BY DEF Pointer
<1>2. Cardinality(x.keys) \in Nat /\ Cardinality(x.holes) \in Nat
  BY <1>1, KeysFinite
<1>3. Cardinality(x.keys) <= MaxEntries
  BY <1>1, <1>2, Constants
<1>4. x.keys \in Buckets
  BY <1>1, <1>3 DEF Buckets
<1>5. QED
  BY <1>1, <1>2, <1>4

(* What makes a pointer. *)
LEMMA PointerMade ==
  ASSUME NEW key \in 0 .. MaxKey, NEW ks \in SUBSET Keys, NEW hs \in SUBSET Keys,
         NEW pf \in {0, InitPrefix}, Cardinality(ks) + Cardinality(hs) <= MaxEntries
  PROVE  [key |-> key, keys |-> ks, holes |-> hs, prefix |-> pf] \in Pointer
BY DEF Pointer

(* The bucket that a Put leaves, if it had room: a hole is closed when the *)
(* slots are used up.                                                      *)
LEMMA StoredIs ==
  ASSUME NEW x \in Pointer, NEW k \in Keys, NEW low \in 0 .. MaxKey,
         Cardinality(x.keys) < MaxEntries
  PROVE  [key |-> low, keys |-> x.keys \union {k}, holes |-> Kept(x), prefix |-> x.prefix]
           \in Pointer
<1>1. /\ x.keys \in SUBSET Keys /\ x.holes \in SUBSET Keys /\ x.prefix \in {0, InitPrefix}
      /\ Cardinality(x.keys) \in Nat /\ Cardinality(x.holes) \in Nat
      /\ Cardinality(x.keys) + Cardinality(x.holes) <= MaxEntries
  BY PointerParts
<1>2. IsFiniteSet(x.keys) /\ IsFiniteSet(x.holes)
  BY <1>1, KeysFinite
<1>3. x.keys \union {k} \in SUBSET Keys
  BY <1>1
<1>4. Cardinality(x.keys \union {k}) <= Cardinality(x.keys) + 1
      /\ Cardinality(x.keys \union {k}) \in Nat
  <2>1. Cardinality(x.keys \union {k}) =
          IF k \in x.keys THEN Cardinality(x.keys) ELSE Cardinality(x.keys) + 1
    BY <1>2, FS_AddElement
  <2>2. QED
    BY <1>1, <2>1
<1>5. CASE x.holes # {} /\ Cardinality(x.keys) + Cardinality(x.holes) >= MaxEntries - 1
  <2>1. Kept(x) = x.holes \ {Max(x.holes)}
    BY <1>5 DEF Kept
  <2>2. Max(x.holes) \in x.holes
    <3>1. x.holes \in SUBSET Int /\ x.holes # {} /\ \A h \in x.holes : h <= MaxKey
      BY <1>1, <1>5, Constants DEF Keys
    <3>2. MaxKey \in Int
      BY Constants
    <3>3. QED
      BY <3>1, <3>2, MaxProperty
  <2>3. Cardinality(Kept(x)) = Cardinality(x.holes) - 1
    BY <1>2, <2>1, <2>2, FS_RemoveElement
  <2>4. Kept(x) \in SUBSET Keys
    BY <1>1, <2>1
  <2>5. Cardinality(x.keys \union {k}) + Cardinality(Kept(x)) <= MaxEntries
    BY <1>1, <1>4, <2>3, Constants
  <2>6. QED
    BY <1>1, <1>3, <2>4, <2>5, PointerMade
<1>6. CASE ~ (x.holes # {} /\ Cardinality(x.keys) + Cardinality(x.holes) >= MaxEntries - 1)
  <2>1. Kept(x) = x.holes
    BY <1>6 DEF Kept
  <2>2. Cardinality(x.keys \union {k}) + Cardinality(x.holes) <= MaxEntries
    <3>1. CASE x.holes = {}
      <4>1. Cardinality(x.holes) = 0
        BY <3>1, FS_EmptySet
      <4>2. QED
        BY <1>1, <1>4, <4>1, Constants
    <3>2. CASE ~ (Cardinality(x.keys) + Cardinality(x.holes) >= MaxEntries - 1)
      BY <1>1, <1>4, <3>2, Constants
    <3>3. QED
      BY <1>6, <3>1, <3>2
  <2>3. QED
    BY <1>1, <1>3, <2>1, <2>2, PointerMade
<1>7. QED
  BY <1>5, <1>6

(* The bucket that a Delete leaves. *)
LEMMA VacatedIs ==
  ASSUME NEW x \in Pointer, NEW k \in x.keys
  PROVE  /\ Vacated(x, k) \in Pointer /\ Vacated(x, k).key = x.key
         /\ Vacated(x, k).keys = x.keys \ {k}
<1>1. /\ x.keys \in SUBSET Keys /\ x.holes \in SUBSET Keys /\ x.prefix \in {0, InitPrefix}
      /\ x.key \in 0 .. MaxKey
      /\ Cardinality(x.keys) \in Nat /\ Cardinality(x.holes) \in Nat
      /\ Cardinality(x.keys) + Cardinality(x.holes) <= MaxEntries
  BY PointerParts
<1>2. IsFiniteSet(x.keys) /\ IsFiniteSet(x.holes)
  BY <1>1, KeysFinite
<1>3. Cardinality(x.keys \ {k}) = Cardinality(x.keys) - 1
  BY <1>2, FS_RemoveElement
<1>4. Cardinality(x.holes \union {k}) =
        IF k \in x.holes THEN Cardinality(x.holes) ELSE Cardinality(x.holes) + 1
  BY <1>2, FS_AddElement
<1>5. Cardinality(x.keys \ {k}) + Cardinality(x.holes \union {k}) <= MaxEntries
  BY <1>1, <1>3, <1>4, Constants
<1>6. x.keys \ {k} \in SUBSET Keys /\ x.holes \union {k} \in SUBSET Keys
  BY <1>1
<1>7. [key |-> x.key, keys |-> x.keys \ {k}, holes |-> x.holes \union {k}, prefix |-> x.prefix]
        \in Pointer
  BY <1>1, <1>5, <1>6, PointerMade
<1>8. QED
  BY <1>7 DEF Vacated

(* A place is a group, an entry of it and a pointer of that. *)
LEMMA PlacesAre ==
  ASSUME NEW gs
  PROVE  /\ \A i \in DOMAIN gs : \A j \in DOMAIN gs[i].bents : \A p \in DOMAIN gs[i].bents[j] :
              <<i, j, p>> \in Places(gs) /\ PointerAt(gs, <<i, j, p>>) = gs[i].bents[j][p]
         /\ \A P \in Places(gs) :
              /\ P[1] \in DOMAIN gs /\ P[2] \in DOMAIN gs[P[1]].bents
              /\ P[3] \in DOMAIN gs[P[1]].bents[P[2]] /\ P = <<P[1], P[2], P[3]>>
<1>1. ASSUME NEW i \in DOMAIN gs, NEW j \in DOMAIN gs[i].bents, NEW p \in DOMAIN gs[i].bents[j]
      PROVE  <<i, j, p>> \in Places(gs) /\ PointerAt(gs, <<i, j, p>>) = gs[i].bents[j][p]
  BY DEF Places, PointerAt
<1>2. ASSUME NEW P \in Places(gs)
      PROVE  /\ P[1] \in DOMAIN gs /\ P[2] \in DOMAIN gs[P[1]].bents
             /\ P[3] \in DOMAIN gs[P[1]].bents[P[2]] /\ P = <<P[1], P[2], P[3]>>
  <2>1. PICK i \in DOMAIN gs : \E j \in DOMAIN gs[i].bents : \E p \in DOMAIN gs[i].bents[j] :
          P = <<i, j, p>>
    BY DEF Places
  <2>2. PICK j \in DOMAIN gs[i].bents : \E p \in DOMAIN gs[i].bents[j] : P = <<i, j, p>>
    BY <2>1
  <2>3. PICK p \in DOMAIN gs[i].bents[j] : P = <<i, j, p>>
    BY <2>2
  <2>4. P[1] = i /\ P[2] = j /\ P[3] = p
    BY <2>3
  <2>5. QED
    BY <2>3, <2>4
<1>3. QED
  BY <1>1, <1>2

(* What a tree's parts are. *)
LEMMA Parts ==
  ASSUME NEW gs \in Tree
  PROVE  /\ Len(gs) \in Nat /\ DOMAIN gs = 1 .. Len(gs)
         /\ \A i \in DOMAIN gs : gs[i] \in Group
<1>1. QED
  BY LenProperties DEF Tree

(* What a group's parts are. *)
LEMMA GroupParts ==
  ASSUME NEW g \in Group
  PROVE  /\ g = [bents |-> g.bents, next_entry_count |-> g.next_entry_count, min_key |-> g.min_key]
         /\ g.bents \in Seq(Bents) /\ g.next_entry_count \in Nat /\ g.min_key \in 0 .. MaxKey
         /\ Len(g.bents) \in Nat /\ DOMAIN g.bents = 1 .. Len(g.bents)
         /\ \A j \in DOMAIN g.bents : g.bents[j] \in Bents
<1>1. g.bents \in Seq(Bents) /\ g.next_entry_count \in Nat /\ g.min_key \in 0 .. MaxKey
      /\ g = [bents |-> g.bents, next_entry_count |-> g.next_entry_count, min_key |-> g.min_key]
  BY DEF Group
<1>2. Len(g.bents) \in Nat /\ DOMAIN g.bents = 1 .. Len(g.bents)
      /\ \A j \in DOMAIN g.bents : g.bents[j] \in Bents
  BY <1>1, LenProperties
<1>3. QED
  BY <1>1, <1>2

(* What an entry's parts are. *)
LEMMA BentParts ==
  ASSUME NEW b \in Bents
  PROVE  /\ Len(b) \in Nat /\ Len(b) >= 1 /\ Len(b) <= EntryCount /\ DOMAIN b = 1 .. Len(b)
         /\ \A p \in DOMAIN b :
              /\ b[p] \in Pointer
              /\ b[p].key \in 0 .. MaxKey /\ b[p].key \in Nat /\ b[p].keys \in Buckets
              /\ b[p].keys \subseteq Keys /\ b[p].keys \subseteq Nat
<1>1. b \in Seq(Pointer) /\ Len(b) \in 1 .. EntryCount
  BY DEF Bents
<1>2. Len(b) \in Nat /\ DOMAIN b = 1 .. Len(b)
      /\ \A p \in DOMAIN b : b[p] \in Pointer
  BY <1>1, LenProperties
<1>3. Len(b) >= 1 /\ Len(b) <= EntryCount
  BY <1>1, Constants
<1>4. \A x \in Pointer :
        /\ x.key \in 0 .. MaxKey /\ x.keys \in Buckets
  BY PointerParts
<1>5. 0 .. MaxKey \subseteq Nat /\ \A ks \in Buckets : ks \subseteq Keys /\ ks \subseteq Nat
  BY Constants DEF Buckets, Keys
<1>6. QED
  BY <1>2, <1>3, <1>4, <1>5

(* A union of finitely many finite sets is finite. *)
LEMMA FiniteFamily ==
  ASSUME NEW I, IsFiniteSet(I), NEW F, DOMAIN F = I, \A i \in I : IsFiniteSet(F[i])
  PROVE  IsFiniteSet(UNION {F[i] : i \in I})
<1> DEFINE f == [i \in I |-> F[i]]
           T == {F[i] : i \in I}
<1>1. f \in Surjection(I, T)
  <2>1. f \in [I -> T] /\ \A t \in T : \E i \in I : f[i] = t
    OBVIOUS
  <2> HIDE DEF f, T
  <2>2. QED
    BY <2>1 DEF Surjection
<1>2. \A t \in T : IsFiniteSet(t)
  OBVIOUS
<1> HIDE DEF f, T
<1>3. IsFiniteSet(UNION T)
  BY <1>1, <1>2, FS_Surjection, FS_UNION
<1>4. QED
  BY <1>3 DEF T

(* The values of a function on a finite set are finitely many. *)
LEMMA FiniteImage ==
  ASSUME NEW I, IsFiniteSet(I), NEW f, DOMAIN f = I
  PROVE  IsFiniteSet({f[i] : i \in I}) /\ Cardinality({f[i] : i \in I}) <= Cardinality(I)
<1> DEFINE T == {f[i] : i \in I}
           g == [i \in I |-> f[i]]
<1>1. g \in [I -> T] /\ \A t \in T : \E i \in I : g[i] = t
  OBVIOUS
<1> HIDE DEF T, g
<1>2. g \in Surjection(I, T)
  BY <1>1 DEF Surjection
<1>3. IsFiniteSet(T) /\ Cardinality(T) <= Cardinality(I)
  BY <1>2, FS_Surjection
<1>4. QED
  BY <1>3 DEF T

(* A tree has finitely many places. *)
LEMMA FinitePlaces ==
  ASSUME NEW gs \in Tree
  PROVE  IsFiniteSet(Places(gs)) /\ Cardinality(Places(gs)) \in Nat
<1> DEFINE Third(i, j) == {<<i, j, p>> : p \in DOMAIN gs[i].bents[j]}
           Second(i) == UNION {Third(i, j) : j \in DOMAIN gs[i].bents}
<1>1. Len(gs) \in Nat /\ DOMAIN gs = 1 .. Len(gs) /\ \A i \in DOMAIN gs : gs[i] \in Group
  BY Parts
<1>2. ASSUME NEW i \in DOMAIN gs, NEW j \in DOMAIN gs[i].bents PROVE IsFiniteSet(Third(i, j))
  <2>1. gs[i].bents[j] \in Bents
    BY <1>1, GroupParts
  <2>2. IsFiniteSet(DOMAIN gs[i].bents[j])
    <3>1. DOMAIN gs[i].bents[j] = 1 .. Len(gs[i].bents[j]) /\ Len(gs[i].bents[j]) \in Nat
      BY <2>1, BentParts
    <3>2. QED
      BY <3>1, FS_Interval
  <2> DEFINE f == [p \in DOMAIN gs[i].bents[j] |-> <<i, j, p>>]
  <2>3. IsFiniteSet({f[p] : p \in DOMAIN gs[i].bents[j]})
    <3>1. DOMAIN f = DOMAIN gs[i].bents[j]
      OBVIOUS
    <3> HIDE DEF f
    <3>2. QED
      BY <2>2, <3>1, FiniteImage
  <2>4. {f[p] : p \in DOMAIN gs[i].bents[j]} = Third(i, j)
    OBVIOUS
  <2>5. QED
    BY <2>3, <2>4
<1>3. ASSUME NEW i \in DOMAIN gs PROVE IsFiniteSet(Second(i))
  <2>1. gs[i] \in Group
    BY <1>1
  <2>2. IsFiniteSet(DOMAIN gs[i].bents)
    <3>1. DOMAIN gs[i].bents = 1 .. Len(gs[i].bents) /\ Len(gs[i].bents) \in Nat
      BY <2>1, GroupParts
    <3>2. QED
      BY <3>1, FS_Interval
  <2> DEFINE F == [j \in DOMAIN gs[i].bents |-> Third(i, j)]
  <2>3. DOMAIN F = DOMAIN gs[i].bents /\ \A j \in DOMAIN gs[i].bents : IsFiniteSet(F[j])
    BY <1>2
  <2>4. UNION {F[j] : j \in DOMAIN gs[i].bents} = Second(i)
    <3>1. \A j \in DOMAIN gs[i].bents : F[j] = Third(i, j)
      OBVIOUS
    <3> HIDE DEF F, Third
    <3>2. {F[j] : j \in DOMAIN gs[i].bents} = {Third(i, j) : j \in DOMAIN gs[i].bents}
      BY <3>1
    <3>3. QED
      BY <3>2
  <2> HIDE DEF F
  <2>5. QED
    BY <2>2, <2>3, <2>4, FiniteFamily
<1>4. IsFiniteSet(Places(gs))
  <2> DEFINE F == [i \in DOMAIN gs |-> Second(i)]
  <2>1. DOMAIN F = DOMAIN gs /\ \A i \in DOMAIN gs : IsFiniteSet(F[i])
    BY <1>3
  <2>2. UNION {F[i] : i \in DOMAIN gs} = Places(gs)
    BY DEF Places
  <2>3. IsFiniteSet(DOMAIN gs)
    BY <1>1, FS_Interval
  <2> HIDE DEF F
  <2>4. QED
    BY <2>1, <2>2, <2>3, FiniteFamily
<1>5. QED
  BY <1>4, FS_CardinalityType

(* The lexical order of places is: earlier group, or earlier entry of the  *)
(* same, or earlier pointer of the same.                                   *)
LEMMA LexicalTriples ==
  ASSUME NEW S \in SUBSET (Int \X Int \X Int), NEW P \in S, NEW Q \in S
  PROVE  <<P, Q>> \in Lexical(S) <=> Before(P, Q)
<1>1. PICK a \in Int, b \in Int, c \in Int : P = <<a, b, c>>
  OBVIOUS
<1>2. PICK d \in Int, e \in Int, f \in Int : Q = <<d, e, f>>
  OBVIOUS
<1>3. <<P, Q>> \in Lexical(S) <=>
        \E n \in 1 .. 3 : P[n] < Q[n] /\ \A m \in 1 .. n - 1 : P[m] = Q[m]
  <2>1. DOMAIN P = 1 .. 3
    BY <1>1
  <2>2. QED
    BY <2>1 DEF Lexical
<1>4. (\E n \in 1 .. 3 : P[n] < Q[n] /\ \A m \in 1 .. n - 1 : P[m] = Q[m])
      <=> \/ P[1] < Q[1]
          \/ P[2] < Q[2] /\ P[1] = Q[1]
          \/ P[3] < Q[3] /\ P[1] = Q[1] /\ P[2] = Q[2]
  <2>1. 1 .. 3 = {1, 2, 3} /\ 1 .. 1 - 1 = {} /\ 1 .. 2 - 1 = {1} /\ 1 .. 3 - 1 = {1, 2}
    OBVIOUS
  <2>2. QED
    BY <2>1
<1>5. QED
  BY <1>3, <1>4 DEF Before

(* It is total on any set of places, so Pointers lists them. *)
LEMMA LexicalOrders ==
  ASSUME NEW S \in SUBSET (Int \X Int \X Int)
  PROVE  Orders(Lexical(S), S)
<1>1. \A P \in S : \E a, b, c \in Int : P = <<a, b, c>> /\ P[1] = a /\ P[2] = b /\ P[3] = c
  OBVIOUS
<1>2. \A P \in S : ~ Before(P, P)
  BY <1>1 DEF Before
<1>3. ASSUME NEW P \in S, NEW Q \in S, NEW R \in S, Before(P, Q), Before(Q, R)
      PROVE  Before(P, R)
  <2>1. P[1] \in Int /\ P[2] \in Int /\ P[3] \in Int /\ Q[1] \in Int /\ Q[2] \in Int /\ Q[3] \in Int
        /\ R[1] \in Int /\ R[2] \in Int /\ R[3] \in Int
    BY <1>1
  <2>2. QED
    BY <1>3, <2>1 DEF Before
<1>4. ASSUME NEW P \in S, NEW Q \in S PROVE P = Q \/ Before(P, Q) \/ Before(Q, P)
  <2>1. PICK a \in Int, b \in Int, c \in Int : P = <<a, b, c>> /\ P[1] = a /\ P[2] = b /\ P[3] = c
    BY <1>1
  <2>2. PICK d \in Int, e \in Int, f \in Int : Q = <<d, e, f>> /\ Q[1] = d /\ Q[2] = e /\ Q[3] = f
    BY <1>1
  <2>3. QED
    BY <2>1, <2>2 DEF Before
<1>5. \A P, Q \in S : <<P, Q>> \in Lexical(S) <=> Before(P, Q)
  BY LexicalTriples
<1>6. QED
  BY <1>2, <1>3, <1>4, <1>5 DEF Orders

(* The numbers and the types at a place. *)
LEMMA PlacesNumbers ==
  ASSUME NEW gs \in Tree
  PROVE  /\ Places(gs) \in SUBSET (Int \X Int \X Int)
         /\ \A P \in Places(gs) :
              /\ P = <<P[1], P[2], P[3]>>
              /\ P[1] \in Nat /\ P[2] \in Nat /\ P[3] \in Nat
              /\ P[1] >= 1 /\ P[2] >= 1 /\ P[3] >= 1
              /\ P[1] <= Len(gs) /\ P[2] <= Len(gs[P[1]].bents) /\ P[3] <= Len(gs[P[1]].bents[P[2]])
              /\ gs[P[1]] \in Group /\ gs[P[1]].bents[P[2]] \in Bents
              /\ Key(gs, P) \in 0 .. MaxKey /\ Key(gs, P) \in Nat
              /\ KeysAt(gs, P) \in Buckets /\ KeysAt(gs, P) \subseteq Keys /\ KeysAt(gs, P) \subseteq Nat
<1>1. ASSUME NEW P \in Places(gs)
      PROVE   /\ P = <<P[1], P[2], P[3]>>
              /\ P[1] \in Nat /\ P[2] \in Nat /\ P[3] \in Nat
              /\ P[1] >= 1 /\ P[2] >= 1 /\ P[3] >= 1
              /\ P[1] <= Len(gs) /\ P[2] <= Len(gs[P[1]].bents) /\ P[3] <= Len(gs[P[1]].bents[P[2]])
              /\ gs[P[1]] \in Group /\ gs[P[1]].bents[P[2]] \in Bents
              /\ Key(gs, P) \in 0 .. MaxKey /\ Key(gs, P) \in Nat
              /\ KeysAt(gs, P) \in Buckets /\ KeysAt(gs, P) \subseteq Keys /\ KeysAt(gs, P) \subseteq Nat
  <2>1. /\ P[1] \in DOMAIN gs /\ P[2] \in DOMAIN gs[P[1]].bents
        /\ P[3] \in DOMAIN gs[P[1]].bents[P[2]] /\ P = <<P[1], P[2], P[3]>>
    BY PlacesAre
  <2>2. P[1] \in Nat /\ P[1] >= 1 /\ P[1] <= Len(gs) /\ gs[P[1]] \in Group
    BY <2>1, Parts
  <2>3. P[2] \in Nat /\ P[2] >= 1 /\ P[2] <= Len(gs[P[1]].bents) /\ gs[P[1]].bents[P[2]] \in Bents
    BY <2>1, <2>2, GroupParts
  <2>4. P[3] \in Nat /\ P[3] >= 1 /\ P[3] <= Len(gs[P[1]].bents[P[2]])
    BY <2>1, <2>3, BentParts
  <2>5. PointerAt(gs, P) = gs[P[1]].bents[P[2]][P[3]]
    BY DEF PointerAt
  <2>6. /\ Key(gs, P) \in 0 .. MaxKey /\ Key(gs, P) \in Nat
        /\ KeysAt(gs, P) \in Buckets /\ KeysAt(gs, P) \subseteq Keys /\ KeysAt(gs, P) \subseteq Nat
    BY <2>1, <2>3, <2>5, BentParts DEF Key, KeysAt
  <2>7. QED
    BY <2>1, <2>2, <2>3, <2>4, <2>6
<1>2. Places(gs) \subseteq Int \X Int \X Int
  <2>1. ASSUME NEW P \in Places(gs) PROVE P \in Int \X Int \X Int
    <3>1. P = <<P[1], P[2], P[3]>> /\ P[1] \in Int /\ P[2] \in Int /\ P[3] \in Int
      BY <1>1
    <3>2. <<P[1], P[2], P[3]>> \in Int \X Int \X Int
      BY <3>1
    <3>3. QED
      BY <3>1, <3>2, Zenon
  <2>2. QED
    BY <2>1
<1>3. QED
  BY <1>1, <1>2, Zenon

(* All the pointers of a tree, in order. *)
LEMMA PointersAre ==
  ASSUME NEW gs \in Tree
  PROVE  LET visit == Listed(Places(gs), Lexical(Places(gs)))
         IN  /\ Cardinality(Places(gs)) \in Nat
             /\ DOMAIN visit = 1 .. Cardinality(Places(gs))
             /\ DOMAIN Pointers(gs) = 1 .. Cardinality(Places(gs))
             /\ \A n \in DOMAIN visit :
                  visit[n] \in Places(gs) /\ Pointers(gs)[n] = PointerAt(gs, visit[n])
             /\ \A m, n \in DOMAIN visit : m < n => Before(visit[m], visit[n])
             /\ \A P \in Places(gs) : \E n \in DOMAIN visit : visit[n] = P
<1> DEFINE S == Places(gs)
           visit == Listed(S, Lexical(S))
<1>1. IsFiniteSet(S) /\ Orders(Lexical(S), S) /\ S \in SUBSET (Int \X Int \X Int)
  BY FinitePlaces, PlacesNumbers, LexicalOrders
<1>2. Cardinality(S) \in Nat /\ Lists(visit, S, Lexical(S))
  BY <1>1, Listing
<1>3. DOMAIN Pointers(gs) = DOMAIN visit
      /\ \A n \in DOMAIN visit : Pointers(gs)[n] = PointerAt(gs, visit[n])
  BY DEF Pointers
<1> HIDE DEF S, visit
<1>4. \A m, n \in DOMAIN visit : m < n => Before(visit[m], visit[n])
  BY <1>1, <1>2, LexicalTriples DEF Lists
<1>5. /\ Cardinality(S) \in Nat
      /\ DOMAIN visit = 1 .. Cardinality(S)
      /\ DOMAIN Pointers(gs) = 1 .. Cardinality(S)
      /\ \A n \in DOMAIN visit : visit[n] \in S /\ Pointers(gs)[n] = PointerAt(gs, visit[n])
      /\ \A m, n \in DOMAIN visit : m < n => Before(visit[m], visit[n])
      /\ \A P \in S : \E n \in DOMAIN visit : visit[n] = P
  BY <1>2, <1>3, <1>4 DEF Lists
<1>6. QED
  BY <1>5 DEF S, visit

-----------------------------------------------------------------------------
(* The searches inside a group: exponential, then linear or binary *)

(* The doubling of the exponential search. *)
LEMMA DoublingExists ==
  \A n \in Nat : \E f : f = [j \in 0 .. n |-> IF j = 0 THEN 1 ELSE 2 * f[j - 1]]
<1> DEFINE Good(n, f) == f = [j \in 0 .. n |-> IF j = 0 THEN 1 ELSE 2 * f[j - 1]]
           Bad == {n \in Nat : ~ \E f : Good(n, f)}
<1>1. SUFFICES ASSUME Bad # {} PROVE FALSE
  OBVIOUS
<1>2. PICK n \in Bad : \A m \in Bad : n <= m
  <2>1. Bad \in SUBSET Nat
    OBVIOUS
  <2> HIDE DEF Bad
  <2>2. QED
    BY <1>1, <2>1, Least
<1>3. n \in Nat /\ ~ \E f : Good(n, f)
  OBVIOUS
<1>4. n # 0
  <2>1. Good(0, [j \in 0 .. 0 |-> 1])
    OBVIOUS
  <2> HIDE DEF Good, Bad
  <2>2. QED
    BY <1>3, <2>1
<1>5. n - 1 \in Nat /\ n - 1 \notin Bad
  <2>1. n - 1 \in Nat /\ ~ (n <= n - 1)
    BY <1>3, <1>4
  <2> HIDE DEF Bad
  <2>2. QED
    BY <1>2, <2>1
<1>6. PICK f : Good(n - 1, f)
  <2> HIDE DEF Good
  <2>1. QED
    BY <1>5
<1> DEFINE h == [j \in 0 .. n |-> IF j = n THEN 2 * f[n - 1] ELSE f[j]]
<1>7. Good(n, h)
  <2>1. DOMAIN h = 0 .. n
    OBVIOUS
  <2>2. ASSUME NEW j \in 0 .. n PROVE h[j] = IF j = 0 THEN 1 ELSE 2 * h[j - 1]
    <3>1. j \in Nat /\ j <= n
      BY <1>3
    <3>2. CASE j = n
      <4>1. h[j] = 2 * f[n - 1]
        BY <3>2
      <4>2. n - 1 \in 0 .. n /\ n - 1 # n
        BY <1>3, <1>5
      <4>3. h[n - 1] = f[n - 1]
        BY <4>2
      <4>4. QED
        BY <3>2, <4>1, <4>3, <1>4
    <3>3. CASE j # n
      <4>1. j \in 0 .. n - 1
        BY <1>3, <3>1, <3>3
      <4>2. h[j] = f[j] /\ f[j] = IF j = 0 THEN 1 ELSE 2 * f[j - 1]
        BY <1>6, <3>3, <4>1
      <4>3. CASE j = 0
        BY <4>2, <4>3
      <4>4. CASE j # 0
        <5>1. j - 1 \in 0 .. n /\ j - 1 # n
          BY <1>3, <3>1, <4>4
        <5>2. h[j - 1] = f[j - 1]
          BY <5>1
        <5>3. QED
          BY <4>2, <4>4, <5>2
      <4>5. QED
        BY <4>3, <4>4
    <3>4. QED
      BY <3>2, <3>3
  <2> DEFINE hh == [j \in 0 .. n |-> IF j = 0 THEN 1 ELSE 2 * h[j - 1]]
  <2>3. h = hh
    <3>1. DOMAIN hh = 0 .. n /\ \A j \in 0 .. n : hh[j] = IF j = 0 THEN 1 ELSE 2 * h[j - 1]
      OBVIOUS
    <3>2. h = [j \in 0 .. n |-> h[j]] /\ hh = [j \in 0 .. n |-> hh[j]]
      OBVIOUS
    <3> HIDE DEF h, hh
    <3>3. \A j \in 0 .. n : h[j] = hh[j]
      BY <2>2, <3>1
    <3>4. QED
      BY <3>2, <3>3
  <2>4. QED
    BY <2>3
<1> HIDE DEF h
<1>8. QED
  BY <1>3, <1>7

(* The distances that exponential_search_upper_bound tries: the powers of  *)
(* two.                                                                    *)
LEMMA Doubling ==
  ASSUME NEW n \in Nat, NEW f, f = [j \in 0 .. n |-> IF j = 0 THEN 1 ELSE 2 * f[j - 1]]
  PROVE  /\ f[0] = 1
         /\ \A j \in 1 .. n : f[j] = 2 * f[j - 1]
         /\ \A j \in 0 .. n : f[j] \in Nat /\ f[j] > j
<1>1. f[0] = 1
  <2>1. 0 \in 0 .. n
    OBVIOUS
  <2>2. QED
    BY <2>1
<1>2. ASSUME NEW j \in 1 .. n PROVE f[j] = 2 * f[j - 1]
  <2>1. j \in 0 .. n /\ j # 0
    OBVIOUS
  <2>2. QED
    BY <2>1
<1> DEFINE Bad == {j \in 0 .. n : ~ (f[j] \in Nat /\ f[j] > j)}
<1>3. Bad = {}
  <2> SUFFICES ASSUME Bad # {} PROVE FALSE
    OBVIOUS
  <2>1. PICK j \in Bad : \A m \in Bad : j <= m
    <3>1. Bad \in SUBSET Nat
      OBVIOUS
    <3> HIDE DEF Bad
    <3>2. QED
      BY <3>1, Least
  <2>2. j \in 0 .. n /\ ~ (f[j] \in Nat /\ f[j] > j)
    OBVIOUS
  <2>3. CASE j = 0
    BY <1>1, <2>2, <2>3
  <2>4. CASE j # 0
    <3>1. j \in 1 .. n /\ j - 1 \in 0 .. n /\ j - 1 \in Nat /\ j \in Nat /\ ~ (j <= j - 1)
      BY <2>2, <2>4
    <3>2. f[j - 1] \in Nat /\ f[j - 1] > j - 1
      BY <2>1, <3>1
    <3>3. f[j] = 2 * f[j - 1]
      BY <1>2, <3>1
    <3>4. 2 * f[j - 1] \in Nat /\ 2 * f[j - 1] > j
      BY <3>1, <3>2
    <3>5. QED
      BY <2>2, <3>3, <3>4
  <2>5. QED
    BY <2>3, <2>4
<1>4. QED
  BY <1>1, <1>2, <1>3

(* Where the doubling stops, the distance is far enough and half of it was not. *)
LEMMA Bounds ==
  ASSUME NEW size \in Nat, NEW beyond
  PROVE  LET b == Bound(size, beyond)
         IN  /\ b \in Nat /\ b >= 1
             /\ b >= size \/ b \notin beyond
             /\ b = 1 \/ (b \div 2 \in beyond /\ b \div 2 < size /\ b \div 2 \in Nat)
<1> DEFINE doubled == CHOOSE f : f = [j \in 0 .. size |-> IF j = 0 THEN 1 ELSE 2 * f[j - 1]]
           Reached == {doubled[j] : j \in 0 .. size}
           Stops == {b \in Reached : b >= size \/ b \notin beyond}
<1>1. doubled = [j \in 0 .. size |-> IF j = 0 THEN 1 ELSE 2 * doubled[j - 1]]
  BY DoublingExists
<1>2. Bound(size, beyond) = Min(Stops)
  BY DEF Bound
<1> HIDE DEF doubled
<1>3. /\ doubled[0] = 1
      /\ \A j \in 1 .. size : doubled[j] = 2 * doubled[j - 1]
      /\ \A j \in 0 .. size : doubled[j] \in Nat /\ doubled[j] > j
  BY <1>1, Doubling
<1>4. Reached \subseteq Nat /\ doubled[size] \in Reached /\ doubled[size] >= size
  <2>1. size \in 0 .. size
    OBVIOUS
  <2>2. doubled[size] \in Nat /\ doubled[size] > size
    BY <1>3, <2>1
  <2>3. QED
    BY <1>3, <2>1, <2>2
<1>5. Stops \in SUBSET Int /\ Stops # {} /\ \A x \in Stops : 0 <= x
  <2>1. Stops \subseteq Reached /\ doubled[size] \in Stops
    BY <1>4
  <2> HIDE DEF Stops, Reached
  <2>2. QED
    BY <2>1, <1>4
<1> DEFINE b == Min(Stops)
<1>6. b \in Stops /\ \A y \in Stops : b <= y
  <2> HIDE DEF Stops
  <2>1. QED
    BY <1>5, MinProperty
<1> HIDE DEF b
<1>7. PICK j \in 0 .. size : b = doubled[j]
  BY <1>6
<1>8. b \in Nat /\ b >= 1 /\ b > j /\ j \in Nat
  BY <1>3, <1>7
<1>9. b = 1 \/ (b \div 2 \in beyond /\ b \div 2 < size /\ b \div 2 \in Nat)
  <2>1. CASE j = 0
    BY <1>3, <1>7, <2>1
  <2>2. CASE j # 0
    <3>1. j \in 1 .. size /\ j - 1 \in 0 .. size
      BY <1>8, <2>2
    <3>2. doubled[j] = 2 * doubled[j - 1] /\ doubled[j - 1] \in Nat
      BY <1>3, <3>1
    <3>3. PICK a \in Nat : a = doubled[j - 1] /\ b = 2 * a
      BY <1>7, <3>2
    <3>4. b \div 2 = a /\ a < b
      BY <3>3, <1>8
    <3>5. a \in Reached /\ a \notin Stops
      BY <1>6, <3>1, <3>3, <3>4
    <3>6. QED
      BY <3>3, <3>4, <3>5
  <2>3. QED
    BY <2>1, <2>2
<1>10. b >= size \/ b \notin beyond
  BY <1>6
<1>11. QED
  BY <1>2, <1>8, <1>9, <1>10 DEF b

(* linear_search_upper_bound ends at the one place before which no key is  *)
(* above the key searched, and from which on all are.                      *)
LEMMA LinearIs ==
  ASSUME NEW g, NEW lo \in Int, NEW hi \in Int, NEW k, NEW u \in lo .. hi,
         \A i \in lo .. hi - 1 : EntryKey(g, i) > k <=> i >= u
  PROVE  LinearUpper(g, lo, hi, k) = u
<1> DEFINE S == {i \in lo .. hi - 1 : EntryKey(g, i) > k} \union {hi}
<1>1. S \in SUBSET Int
  OBVIOUS
<1>2. u \in S
  <2>1. u = hi \/ u \in lo .. hi - 1
    OBVIOUS
  <2>2. u \in lo .. hi - 1 => EntryKey(g, u) > k
    OBVIOUS
  <2>3. QED
    BY <2>1, <2>2
<1>3. \A y \in S : u <= y
  OBVIOUS
<1> HIDE DEF S
<1>4. Min(S) = u
  BY <1>1, <1>2, <1>3, MinIs
<1>5. QED
  BY <1>4 DEF S, LinearUpper

(* Halving a range. *)
LEMMA Middle ==
  ASSUME NEW l \in Int, NEW r \in Int, l < r
  PROVE  LET mid == l + (r - l) \div 2
         IN  mid \in Int /\ l <= mid /\ mid < r
<1>1. PICK d \in Nat : d = r - l /\ d >= 1
  OBVIOUS
<1>2. d \div 2 \in Int /\ 0 <= d \div 2 /\ d \div 2 < d
  BY <1>1
<1>3. QED
  BY <1>1, <1>2

(* binary_search_upper_bound ends there too, by induction on the length of *)
(* the range.                                                              *)
LEMMA BinaryIs ==
  ASSUME NEW g, NEW lo \in Int, NEW hi \in Int, NEW k \in Int, NEW u \in lo .. hi,
         \A i \in lo .. hi - 1 : EntryKey(g, i) \in Int /\ (EntryKey(g, i) > k <=> i >= u)
  PROVE  BinaryUpper(g, lo, hi, k) = u
<1> DEFINE R == (lo .. hi) \X (lo .. hi)
           Mid(l, r) == l + (r - l) \div 2
           Step(f, l, r) == IF l >= r THEN l
                            ELSE IF EntryKey(g, Mid(l, r)) <= k THEN f[<<Mid(l, r) + 1, r>>]
                            ELSE f[<<l, Mid(l, r)>>]
           Found(l, r) == IF l >= r THEN l ELSE IF u < l THEN l ELSE IF u > r THEN r ELSE u
           found == [range \in R |-> Found(range[1], range[2])]
<1>1. ASSUME NEW l \in lo .. hi, NEW r \in lo .. hi
      PROVE  IF l >= r THEN TRUE
             ELSE /\ Mid(l, r) \in lo .. hi /\ Mid(l, r) + 1 \in lo .. hi
                  /\ l <= Mid(l, r) /\ Mid(l, r) < r
                  /\ EntryKey(g, Mid(l, r)) <= k <=> Mid(l, r) < u
  <2>1. SUFFICES ASSUME l < r
                 PROVE  /\ Mid(l, r) \in lo .. hi /\ Mid(l, r) + 1 \in lo .. hi
                        /\ l <= Mid(l, r) /\ Mid(l, r) < r
                        /\ EntryKey(g, Mid(l, r)) <= k <=> Mid(l, r) < u
    OBVIOUS
  <2>2. Mid(l, r) \in Int /\ l <= Mid(l, r) /\ Mid(l, r) < r
    <3>1. l \in Int /\ r \in Int
      OBVIOUS
    <3>2. QED
      BY <2>1, <3>1, Middle
  <2> HIDE DEF Mid
  <2>3. Mid(l, r) \in lo .. hi - 1 /\ Mid(l, r) \in lo .. hi /\ Mid(l, r) + 1 \in lo .. hi
    BY <2>2
  <2>4. EntryKey(g, Mid(l, r)) \in Int /\ (EntryKey(g, Mid(l, r)) > k <=> Mid(l, r) >= u)
    BY <2>3
  <2>5. QED
    BY <2>2, <2>3, <2>4
<1>2. ASSUME NEW l \in lo .. hi, NEW r \in lo .. hi
      PROVE  Found(l, r) = IF l >= r THEN l
                           ELSE IF EntryKey(g, Mid(l, r)) <= k THEN Found(Mid(l, r) + 1, r)
                           ELSE Found(l, Mid(l, r))
  <2>1. CASE l >= r
    BY <2>1
  <2>2. CASE ~ (l >= r)
    <3>1. /\ Mid(l, r) \in Int /\ l <= Mid(l, r) /\ Mid(l, r) < r
          /\ EntryKey(g, Mid(l, r)) <= k <=> Mid(l, r) < u
      BY <1>1, <2>2
    <3>2. PICK m \in Int : m = Mid(l, r)
      BY <3>1
    <3> HIDE DEF Mid
    <3>3. QED
      BY <3>1, <3>2, <2>2
  <2>3. QED
    BY <2>1, <2>2
<1> HIDE DEF Mid
<1>3. found = [range \in R |-> Step(found, range[1], range[2])]
  <2>1. ASSUME NEW l \in lo .. hi, NEW r \in lo .. hi PROVE Found(l, r) = Step(found, l, r)
    <3>1. CASE l >= r
      BY <3>1
    <3>2. CASE ~ (l >= r)
      <4>1. Mid(l, r) \in lo .. hi /\ Mid(l, r) + 1 \in lo .. hi
        BY <1>1, <3>2
      <4>2. found[<<Mid(l, r) + 1, r>>] = Found(Mid(l, r) + 1, r) /\ found[<<l, Mid(l, r)>>] = Found(l, Mid(l, r))
        <5> HIDE DEF Found
        <5>1. QED
          BY <4>1
      <4>3. Found(l, r) = IF EntryKey(g, Mid(l, r)) <= k THEN Found(Mid(l, r) + 1, r)
                           ELSE Found(l, Mid(l, r))
        <5>1. Found(l, r) = IF l >= r THEN l
                           ELSE IF EntryKey(g, Mid(l, r)) <= k THEN Found(Mid(l, r) + 1, r)
                           ELSE Found(l, Mid(l, r))
          BY <1>2
        <5> HIDE DEF Found
        <5>2. QED
          BY <3>2, <5>1
      <4> HIDE DEF Found, found
      <4>4. QED
        BY <3>2, <4>2, <4>3
    <3>3. QED
      BY <3>1, <3>2
  <2>2. ASSUME NEW range \in R
        PROVE  Found(range[1], range[2]) = Step(found, range[1], range[2])
    <3>1. range[1] \in lo .. hi /\ range[2] \in lo .. hi
      OBVIOUS
    <3> HIDE DEF Found, Step, found
    <3>2. QED
      BY <2>1, <3>1
  <2>3. [range \in R |-> Found(range[1], range[2])] = [range \in R |-> Step(found, range[1], range[2])]
    <3> HIDE DEF Found, Step, found, R
    <3>1. QED
      BY <2>2
  <2>4. QED
    BY <2>3 DEF found
<1> DEFINE search == CHOOSE f : f = [range \in R |-> Step(f, range[1], range[2])]
<1>4. search = [range \in R |-> Step(search, range[1], range[2])]
  <2> HIDE DEF found, Step
  <2>1. QED
    BY <1>3
<1>5. BinaryUpper(g, lo, hi, k) = search[<<lo, hi>>]
  BY DEF BinaryUpper, Mid
<1> HIDE DEF search, found
<1>6. ASSUME NEW l \in lo .. hi, NEW r \in lo .. hi
      PROVE  search[<<l, r>>] = Step(search, l, r)
  <2> HIDE DEF Step
  <2>1. QED
    BY <1>4
<1> DEFINE Bad == {d \in Nat : \E l, r \in lo .. hi : (r - l = d \/ (d = 0 /\ l >= r)) /\ search[<<l, r>>] # Found(l, r)}
<1>7. Bad = {}
  <2> SUFFICES ASSUME Bad # {} PROVE FALSE
    OBVIOUS
  <2>1. PICK d \in Bad : \A e \in Bad : d <= e
    <3>1. Bad \in SUBSET Nat
      OBVIOUS
    <3> HIDE DEF Bad
    <3>2. QED
      BY <3>1, Least
  <2>2. PICK l \in lo .. hi, r \in lo .. hi :
          (r - l = d \/ (d = 0 /\ l >= r)) /\ search[<<l, r>>] # Found(l, r)
    <3> HIDE DEF Found
    <3>1. QED
      OBVIOUS
  <2>3. CASE l >= r
    BY <1>6, <2>2, <2>3
  <2>4. CASE ~ (l >= r)
    <3>1. /\ Mid(l, r) \in lo .. hi /\ Mid(l, r) + 1 \in lo .. hi
          /\ l <= Mid(l, r) /\ Mid(l, r) < r
      BY <1>1, <2>4
    <3>2. \A a, b \in lo .. hi : (a >= b \/ b - a < d) => search[<<a, b>>] = Found(a, b)
      <4> SUFFICES ASSUME NEW a \in lo .. hi, NEW b \in lo .. hi, a >= b \/ b - a < d,
                          search[<<a, b>>] # Found(a, b)
                   PROVE  FALSE
        OBVIOUS
      <4>1. d \in Nat /\ a \in Int /\ b \in Int /\ l \in Int /\ r \in Int /\ d = r - l /\ d >= 1
        BY <2>2, <2>4
      <4>2. CASE a >= b
        <5>1. 0 \in Bad
          <6> HIDE DEF Found
          <6>1. QED
            BY <4>2
        <5> HIDE DEF Bad
        <5>2. QED
          BY <2>1, <4>1, <5>1
      <4>3. CASE ~ (a >= b)
        <5>1. b - a \in Nat
          BY <4>1, <4>3
        <5>2. b - a \in Bad
          <6> HIDE DEF Found
          <6>1. QED
            BY <5>1
        <5>3. b - a < d
          BY <4>3
        <5> HIDE DEF Bad
        <5>4. QED
          BY <2>1, <4>1, <5>1, <5>2, <5>3
      <4>4. QED
        BY <4>2, <4>3
    <3>3. d = r - l /\ r - (Mid(l, r) + 1) < d /\ Mid(l, r) - l < d
      BY <2>2, <2>4, <3>1
    <3>4. /\ search[<<Mid(l, r) + 1, r>>] = Found(Mid(l, r) + 1, r)
          /\ search[<<l, Mid(l, r)>>] = Found(l, Mid(l, r))
      <4> HIDE DEF Found
      <4>1. QED
        BY <3>1, <3>2, <3>3
    <3>5. search[<<l, r>>] = IF EntryKey(g, Mid(l, r)) <= k THEN search[<<Mid(l, r) + 1, r>>]
                         ELSE search[<<l, Mid(l, r)>>]
      BY <1>6, <2>4
    <3>6. Found(l, r) = IF l >= r THEN l
                        ELSE IF EntryKey(g, Mid(l, r)) <= k THEN Found(Mid(l, r) + 1, r)
                        ELSE Found(l, Mid(l, r))
      BY <1>2
    <3> HIDE DEF Found, Bad
    <3>7. QED
      BY <2>2, <2>4, <3>4, <3>5, <3>6
  <2>5. QED
    BY <2>3, <2>4
<1>8. search[<<lo, hi>>] = Found(lo, hi)
  <2>1. hi - lo \in Nat /\ lo \in lo .. hi /\ hi \in lo .. hi
    OBVIOUS
  <2> HIDE DEF Found
  <2>2. QED
    BY <1>7, <2>1
<1>9. Found(lo, hi) = u
  OBVIOUS
<1>10. QED
  BY <1>5, <1>8, <1>9

(* A group whose entries' keys ascend. *)
Ascends(g) ==
  /\ Len(g.bents) \in Nat /\ Len(g.bents) >= 1
  /\ \A i \in 0 .. Len(g.bents) - 1 : EntryKey(g, i) \in Int
  /\ \A i, j \in 0 .. Len(g.bents) - 1 : i < j => EntryKey(g, i) < EntryKey(g, j)

(* From entry u on the keys of the entries are above k, and no earlier. *)
Turn(g, k, u) == \A i \in 0 .. Len(g.bents) - 1 : EntryKey(g, i) > k <=> i >= u

(* Where the linear search over a whole group ends is the turn of the      *)
(* group.                                                                  *)
LEMMA TurnIs ==
  ASSUME NEW g, Ascends(g), NEW k \in Int
  PROVE  LET u == LinearUpper(g, 0, Len(g.bents), k)
         IN  u \in 0 .. Len(g.bents) /\ Turn(g, k, u)
<1> DEFINE n == Len(g.bents)
           S == {i \in 0 .. n - 1 : EntryKey(g, i) > k} \union {n}
           u == Min(S)
<1>1. n \in Nat /\ n >= 1
  BY DEF Ascends
<1>2. S \in SUBSET Int /\ S # {} /\ \A x \in S : 0 <= x
  BY <1>1
<1>3. u \in S /\ \A y \in S : u <= y
  <2> HIDE DEF S
  <2>1. QED
    BY <1>2, MinProperty
<1> HIDE DEF u
<1>4. u \in 0 .. n
  BY <1>1, <1>3
<1>5. ASSUME NEW i \in 0 .. n - 1 PROVE EntryKey(g, i) > k <=> i >= u
  <2>1. EntryKey(g, i) > k => i >= u
    BY <1>3, <1>4
  <2>2. ASSUME i >= u PROVE EntryKey(g, i) > k
    <3>1. u \in 0 .. n - 1 /\ EntryKey(g, u) > k
      BY <1>1, <1>3, <1>4, <2>2
    <3>2. EntryKey(g, u) \in Int /\ EntryKey(g, i) \in Int
      BY <3>1 DEF Ascends
    <3>3. u = i \/ EntryKey(g, u) < EntryKey(g, i)
      BY <1>4, <2>2, <3>1 DEF Ascends
    <3>4. QED
      BY <3>1, <3>2, <3>3
  <2>3. QED
    BY <2>1, <2>2
<1>6. QED
  BY <1>4, <1>5 DEF u, Turn, LinearUpper

(* The number of the last entry not above k, or of the first. *)
LEMMA LastIs ==
  ASSUME NEW n \in Nat, n >= 1, NEW u \in 0 .. n
  PROVE  Max({u - 1, 0}) = IF u = 0 THEN 0 ELSE u - 1
<1> DEFINE e == IF u = 0 THEN 0 ELSE u - 1
<1>1. {u - 1, 0} \in SUBSET Int /\ e \in {u - 1, 0} /\ \A y \in {u - 1, 0} : y <= e
  OBVIOUS
<1> HIDE DEF e
<1>2. Max({u - 1, 0}) = e
  BY <1>1, MaxIs
<1>3. QED
  BY <1>2 DEF e

(* The lesser of two numbers. *)
LEMMA MinTwo ==
  ASSUME NEW a \in Int, NEW b \in Int
  PROVE  Min({a, b}) = IF a <= b THEN a ELSE b
<1>1. a <= b => Min({a, b}) = a
  <2>1. {a, b} \in SUBSET Int /\ (a <= b => a \in {a, b} /\ \A y \in {a, b} : a <= y)
    OBVIOUS
  <2>2. QED
    BY <2>1, MinIs
<1>2. ~ (a <= b) => Min({a, b}) = b
  <2>1. {a, b} \in SUBSET Int /\ (~ (a <= b) => b \in {a, b} /\ \A y \in {a, b} : b <= y)
    OBVIOUS
  <2>2. QED
    BY <2>1, MinIs
<1>3. QED
  BY <1>1, <1>2

(* find_entry ends at the same entry from whatever entry the model of the  *)
(* group predicted: the exponential search brackets the turn, and both     *)
(* searches of the bracket end at it.                                      *)
LEMMA EntryFound ==
  ASSUME NEW g, Ascends(g), NEW k \in Int, NEW m \in Predictions(g)
  PROVE  FindEntry(g, m, k) = Max({LinearUpper(g, 0, Len(g.bents), k) - 1, 0})
<1> DEFINE n    == Len(g.bents)
           u    == LinearUpper(g, 0, n, k)
           Down == {b \in 1 .. m : EntryKey(g, m - b) > k}
           Up   == {b \in 1 .. n - m - 1 : EntryKey(g, m + b) <= k}
           down == Bound(m, Down)
           up   == Bound(n - m, Up)
           l    == IF EntryKey(g, m) > k THEN m - Min({down, m}) ELSE m + up \div 2
           r    == IF EntryKey(g, m) > k THEN m - down \div 2 ELSE m + Min({up, n - m})
           hit  == IF r - l < LinearLimit THEN LinearUpper(g, l, r, k) ELSE BinaryUpper(g, l, r, k)
<1>1. n \in Nat /\ n >= 1 /\ m \in 0 .. n - 1 /\ m \in Nat /\ n - m \in Nat /\ n - m >= 1
  BY DEF Ascends, Predictions
<1>2. u \in 0 .. n /\ u \in Int /\ Turn(g, k, u)
  <2>1. u \in 0 .. n /\ Turn(g, k, u)
    BY TurnIs
  <2> HIDE DEF u, n
  <2>2. QED
    BY <1>1, <2>1
<1>3. \A i \in 0 .. n - 1 : EntryKey(g, i) \in Int
  BY DEF Ascends
<1>4. FindEntry(g, m, k) = Max({hit - 1, 0})
  BY DEF FindEntry
<1>5. /\ down \in Nat /\ down >= 1 /\ (down >= m \/ down \notin Down)
      /\ down = 1 \/ (down \div 2 \in Down /\ down \div 2 < m /\ down \div 2 \in Nat)
  BY <1>1, Bounds
<1>6. /\ up \in Nat /\ up >= 1 /\ (up >= n - m \/ up \notin Up)
      /\ up = 1 \/ (up \div 2 \in Up /\ up \div 2 < n - m /\ up \div 2 \in Nat)
  BY <1>1, Bounds
<1> HIDE DEF u, down, up, n
<1>7. \A i \in 0 .. n - 1 : EntryKey(g, i) > k <=> i >= u
  BY <1>2 DEF Turn, n
<1>8. \A b \in 1 .. m : b \in Down <=> m - b >= u
  <2> TAKE b \in 1 .. m
  <2>1. m - b \in 0 .. n - 1
    BY <1>1
  <2>2. QED
    BY <1>7, <2>1
<1>9. \A b \in 1 .. n - m - 1 : b \in Up <=> m + b < u
  <2> TAKE b \in 1 .. n - m - 1
  <2>1. m + b \in 0 .. n - 1 /\ m + b \in Int
    BY <1>1
  <2>2. EntryKey(g, m + b) \in Int /\ (EntryKey(g, m + b) > k <=> m + b >= u)
    BY <1>3, <1>7, <2>1
  <2>3. QED
    BY <1>2, <2>1, <2>2
<1>10. Down \subseteq 1 .. m /\ Up \subseteq 1 .. n - m - 1
  OBVIOUS
<1> HIDE DEF Down, Up
<1>11. l \in Int /\ r \in Int /\ 0 <= l /\ l <= u /\ u <= r /\ r <= n
  <2>1. CASE EntryKey(g, m) > k
    <3>1. l = m - (IF down <= m THEN down ELSE m) /\ r = m - down \div 2
      BY <2>1, <1>1, <1>5, MinTwo
    <3>2. m >= u
      BY <1>1, <1>7, <2>1
    <3> HIDE DEF l, r
    <3>3. down < m => m - down < u
      <4>1. SUFFICES ASSUME down < m PROVE m - down < u
        OBVIOUS
      <4>2. down \in 1 .. m /\ down \notin Down /\ m - down \in Int
        BY <1>1, <1>5, <4>1
      <4>3. QED
        BY <1>2, <1>8, <4>2
    <3>4. l \in Int /\ 0 <= l /\ l <= u
      BY <1>1, <1>2, <1>5, <3>1, <3>3
    <3>5. CASE down = 1
      <4>1. down \div 2 = 0
        BY <3>5
      <4>2. QED
        BY <1>1, <1>2, <3>1, <3>2, <3>4, <4>1
    <3>6. CASE down # 1
      <4>1. PICK h \in Nat : h = down \div 2 /\ h \in Down
        BY <1>5, <3>6
      <4>2. h \in 1 .. m /\ m - h >= u
        BY <1>8, <1>10, <4>1
      <4>3. QED
        BY <1>1, <1>2, <3>1, <3>4, <4>1, <4>2
    <3>7. QED
      BY <3>5, <3>6
  <2>2. CASE ~ (EntryKey(g, m) > k)
    <3>1. l = m + up \div 2 /\ r = m + (IF up <= n - m THEN up ELSE n - m)
      BY <2>2, <1>1, <1>6, MinTwo
    <3>2. m < u
      BY <1>1, <1>2, <1>7, <2>2
    <3> HIDE DEF l, r
    <3>3. up < n - m => m + up >= u
      <4>1. SUFFICES ASSUME up < n - m PROVE m + up >= u
        OBVIOUS
      <4>2. up \in 1 .. n - m - 1 /\ up \notin Up /\ m + up \in Int
        BY <1>1, <1>6, <4>1
      <4>3. QED
        BY <1>2, <1>9, <4>2
    <3>4. r \in Int /\ u <= r /\ r <= n
      BY <1>1, <1>2, <1>6, <3>1, <3>3
    <3>5. CASE up = 1
      <4>1. up \div 2 = 0
        BY <3>5
      <4>2. QED
        BY <1>1, <1>2, <3>1, <3>2, <3>4, <4>1
    <3>6. CASE up # 1
      <4>1. PICK h \in Nat : h = up \div 2 /\ h \in Up
        BY <1>6, <3>6
      <4>2. h \in 1 .. n - m - 1 /\ m + h < u
        BY <1>9, <1>10, <4>1
      <4>3. QED
        BY <1>1, <1>2, <3>1, <3>4, <4>1, <4>2
    <3>7. QED
      BY <3>5, <3>6
  <2>3. QED
    BY <2>1, <2>2
<1> HIDE DEF l, r
<1>12. u \in l .. r /\ l .. r - 1 \subseteq 0 .. n - 1
  BY <1>1, <1>2, <1>11
<1>13. LinearUpper(g, l, r, k) = u /\ BinaryUpper(g, l, r, k) = u
  BY <1>3, <1>7, <1>11, <1>12, LinearIs, BinaryIs
<1>14. hit = u
  BY <1>13
<1>15. QED
  BY <1>4, <1>14 DEF u, n

(* What the entry found is. *)
LEMMA EntryIs ==
  ASSUME NEW g, Ascends(g), NEW k \in Int, NEW m \in Predictions(g)
  PROVE  LET e == FindEntry(g, m, k)
         IN  /\ e \in 0 .. Len(g.bents) - 1 /\ e \in Nat
             /\ e + 1 \in 1 .. Len(g.bents)
             /\ e = 0 \/ EntryKey(g, e) <= k
             /\ \A i \in 0 .. Len(g.bents) - 1 : i > e => EntryKey(g, i) > k
<1> DEFINE n == Len(g.bents)
           u == LinearUpper(g, 0, n, k)
           e == FindEntry(g, m, k)
<1>1. n \in Nat /\ n >= 1 /\ \A i \in 0 .. n - 1 : EntryKey(g, i) \in Int
  BY DEF Ascends
<1>2. u \in 0 .. n /\ \A i \in 0 .. n - 1 : EntryKey(g, i) > k <=> i >= u
  BY TurnIs DEF Turn
<1>3. e = Max({u - 1, 0})
  BY EntryFound
<1> HIDE DEF n, u, e
<1>4. e = IF u = 0 THEN 0 ELSE u - 1
  BY <1>1, <1>2, <1>3, LastIs
<1>5. u \in Nat /\ u <= n
  BY <1>1, <1>2
<1>6. e \in 0 .. n - 1 /\ e \in Nat /\ e + 1 \in 1 .. n
  BY <1>1, <1>4, <1>5
<1>7. e = 0 \/ EntryKey(g, e) <= k
  <2>1. SUFFICES ASSUME e # 0 PROVE EntryKey(g, e) <= k
    OBVIOUS
  <2>2. ~ (e >= u)
    BY <1>4, <1>5, <2>1
  <2>3. QED
    BY <1>1, <1>2, <1>6, <2>2
<1>8. \A i \in 0 .. n - 1 : i > e => EntryKey(g, i) > k
  <2> SUFFICES ASSUME NEW i \in 0 .. n - 1, i > e PROVE EntryKey(g, i) > k
    OBVIOUS
  <2>1. i \in Int /\ i >= u
    BY <1>1, <1>4, <1>5
  <2>2. QED
    BY <1>2, <2>1
<1>9. QED
  BY <1>6, <1>7, <1>8 DEF n, e

-----------------------------------------------------------------------------
(* Sound trees, and the place that a key belongs to *)

(* A sound tree, and the pointer that a key belongs to. *)

(* The pointers' keys ascend, and the keys of a bucket are below the next key. *)
Chain(gs) ==
  \A P, Q \in Places(gs) : Before(P, Q) =>
    Key(gs, P) < Key(gs, Q) /\ \A k \in KeysAt(gs, P) : k < Key(gs, Q)

(* No key of a bucket is below its pointer's key. *)
Floors(gs) == \A P \in Places(gs) : \A k \in KeysAt(gs, P) : k >= Key(gs, P)

Sound(gs) == gs \in Tree /\ Chain(gs) /\ Floors(gs)

(* The group, the entry and the pointer that a key belongs to: everything  *)
(* before has keys below it, all the pointers behind have keys above it.   *)
OwnsGroup(gs, k, g) ==
  /\ g \in DOMAIN gs /\ ~ Bare(gs, g)
  /\ \A P \in Places(gs) :
       /\ P[1] < g => Key(gs, P) < k /\ \A x \in KeysAt(gs, P) : x < k
       /\ P[1] > g => Key(gs, P) > k

OwnsEntry(gs, k, g, e) ==
  /\ OwnsGroup(gs, k, g)
  /\ e \in DOMAIN gs[g].bents
  /\ \A P \in Places(gs) : P[1] = g =>
       /\ P[2] < e => Key(gs, P) < k /\ \A x \in KeysAt(gs, P) : x < k
       /\ P[2] > e => Key(gs, P) > k

Owns(gs, k, P) ==
  /\ P \in Places(gs)
  /\ \A Q \in Places(gs) :
       /\ Before(Q, P) => Key(gs, Q) < k /\ \A x \in KeysAt(gs, Q) : x < k
       /\ Before(P, Q) => Key(gs, Q) > k

(* The places of a sound tree by their numbers. *)
LEMMA Numbered ==
  ASSUME NEW gs \in Tree, NEW i \in DOMAIN gs, NEW j \in DOMAIN gs[i].bents
  PROVE  /\ i \in Nat /\ i >= 1 /\ i <= Len(gs) /\ j \in Nat /\ j >= 1 /\ j <= Len(gs[i].bents)
         /\ gs[i] \in Group /\ gs[i].bents[j] \in Bents
         /\ DOMAIN gs = 1 .. Len(gs) /\ Len(gs) \in Nat
         /\ DOMAIN gs[i].bents = 1 .. Len(gs[i].bents) /\ Len(gs[i].bents) \in Nat
         /\ DOMAIN gs[i].bents[j] = 1 .. Len(gs[i].bents[j]) /\ Len(gs[i].bents[j]) \in Nat
         /\ 1 \in DOMAIN gs[i].bents[j]
         /\ \A p \in DOMAIN gs[i].bents[j] :
              /\ <<i, j, p>> \in Places(gs)
              /\ Key(gs, <<i, j, p>>) = gs[i].bents[j][p].key
              /\ KeysAt(gs, <<i, j, p>>) = gs[i].bents[j][p].keys
         /\ <<i, j, 1>> \in Places(gs)
         /\ EntryKey(gs[i], j - 1) = Key(gs, <<i, j, 1>>)
<1>1. i \in Nat /\ i >= 1 /\ i <= Len(gs) /\ gs[i] \in Group /\ DOMAIN gs = 1 .. Len(gs) /\ Len(gs) \in Nat
  BY Parts
<1>2. /\ j \in Nat /\ j >= 1 /\ j <= Len(gs[i].bents) /\ gs[i].bents[j] \in Bents
      /\ DOMAIN gs[i].bents = 1 .. Len(gs[i].bents) /\ Len(gs[i].bents) \in Nat
  BY <1>1, GroupParts
<1>3. /\ DOMAIN gs[i].bents[j] = 1 .. Len(gs[i].bents[j]) /\ Len(gs[i].bents[j]) \in Nat
      /\ 1 \in DOMAIN gs[i].bents[j]
  BY <1>2, BentParts
<1>4. \A p \in DOMAIN gs[i].bents[j] :
        /\ <<i, j, p>> \in Places(gs)
        /\ Key(gs, <<i, j, p>>) = gs[i].bents[j][p].key
        /\ KeysAt(gs, <<i, j, p>>) = gs[i].bents[j][p].keys
  BY PlacesAre DEF Key, KeysAt
<1>5. j - 1 + 1 = j
  BY <1>2
<1>6. EntryKey(gs[i], j - 1) = gs[i].bents[j][1].key
  BY <1>5 DEF EntryKey
<1>7. QED
  BY <1>1, <1>2, <1>3, <1>4, <1>6

(* In a sound tree the keys of a group's entries ascend. *)
LEMMA GroupAscends ==
  ASSUME NEW gs, Sound(gs), NEW i \in DOMAIN gs, ~ Bare(gs, i)
  PROVE  Ascends(gs[i])
<1>1. gs \in Tree /\ Chain(gs)
  BY DEF Sound
<1>2. gs[i] \in Group /\ i \in Nat
  BY <1>1, Parts
<1>3. Len(gs[i].bents) \in Nat /\ DOMAIN gs[i].bents = 1 .. Len(gs[i].bents) /\ gs[i].bents \in Seq(Bents)
  BY <1>2, GroupParts
<1>4. Len(gs[i].bents) >= 1
  <2>1. gs[i].bents # <<>>
    BY DEF Bare
  <2>2. QED
    BY <1>3, <2>1, EmptySeq
<1>5. ASSUME NEW a \in 0 .. Len(gs[i].bents) - 1
      PROVE  /\ a + 1 \in DOMAIN gs[i].bents /\ <<i, a + 1, 1>> \in Places(gs)
             /\ EntryKey(gs[i], a) = Key(gs, <<i, a + 1, 1>>) /\ EntryKey(gs[i], a) \in Int
  <2>1. a + 1 \in DOMAIN gs[i].bents /\ a + 1 - 1 = a
    BY <1>3
  <2>2. <<i, a + 1, 1>> \in Places(gs) /\ EntryKey(gs[i], a) = Key(gs, <<i, a + 1, 1>>)
    <3>1. PICK j \in DOMAIN gs[i].bents : j = a + 1 /\ j - 1 = a
      BY <2>1
    <3>2. <<i, j, 1>> \in Places(gs) /\ EntryKey(gs[i], j - 1) = Key(gs, <<i, j, 1>>)
      BY <1>1, Numbered
    <3>3. QED
      BY <3>1, <3>2
  <2>3. QED
    BY <1>1, <2>1, <2>2, PlacesNumbers
<1>6. ASSUME NEW a \in 0 .. Len(gs[i].bents) - 1, NEW b \in 0 .. Len(gs[i].bents) - 1, a < b
      PROVE  EntryKey(gs[i], a) < EntryKey(gs[i], b)
  <2>1. Before(<<i, a + 1, 1>>, <<i, b + 1, 1>>)
    <3>1. a + 1 < b + 1
      BY <1>3, <1>6
    <3>2. QED
      BY <3>1 DEF Before
  <2>2. Key(gs, <<i, a + 1, 1>>) < Key(gs, <<i, b + 1, 1>>)
    BY <1>1, <1>5, <2>1 DEF Chain
  <2>3. QED
    BY <1>5, <2>2
<1>7. QED
  BY <1>3, <1>4, <1>5, <1>6 DEF Ascends

(* In an entry: the last pointer not above the key, or the first. *)
LEMMA PosIs ==
  ASSUME NEW b \in Bents, NEW k \in Int,
         \A p, q \in DOMAIN b : p < q => b[p].key < b[q].key
  PROVE  LET pos == FindPos(b, k)
         IN  /\ pos \in DOMAIN b /\ pos \in Nat /\ pos >= 1
             /\ pos = 1 \/ b[pos].key <= k
             /\ \A p \in DOMAIN b : p > pos => b[p].key > k
<1> DEFINE n == Len(b)
           A == {i \in 1 .. n : b[i].key > k} \union {n + 1}
           u == Min(A)
           pos == IF u = 1 THEN 1 ELSE u - 1
<1>1. n \in Nat /\ n >= 1 /\ DOMAIN b = 1 .. n /\ \A p \in 1 .. n : b[p].key \in Nat
  BY BentParts
<1>2. A \in SUBSET Int /\ A # {} /\ \A x \in A : 1 <= x
  BY <1>1
<1>3. u \in A /\ \A y \in A : u <= y
  <2> HIDE DEF A
  <2>1. QED
    BY <1>2, MinProperty
<1>4. FindPos(b, k) = Max({1, u - 1})
  BY DEF FindPos
<1> HIDE DEF u
<1>5. u \in 1 .. n + 1 /\ u \in Nat
  BY <1>1, <1>3
<1>6. Max({1, u - 1}) = pos
  <2>1. {1, u - 1} \in SUBSET Int /\ pos \in {1, u - 1} /\ \A y \in {1, u - 1} : y <= pos
    BY <1>5
  <2> HIDE DEF pos
  <2>2. QED
    BY <2>1, MaxIs
<1>7. pos \in 1 .. n
  BY <1>1, <1>5
<1>8. \A p \in 1 .. n : p < u => b[p].key <= k
  BY <1>1, <1>3, <1>5
<1>9. \A p \in 1 .. n : p >= u => b[p].key > k
  <2> SUFFICES ASSUME NEW p \in 1 .. n, p >= u PROVE b[p].key > k
    OBVIOUS
  <2>1. u \in 1 .. n /\ b[u].key > k /\ b[u].key \in Nat /\ b[p].key \in Nat /\ p \in Nat
    BY <1>1, <1>3, <1>5
  <2>2. u = p \/ b[u].key < b[p].key
    BY <1>1, <1>5, <2>1
  <2>3. QED
    BY <2>1, <2>2
<1>10. pos = 1 \/ b[pos].key <= k
  BY <1>1, <1>5, <1>7, <1>8
<1>11. \A p \in 1 .. n : p > pos => b[p].key > k
  BY <1>1, <1>5, <1>9
<1> HIDE DEF pos, n
<1>12. FindPos(b, k) = pos
  BY <1>4, <1>6
<1>13. QED
  BY <1>1, <1>7, <1>10, <1>11, <1>12

(* find_entry leads to the entry that the key belongs to, once the group   *)
(* is the one it belongs to.                                               *)
LEMMA EntryOwned ==
  ASSUME NEW gs, Sound(gs), NEW k \in Int, NEW g, OwnsGroup(gs, k, g),
         NEW m \in Predictions(gs[g])
  PROVE  OwnsEntry(gs, k, g, FindEntry(gs[g], m, k) + 1)
<1>1. gs \in Tree /\ Chain(gs) /\ g \in DOMAIN gs /\ ~ Bare(gs, g)
  BY DEF Sound, OwnsGroup
<1>2. Ascends(gs[g])
  BY <1>1, GroupAscends
<1> DEFINE e == FindEntry(gs[g], m, k)
           n == Len(gs[g].bents)
<1>3. /\ e \in 0 .. n - 1 /\ e \in Nat /\ e + 1 \in 1 .. n
      /\ e = 0 \/ EntryKey(gs[g], e) <= k
      /\ \A i \in 0 .. n - 1 : i > e => EntryKey(gs[g], i) > k
  BY <1>2, EntryIs
<1> HIDE DEF e
<1>4. DOMAIN gs[g].bents = 1 .. n /\ n \in Nat /\ g \in Nat
  BY <1>1, Parts, GroupParts
<1>5. ASSUME NEW P \in Places(gs), P[1] = g
      PROVE  /\ P[2] < e + 1 => Key(gs, P) < k /\ \A x \in KeysAt(gs, P) : x < k
             /\ P[2] > e + 1 => Key(gs, P) > k
  <2>1. /\ P = <<P[1], P[2], P[3]>> /\ P[2] \in Nat /\ P[2] >= 1 /\ P[2] <= n /\ P[3] \in Nat /\ P[3] >= 1
        /\ Key(gs, P) \in Nat /\ KeysAt(gs, P) \subseteq Nat
    BY <1>1, <1>5, PlacesNumbers
  <2>2. ASSUME P[2] < e + 1
        PROVE  Key(gs, P) < k /\ \A x \in KeysAt(gs, P) : x < k
    <3>1. e # 0 /\ EntryKey(gs[g], e) <= k
      BY <1>3, <2>1, <2>2
    <3>2. <<g, e + 1, 1>> \in Places(gs) /\ EntryKey(gs[g], e) = Key(gs, <<g, e + 1, 1>>)
      <4>1. PICK j \in DOMAIN gs[g].bents : j = e + 1 /\ j - 1 = e
        BY <1>3, <1>4
      <4>2. <<g, j, 1>> \in Places(gs) /\ EntryKey(gs[g], j - 1) = Key(gs, <<g, j, 1>>)
        BY <1>1, Numbered
      <4>3. QED
        BY <4>1, <4>2
    <3>3. Before(P, <<g, e + 1, 1>>)
      BY <1>5, <2>2 DEF Before
    <3>4. Key(gs, P) < EntryKey(gs[g], e) /\ \A x \in KeysAt(gs, P) : x < EntryKey(gs[g], e)
      BY <1>1, <3>2, <3>3 DEF Chain
    <3>5. EntryKey(gs[g], e) \in Nat
      BY <1>1, <3>2, PlacesNumbers
    <3>6. QED
      BY <2>1, <3>1, <3>4, <3>5
  <2>3. ASSUME P[2] > e + 1 PROVE Key(gs, P) > k
    <3>1. /\ P[2] \in DOMAIN gs[g].bents /\ <<g, P[2], 1>> \in Places(gs)
          /\ EntryKey(gs[g], P[2] - 1) = Key(gs, <<g, P[2], 1>>)
      <4>1. P[2] \in DOMAIN gs[g].bents
        BY <1>4, <2>1
      <4>2. QED
        BY <1>1, <4>1, Numbered
    <3>2. Key(gs, <<g, P[2], 1>>) > k /\ Key(gs, <<g, P[2], 1>>) \in Nat
      <4>1. P[2] - 1 \in 0 .. n - 1 /\ P[2] - 1 > e
        <5>1. P[2] \in Nat /\ P[2] >= 1 /\ P[2] <= n /\ n \in Nat /\ e \in Nat
          BY <1>3, <1>4, <2>1
        <5>2. QED
          BY <2>3, <5>1
      <4>2. QED
        BY <1>1, <1>3, <3>1, <4>1, PlacesNumbers
    <3>3. CASE P[3] = 1
      BY <1>5, <2>1, <3>2, <3>3
    <3>4. CASE P[3] # 1
      <4>1. Before(<<g, P[2], 1>>, P)
        BY <1>5, <2>1, <3>4 DEF Before
      <4>2. Key(gs, <<g, P[2], 1>>) < Key(gs, P)
        BY <1>1, <3>1, <4>1 DEF Chain
      <4>3. QED
        BY <2>1, <3>2, <4>2
    <3>5. QED
      BY <3>3, <3>4
  <2>4. QED
    BY <2>2, <2>3
<1>6. QED
  BY <1>3, <1>4, <1>5 DEF OwnsEntry, e

(* Find_pos leads to the pointer that the key belongs to. *)
LEMMA PlaceOwned ==
  ASSUME NEW gs, Sound(gs), NEW k \in Int, NEW g, NEW e, OwnsEntry(gs, k, g, e)
  PROVE  LET pos == FindPos(gs[g].bents[e], k)
         IN  /\ Owns(gs, k, <<g, e, pos>>)
             /\ pos \in DOMAIN gs[g].bents[e]
             /\ pos = 1 \/ Key(gs, <<g, e, pos>>) <= k
             /\ KeysAt(gs, <<g, e, pos>>) = gs[g].bents[e][pos].keys
<1> DEFINE b == gs[g].bents[e]
           pos == FindPos(b, k)
           P == <<g, e, pos>>
<1>1. gs \in Tree /\ Chain(gs) /\ g \in DOMAIN gs /\ e \in DOMAIN gs[g].bents /\ OwnsGroup(gs, k, g)
  BY DEF Sound, OwnsGroup, OwnsEntry
<1>2. b \in Bents /\ DOMAIN b = 1 .. Len(b) /\ Len(b) \in Nat /\ g \in Nat /\ e \in Nat
      /\ \A p \in DOMAIN b : <<g, e, p>> \in Places(gs) /\ Key(gs, <<g, e, p>>) = b[p].key
                             /\ KeysAt(gs, <<g, e, p>>) = b[p].keys
  <2>1. gs[g].bents[e] \in Bents /\ g \in Nat /\ e \in Nat
        /\ DOMAIN gs[g].bents[e] = 1 .. Len(gs[g].bents[e]) /\ Len(gs[g].bents[e]) \in Nat
    <3>1. gs[g] \in Group /\ g \in Nat
      BY <1>1, Parts
    <3>2. gs[g].bents[e] \in Bents /\ e \in Nat
      BY <1>1, <3>1, GroupParts
    <3>3. QED
      BY <3>1, <3>2, BentParts
  <2>2. \A p \in DOMAIN gs[g].bents[e] :
          /\ <<g, e, p>> \in Places(gs)
          /\ Key(gs, <<g, e, p>>) = gs[g].bents[e][p].key
          /\ KeysAt(gs, <<g, e, p>>) = gs[g].bents[e][p].keys
    BY <1>1, PlacesAre DEF Key, KeysAt
  <2>3. QED
    BY <2>1, <2>2
<1>3. ASSUME NEW p \in DOMAIN b, NEW q \in DOMAIN b, p < q PROVE b[p].key < b[q].key
  <2>1. Before(<<g, e, p>>, <<g, e, q>>)
    BY <1>3 DEF Before
  <2> HIDE DEF b
  <2>2. QED
    BY <1>1, <1>2, <2>1 DEF Chain
<1> HIDE DEF b
<1>4. /\ pos \in DOMAIN b /\ pos \in Nat /\ pos >= 1
      /\ pos = 1 \/ b[pos].key <= k
      /\ \A p \in DOMAIN b : p > pos => b[p].key > k
  BY <1>2, <1>3, PosIs
<1> HIDE DEF pos
<1>5. P \in Places(gs) /\ Key(gs, P) = b[pos].key /\ KeysAt(gs, P) = b[pos].keys
  BY <1>2, <1>4
<1>6. ASSUME NEW Q \in Places(gs)
      PROVE  /\ Before(Q, P) => Key(gs, Q) < k /\ \A x \in KeysAt(gs, Q) : x < k
             /\ Before(P, Q) => Key(gs, Q) > k
  <2>1. /\ Q = <<Q[1], Q[2], Q[3]>> /\ Q[1] \in Nat /\ Q[2] \in Nat /\ Q[3] \in Nat /\ Q[3] >= 1
        /\ Key(gs, Q) \in Nat /\ KeysAt(gs, Q) \subseteq Nat
    BY <1>1, PlacesNumbers
  <2>2. CASE Q[1] # g
    <3>1. (Before(Q, P) => Q[1] < g) /\ (Before(P, Q) => Q[1] > g)
      BY <1>2, <2>1, <2>2 DEF Before
    <3>2. QED
      BY <1>1, <3>1 DEF OwnsGroup
  <2>3. CASE Q[1] = g /\ Q[2] # e
    <3>1. (Before(Q, P) => Q[2] < e) /\ (Before(P, Q) => Q[2] > e)
      BY <1>2, <2>1, <2>3 DEF Before
    <3>2. QED
      BY <2>3, <3>1 DEF OwnsEntry
  <2>4. CASE Q[1] = g /\ Q[2] = e
    <3>1. (Before(Q, P) => Q[3] < pos) /\ (Before(P, Q) => Q[3] > pos)
      BY <1>2, <1>4, <2>1, <2>4 DEF Before
    <3>2. Q[3] \in DOMAIN b /\ Key(gs, Q) = b[Q[3]].key
      <4>1. Q[3] \in DOMAIN b
        BY <2>4, PlacesAre DEF b
      <4>2. QED
        BY <1>2, <2>1, <2>4, <4>1
    <3>3. ASSUME Before(Q, P) PROVE Key(gs, Q) < k /\ \A x \in KeysAt(gs, Q) : x < k
      <4>1. pos # 1 /\ Key(gs, P) <= k /\ Key(gs, P) \in Nat
        BY <1>1, <1>4, <1>5, <2>1, <3>1, <3>3, PlacesNumbers
      <4>2. Key(gs, Q) < Key(gs, P) /\ \A x \in KeysAt(gs, Q) : x < Key(gs, P)
        BY <1>1, <1>5, <3>3 DEF Chain
      <4>3. QED
        BY <2>1, <4>1, <4>2
    <3>4. QED
      BY <1>4, <3>1, <3>2, <3>3
  <2>5. QED
    BY <2>2, <2>3, <2>4
<1>7. QED
  BY <1>4, <1>5, <1>6 DEF Owns, pos, b

(* The root model never predicts a group before that of a key: groups that *)
(* begin at or below the key, but for the first, are not behind the group  *)
(* predicted.                                                              *)
Covers(gs, r) ==
  \A i \in DOMAIN gs : \A k \in Keys :
    (~ Bare(gs, i) /\ (\E h \in 1 .. i - 1 : ~ Bare(gs, h)) /\ EntryKey(gs[i], 0) <= k) => i <= r[k]

Inhabited(gs) == \E i \in DOMAIN gs : ~ Bare(gs, i)

(* A group that is not bare has a first pointer, whose key is the first    *)
(* entry's.                                                                *)
LEMMA FirstPlace ==
  ASSUME NEW gs \in Tree, NEW i \in DOMAIN gs, ~ Bare(gs, i)
  PROVE  /\ 1 \in DOMAIN gs[i].bents /\ <<i, 1, 1>> \in Places(gs)
         /\ EntryKey(gs[i], 0) = Key(gs, <<i, 1, 1>>)
         /\ EntryKey(gs[i], 0) \in 0 .. MaxKey /\ EntryKey(gs[i], 0) \in Nat
<1>1. gs[i] \in Group
  BY Parts
<1>2. Len(gs[i].bents) \in Nat /\ DOMAIN gs[i].bents = 1 .. Len(gs[i].bents) /\ gs[i].bents \in Seq(Bents)
  BY <1>1, GroupParts
<1>3. Len(gs[i].bents) >= 1
  <2>1. gs[i].bents # <<>>
    BY DEF Bare
  <2>2. QED
    BY <1>2, <2>1, EmptySeq
<1>4. 1 \in DOMAIN gs[i].bents
  BY <1>2, <1>3
<1>5. <<i, 1, 1>> \in Places(gs) /\ EntryKey(gs[i], 1 - 1) = Key(gs, <<i, 1, 1>>)
  BY <1>4, Numbered
<1>6. 1 - 1 = 0
  OBVIOUS
<1>7. QED
  BY <1>4, <1>5, <1>6, PlacesNumbers

(* A pointer of a group is not before the group's first. *)
LEMMA FromFirst ==
  ASSUME NEW gs, Sound(gs), NEW P \in Places(gs)
  PROVE  /\ P[1] \in DOMAIN gs /\ ~ Bare(gs, P[1])
         /\ Key(gs, P) >= EntryKey(gs[P[1]], 0)
<1>1. gs \in Tree /\ Chain(gs)
  BY DEF Sound
<1>2. /\ P = <<P[1], P[2], P[3]>> /\ P[1] \in Nat /\ P[2] \in Nat /\ P[3] \in Nat
      /\ P[2] >= 1 /\ P[3] >= 1 /\ Key(gs, P) \in Nat
  BY <1>1, PlacesNumbers
<1>3. P[1] \in DOMAIN gs /\ P[2] \in DOMAIN gs[P[1]].bents
  BY PlacesAre
<1>4. ~ Bare(gs, P[1])
  <2>1. gs[P[1]].bents # <<>>
    BY <1>3
  <2>2. QED
    BY <2>1 DEF Bare
<1>5. <<P[1], 1, 1>> \in Places(gs) /\ EntryKey(gs[P[1]], 0) = Key(gs, <<P[1], 1, 1>>)
      /\ EntryKey(gs[P[1]], 0) \in Nat
  BY <1>1, <1>3, <1>4, FirstPlace
<1>6. CASE P[2] = 1 /\ P[3] = 1
  BY <1>2, <1>3, <1>4, <1>5, <1>6
<1>7. CASE ~ (P[2] = 1 /\ P[3] = 1)
  <2>1. Before(<<P[1], 1, 1>>, P)
    BY <1>2, <1>7 DEF Before
  <2>2. Key(gs, <<P[1], 1, 1>>) < Key(gs, P)
    BY <1>1, <1>5, <2>1 DEF Chain
  <2>3. QED
    BY <1>2, <1>3, <1>4, <1>5, <2>2
<1>8. QED
  BY <1>6, <1>7

(* find_group leads to the group that a key belongs to, from a predicted   *)
(* group that is not before it; and the group it leads to is not behind    *)
(* the predicted one, but for bare groups at the start.                    *)
LEMMA GroupFound ==
  ASSUME NEW gs, Sound(gs), Inhabited(gs), NEW r \in [Keys -> 1 .. Len(gs)], Covers(gs, r),
         NEW k \in Keys
  PROVE  LET g == FindGroup(gs, r, k)
         IN  /\ g \in DOMAIN gs /\ OwnsGroup(gs, k, g)
             /\ (\A h \in 1 .. g - 1 : Bare(gs, h)) \/ g <= r[k]
<1> DEFINE fits == {i \in 2 .. r[k] : ~ Bare(gs, i) /\ EntryKey(gs[i], 0) <= k}
           down == Max(fits \union {1})
           up == {i \in down .. Len(gs) : ~ Bare(gs, i)}
           g == Min(up)
<1>1. gs \in Tree /\ Chain(gs) /\ Len(gs) \in Nat /\ DOMAIN gs = 1 .. Len(gs)
  BY Parts DEF Sound
<1>2. r[k] \in 1 .. Len(gs) /\ r[k] \in Nat /\ k \in Nat
  BY <1>1, Constants DEF Keys
<1>3. FindGroup(gs, r, k) = g
  BY DEF FindGroup
<1>4. down \in fits \union {1} /\ \A i \in fits : i <= down
  <2> DEFINE T == fits \union {1}
  <2>1. T \in SUBSET Int /\ T # {} /\ (\A x \in T : x <= r[k]) /\ fits \subseteq T
    BY <1>2
  <2>2. Max(T) \in T /\ \A y \in T : y <= Max(T)
    <3>1. r[k] \in Int
      BY <1>2
    <3> HIDE DEF T, down, fits
    <3>2. QED
      BY <2>1, <3>1, MaxProperty
  <2>3. down = Max(T)
    OBVIOUS
  <2> HIDE DEF fits, down
  <2>4. QED
    BY <2>1, <2>2, <2>3
<1> HIDE DEF down
<1>5. down \in 1 .. Len(gs) /\ down \in Nat
  BY <1>1, <1>2, <1>4
<1>6. up # {} /\ (down \in fits => down \in up)
  <2>1. CASE down \in fits
    BY <1>1, <1>2, <1>5, <2>1
  <2>2. CASE down \notin fits
    <3>1. down = 1
      BY <1>4, <2>2
    <3>2. PICK i \in DOMAIN gs : ~ Bare(gs, i)
      BY DEF Inhabited
    <3>3. QED
      BY <1>1, <2>2, <3>1, <3>2
  <2>3. QED
    BY <2>1, <2>2
<1>7. g \in up /\ \A i \in up : g <= i
  <2>1. up \in SUBSET Int /\ \A x \in up : 0 <= x
    BY <1>5
  <2> HIDE DEF up
  <2>2. QED
    BY <1>6, <2>1, MinProperty
<1> HIDE DEF g
<1>8. g \in DOMAIN gs /\ ~ Bare(gs, g) /\ g \in Nat /\ g >= down
  BY <1>1, <1>5, <1>7
<1>9. \A h \in down .. g - 1 : Bare(gs, h)
  <2> SUFFICES ASSUME NEW h \in down .. g - 1, ~ Bare(gs, h) PROVE FALSE
    OBVIOUS
  <2>1. h \in up /\ h < g /\ h \in Int
    BY <1>1, <1>5, <1>8
  <2>2. QED
    BY <1>7, <1>8, <2>1
<1>10. down \in fits => g = down
  BY <1>5, <1>6, <1>7, <1>8
<1>11. down \notin fits => \A h \in 1 .. g - 1 : Bare(gs, h)
  BY <1>4, <1>9
<1>12. ASSUME NEW P \in Places(gs)
       PROVE  /\ P[1] < g => Key(gs, P) < k /\ \A x \in KeysAt(gs, P) : x < k
              /\ P[1] > g => Key(gs, P) > k
  <2>1. /\ P = <<P[1], P[2], P[3]>> /\ P[1] \in Nat /\ P[1] >= 1 /\ P[1] <= Len(gs)
        /\ Key(gs, P) \in Nat /\ KeysAt(gs, P) \subseteq Nat
    BY <1>1, PlacesNumbers
  <2>2. P[1] \in DOMAIN gs /\ ~ Bare(gs, P[1]) /\ Key(gs, P) >= EntryKey(gs[P[1]], 0)
    BY FromFirst
  <2>3. EntryKey(gs[P[1]], 0) \in Nat
    BY <1>1, <2>2, FirstPlace
  <2>4. ASSUME P[1] < g PROVE Key(gs, P) < k /\ \A x \in KeysAt(gs, P) : x < k
    <3>1. down \in fits
      <4>1. P[1] \in 1 .. g - 1
        BY <1>8, <2>1, <2>4
      <4>2. QED
        BY <1>11, <2>2, <4>1
    <3>2. <<g, 1, 1>> \in Places(gs) /\ Key(gs, <<g, 1, 1>>) <= k /\ Key(gs, <<g, 1, 1>>) \in Nat
      <4>1. EntryKey(gs[g], 0) <= k
        BY <1>10, <3>1
      <4>2. QED
        BY <1>1, <1>8, <4>1, FirstPlace
    <3>3. Before(P, <<g, 1, 1>>)
      BY <2>4 DEF Before
    <3>4. Key(gs, P) < Key(gs, <<g, 1, 1>>) /\ \A x \in KeysAt(gs, P) : x < Key(gs, <<g, 1, 1>>)
      BY <1>1, <3>2, <3>3 DEF Chain
    <3>5. QED
      BY <1>2, <2>1, <3>2, <3>4
  <2>5. ASSUME P[1] > g PROVE Key(gs, P) > k
    <3>1. SUFFICES ASSUME EntryKey(gs[P[1]], 0) <= k PROVE FALSE
      BY <1>2, <2>1, <2>2, <2>3
    <3>2. g \in 1 .. P[1] - 1
      BY <1>5, <1>8, <2>1, <2>5
    <3>3. P[1] <= r[k]
      BY <1>8, <2>2, <3>1, <3>2 DEF Covers
    <3>4. P[1] \in fits
      BY <1>2, <1>5, <1>8, <2>1, <2>2, <2>5, <3>1, <3>3
    <3>5. P[1] <= down
      BY <1>4, <3>4
    <3>6. QED
      BY <1>5, <1>8, <2>1, <2>5, <3>5
  <2>6. QED
    BY <2>4, <2>5
<1>13. (\A h \in 1 .. g - 1 : Bare(gs, h)) \/ g <= r[k]
  <2>1. CASE down \in fits
    BY <1>2, <1>5, <1>10, <2>1
  <2>2. CASE down \notin fits
    BY <1>11, <2>2
  <2>3. QED
    BY <2>1, <2>2
<1>14. QED
  BY <1>3, <1>8, <1>12, <1>13 DEF OwnsGroup

(* What a tree holds. *)
Holds(gs, S) ==
  \A k \in Keys : k \in S <=> \E P \in Places(gs) : k \in KeysAt(gs, P)

(* The place that a key belongs to is the only one that can hold it. *)
LEMMA OwnerHolds ==
  ASSUME NEW gs, Sound(gs), NEW S, Holds(gs, S), NEW k \in Keys, NEW P, Owns(gs, k, P)
  PROVE  k \in KeysAt(gs, P) <=> k \in S
<1>1. gs \in Tree /\ Floors(gs) /\ P \in Places(gs)
  BY DEF Sound, Owns
<1>2. k \in KeysAt(gs, P) => k \in S
  BY <1>1 DEF Holds
<1>3. ASSUME k \in S PROVE k \in KeysAt(gs, P)
  <2>1. PICK Q \in Places(gs) : k \in KeysAt(gs, Q)
    BY <1>3 DEF Holds
  <2>2. k \in Nat /\ Key(gs, Q) \in Nat /\ k >= Key(gs, Q)
    BY <1>1, <2>1, PlacesNumbers DEF Floors
  <2>3. ~ Before(Q, P) /\ ~ Before(P, Q)
    BY <2>1, <2>2 DEF Owns
  <2>4. Q = P
    <3>1. P \in Int \X Int \X Int /\ Q \in Int \X Int \X Int
      BY <1>1, PlacesNumbers
    <3>2. PICK a \in Int, b \in Int, c \in Int : P = <<a, b, c>>
      BY <3>1
    <3>3. PICK d \in Int, e \in Int, f \in Int : Q = <<d, e, f>>
      BY <3>1
    <3>4. QED
      BY <2>3, <3>2, <3>3 DEF Before
  <2>5. QED
    BY <2>1, <2>4
<1>4. QED
  BY <1>2, <1>3

(* group::Get in the group that a key belongs to. *)
LEMMA GetAgrees ==
  ASSUME NEW gs, Sound(gs), NEW S, Holds(gs, S), NEW k \in Keys, NEW g, OwnsGroup(gs, k, g),
         NEW m \in Predictions(gs[g])
  PROVE  LET b == gs[g].bents[FindEntry(gs[g], m, k) + 1]
         IN  k \in b[FindPos(b, k)].keys <=> k \in S
<1> DEFINE e == FindEntry(gs[g], m, k) + 1
           pos == FindPos(gs[g].bents[e], k)
<1>1. k \in Int
  BY Constants DEF Keys
<1>2. OwnsEntry(gs, k, g, e)
  BY <1>1, EntryOwned
<1>3. Owns(gs, k, <<g, e, pos>>) /\ KeysAt(gs, <<g, e, pos>>) = gs[g].bents[e][pos].keys
  <2> HIDE DEF e
  <2>1. QED
    BY <1>1, <1>2, PlaceOwned
<1> HIDE DEF e, pos
<1>4. k \in KeysAt(gs, <<g, e, pos>>) <=> k \in S
  BY <1>3, OwnerHolds
<1>5. QED
  BY <1>3, <1>4 DEF e, pos

-----------------------------------------------------------------------------
(* A pair put and a pair deleted, on trees with the same places *)

(* A tree whose pointers come from those of a sound one, in the same order, *)
(* with the same keys or fewer, is sound too.                               *)
LEMMA Rebuilt ==
  ASSUME NEW gs, Sound(gs), NEW hs \in Tree, NEW h,
         \A P \in Places(hs) :
           /\ h[P] \in Places(gs)
           /\ KeysAt(hs, P) \subseteq KeysAt(gs, h[P])
           /\ Key(hs, P) = Key(gs, h[P]) \/ Key(hs, P) \in KeysAt(gs, h[P])
           /\ \A x \in KeysAt(hs, P) : x >= Key(hs, P),
         \A P, Q \in Places(hs) : Before(P, Q) =>
           \/ Before(h[P], h[Q])
           \/ Key(hs, P) < Key(hs, Q) /\ \A x \in KeysAt(hs, P) : x < Key(hs, Q)
  PROVE  Sound(hs)
<1>1. gs \in Tree /\ Chain(gs) /\ Floors(gs)
  BY DEF Sound
<1>2. ASSUME NEW P \in Places(hs), NEW Q \in Places(hs), Before(P, Q)
      PROVE  Key(hs, P) < Key(hs, Q) /\ \A x \in KeysAt(hs, P) : x < Key(hs, Q)
  <2>1. CASE Before(h[P], h[Q])
    <3>1. /\ Key(gs, h[P]) < Key(gs, h[Q]) /\ \A x \in KeysAt(gs, h[P]) : x < Key(gs, h[Q])
          /\ \A x \in KeysAt(gs, h[Q]) : x >= Key(gs, h[Q])
      BY <1>1, <2>1 DEF Chain, Floors
    <3>2. Key(hs, P) < Key(gs, h[Q]) /\ \A x \in KeysAt(hs, P) : x < Key(gs, h[Q])
      BY <3>1
    <3>3. Key(gs, h[Q]) <= Key(hs, Q)
      <4>1. Key(gs, h[Q]) \in Nat
        BY <1>1, PlacesNumbers
      <4>2. CASE Key(hs, Q) = Key(gs, h[Q])
        BY <4>1, <4>2
      <4>3. CASE Key(hs, Q) \in KeysAt(gs, h[Q])
        BY <3>1, <4>1, <4>3
      <4>4. QED
        BY <4>2, <4>3
    <3>4. Key(gs, h[Q]) \in Nat /\ Key(hs, Q) \in Nat /\ Key(hs, P) \in Nat /\ KeysAt(hs, P) \subseteq Nat
      BY <1>1, PlacesNumbers
    <3>5. QED
      BY <3>2, <3>3, <3>4
  <2>2. CASE ~ Before(h[P], h[Q])
    BY <1>2, <2>2
  <2>3. QED
    BY <2>1, <2>2
<1>3. QED
  BY <1>2 DEF Sound, Chain, Floors

(* What a tree holds depends on its buckets only. *)
LEMMA StillHolds ==
  ASSUME NEW gs, NEW S, Holds(gs, S), NEW hs,
         \A P \in Places(hs) : \E Q \in Places(gs) : KeysAt(hs, P) \subseteq KeysAt(gs, Q),
         \A Q \in Places(gs) : \A x \in KeysAt(gs, Q) : \E P \in Places(hs) : x \in KeysAt(hs, P)
  PROVE  Holds(hs, S)
BY DEF Holds

(* The pair put, at the place that its key belongs to. *)
LEMMA PairAdded ==
  ASSUME NEW gs, Sound(gs), NEW S, Holds(gs, S), NEW k \in Keys, NEW P, Owns(gs, k, P),
         NEW hs \in Tree, Places(hs) = Places(gs),
         \A Q \in Places(gs) : Q # P =>
           Key(hs, Q) = Key(gs, Q) /\ KeysAt(hs, Q) = KeysAt(gs, Q),
         KeysAt(hs, P) = KeysAt(gs, P) \union {k},
         Key(hs, P) = IF k <= Key(gs, P) THEN k ELSE Key(gs, P)
  PROVE  Sound(hs) /\ Holds(hs, S \union {k})
<1>1. gs \in Tree /\ Chain(gs) /\ Floors(gs) /\ P \in Places(gs) /\ k \in Nat
  BY Constants DEF Sound, Owns, Keys
<1>2. \A Q \in Places(gs) : Key(gs, Q) \in Nat /\ KeysAt(gs, Q) \subseteq Nat
  BY <1>1, PlacesNumbers
<1>3. ASSUME NEW Q \in Places(hs), NEW R \in Places(hs), Before(Q, R)
      PROVE  Key(hs, Q) < Key(hs, R) /\ \A x \in KeysAt(hs, Q) : x < Key(hs, R)
  <2>1. /\ Key(gs, Q) < Key(gs, R) /\ \A x \in KeysAt(gs, Q) : x < Key(gs, R)
        /\ Key(gs, Q) \in Nat /\ Key(gs, R) \in Nat /\ KeysAt(gs, Q) \subseteq Nat
    BY <1>1, <1>2, <1>3 DEF Chain
  <2>2. CASE Q = P
    <3>1. Key(gs, R) > k
      BY <1>3, <2>2 DEF Owns
    <3>2. R # P
      <4>1. P[1] \in Nat /\ P[2] \in Nat /\ P[3] \in Nat
        BY <1>1, PlacesNumbers
      <4>2. QED
        BY <1>3, <2>2, <4>1 DEF Before
    <3>3. Key(hs, R) = Key(gs, R)
      BY <3>2
    <3>4. QED
      BY <1>1, <2>1, <2>2, <3>1, <3>3
  <2>3. CASE Q # P /\ R = P
    <3>1. Key(gs, Q) < k /\ \A x \in KeysAt(gs, Q) : x < k
      BY <1>3, <2>3 DEF Owns
    <3>2. Key(hs, Q) = Key(gs, Q) /\ KeysAt(hs, Q) = KeysAt(gs, Q)
      BY <2>3
    <3>3. Key(hs, R) = k \/ Key(hs, R) = Key(gs, R)
      BY <2>3
    <3>4. QED
      BY <2>1, <3>1, <3>2, <3>3
  <2>4. CASE Q # P /\ R # P
    BY <2>1, <2>4
  <2>5. QED
    BY <2>2, <2>3, <2>4
<1>4. ASSUME NEW Q \in Places(hs) PROVE \A x \in KeysAt(hs, Q) : x >= Key(hs, Q)
  <2>1. \A x \in KeysAt(gs, Q) : x >= Key(gs, Q)
    BY <1>1 DEF Floors
  <2>2. Key(gs, Q) \in Nat /\ KeysAt(gs, Q) \subseteq Nat
    BY <1>2
  <2>3. CASE Q = P
    BY <1>1, <2>1, <2>2, <2>3
  <2>4. CASE Q # P
    BY <2>1, <2>4
  <2>5. QED
    BY <2>3, <2>4
<1>5. Holds(hs, S \union {k})
  <2> SUFFICES ASSUME NEW x \in Keys
               PROVE  x \in S \union {k} <=> \E Q \in Places(hs) : x \in KeysAt(hs, Q)
    BY DEF Holds
  <2>1. x \in S <=> \E Q \in Places(gs) : x \in KeysAt(gs, Q)
    BY DEF Holds
  <2>2. CASE x = k
    BY <1>1, <2>2
  <2>3. CASE x # k
    <3>1. \A Q \in Places(gs) : x \in KeysAt(hs, Q) <=> x \in KeysAt(gs, Q)
      BY <2>3
    <3>2. QED
      BY <2>1, <2>3, <3>1
  <2>4. QED
    BY <2>2, <2>3
<1>6. QED
  BY <1>3, <1>4, <1>5 DEF Sound, Chain, Floors

(* The pair deleted from the place that its key belongs to. *)
LEMMA PairRemoved ==
  ASSUME NEW gs, Sound(gs), NEW S, Holds(gs, S), NEW k \in Keys, NEW P, Owns(gs, k, P),
         NEW hs \in Tree, Places(hs) = Places(gs),
         \A Q \in Places(gs) : Key(hs, Q) = Key(gs, Q),
         \A Q \in Places(gs) : Q # P => KeysAt(hs, Q) = KeysAt(gs, Q),
         KeysAt(hs, P) = KeysAt(gs, P) \ {k}
  PROVE  Sound(hs) /\ Holds(hs, S \ {k})
<1>1. gs \in Tree /\ Floors(gs) /\ P \in Places(gs)
  BY DEF Sound, Owns
<1>2. \A Q \in Places(gs) : KeysAt(hs, Q) \subseteq KeysAt(gs, Q)
  <2> SUFFICES ASSUME NEW Q \in Places(gs) PROVE KeysAt(hs, Q) \subseteq KeysAt(gs, Q)
    OBVIOUS
  <2>1. QED
    BY DEF Owns
<1>3. Sound(hs)
  BY <1>2 DEF Sound, Chain, Floors
<1>4. \A Q \in Places(gs) : k \in KeysAt(gs, Q) => Q = P
  <2> SUFFICES ASSUME NEW Q \in Places(gs), k \in KeysAt(gs, Q) PROVE Q = P
    OBVIOUS
  <2>1. k \in Nat /\ Key(gs, Q) \in Nat /\ k >= Key(gs, Q)
    BY <1>1, PlacesNumbers DEF Floors
  <2>2. ~ Before(Q, P) /\ ~ Before(P, Q)
    BY <2>1 DEF Owns
  <2>3. P \in Int \X Int \X Int /\ Q \in Int \X Int \X Int
    BY <1>1, PlacesNumbers
  <2>4. PICK a \in Int, b \in Int, c \in Int : P = <<a, b, c>>
    BY <2>3
  <2>5. PICK d \in Int, e \in Int, f \in Int : Q = <<d, e, f>>
    BY <2>3
  <2>6. QED
    BY <2>2, <2>4, <2>5 DEF Before
<1>5. Holds(hs, S \ {k})
  <2> SUFFICES ASSUME NEW x \in Keys
               PROVE  x \in S \ {k} <=> \E Q \in Places(hs) : x \in KeysAt(hs, Q)
    BY DEF Holds
  <2>1. x \in S <=> \E Q \in Places(gs) : x \in KeysAt(gs, Q)
    BY DEF Holds
  <2>2. CASE x = k
    BY <1>1, <1>2, <1>4, <2>2
  <2>3. CASE x # k
    <3>1. \A Q \in Places(gs) : x \in KeysAt(hs, Q) <=> x \in KeysAt(gs, Q)
      BY <2>3
    <3>2. QED
      BY <2>1, <2>3, <3>1
  <2>4. QED
    BY <2>2, <2>3
<1>6. QED
  BY <1>3, <1>5

-----------------------------------------------------------------------------
(* One entry of a tree replaced, as the calls do it *)

(* One entry replaced. *)
Replaces(hs, gs, g, e, nb) ==
  /\ DOMAIN hs = DOMAIN gs /\ Len(hs) = Len(gs)
  /\ \A i \in DOMAIN gs :
       /\ hs[i].min_key = gs[i].min_key
       /\ Len(hs[i].bents) = Len(gs[i].bents) /\ DOMAIN hs[i].bents = DOMAIN gs[i].bents
       /\ i # g => hs[i] = gs[i]
       /\ \A j \in DOMAIN gs[i].bents :
            hs[i].bents[j] = IF i = g /\ j = e THEN nb ELSE gs[i].bents[j]

(* A group's entry and count replaced: still a tree, with everything else  *)
(* as it was.                                                              *)
LEMMA Replacing ==
  ASSUME NEW gs \in Tree, NEW g \in DOMAIN gs, NEW e \in DOMAIN gs[g].bents, NEW nb \in Bents,
         NEW c \in Nat
  PROVE  LET ng == [bents |-> [gs[g].bents EXCEPT ![e] = nb], next_entry_count |-> c,
                    min_key |-> gs[g].min_key]
             hs == [gs EXCEPT ![g] = ng]
         IN  /\ hs \in Tree /\ Replaces(hs, gs, g, e, nb)
             /\ hs[g].next_entry_count = c
<1> DEFINE nbs == [gs[g].bents EXCEPT ![e] = nb]
           ng == [bents |-> nbs, next_entry_count |-> c, min_key |-> gs[g].min_key]
           hs == [gs EXCEPT ![g] = ng]
<1>1. Len(gs) \in Nat /\ DOMAIN gs = 1 .. Len(gs) /\ gs[g] \in Group /\ gs \in Seq(Group)
  BY Parts DEF Tree
<1>2. gs[g].bents \in Seq(Bents) /\ gs[g].min_key \in 0 .. MaxKey
      /\ DOMAIN gs[g].bents = 1 .. Len(gs[g].bents)
  BY <1>1, GroupParts
<1>3. /\ nbs \in Seq(Bents) /\ Len(nbs) = Len(gs[g].bents)
      /\ \A j \in DOMAIN gs[g].bents : nbs[j] = IF j = e THEN nb ELSE gs[g].bents[j]
  BY <1>2, ExceptSeq
<1>4. DOMAIN nbs = DOMAIN gs[g].bents
  OBVIOUS
<1> HIDE DEF nbs
<1>5. ng \in Group
  BY <1>2, <1>3 DEF Group
<1>6. /\ hs \in Seq(Group) /\ Len(hs) = Len(gs)
      /\ \A i \in DOMAIN gs : hs[i] = IF i = g THEN ng ELSE gs[i]
  <2> HIDE DEF ng
  <2>1. QED
    BY <1>1, <1>5, ExceptSeq
<1>7. DOMAIN hs = DOMAIN gs
  OBVIOUS
<1> HIDE DEF hs
<1>8. ng.bents = nbs /\ ng.min_key = gs[g].min_key /\ ng.next_entry_count = c
  OBVIOUS
<1> HIDE DEF ng
<1>9. Replaces(hs, gs, g, e, nb)
  BY <1>3, <1>4, <1>6, <1>7, <1>8 DEF Replaces
<1>10. QED
  BY <1>6, <1>8, <1>9 DEF Tree, hs, ng, nbs

(* The forms in which the actions write it. *)
Updates(hs, gs, g, e, nb, c) ==
  hs \in Tree /\ Replaces(hs, gs, g, e, nb) /\ hs[g].next_entry_count = c

(* An entry updated in place. *)
LEMMA ReplacingOne ==
  ASSUME NEW gs \in Tree, NEW g \in DOMAIN gs, NEW e \in DOMAIN gs[g].bents, NEW nb \in Bents
  PROVE  Updates([gs EXCEPT ![g].bents[e] = nb], gs, g, e, nb, gs[g].next_entry_count)
<1>1. gs[g] \in Group
  BY Parts
<1>2. gs[g] = [bents |-> gs[g].bents, next_entry_count |-> gs[g].next_entry_count, min_key |-> gs[g].min_key]
      /\ gs[g].next_entry_count \in Nat
  BY <1>1, GroupParts
<1> DEFINE ng == [bents |-> [gs[g].bents EXCEPT ![e] = nb],
                  next_entry_count |-> gs[g].next_entry_count, min_key |-> gs[g].min_key]
<1>3. [gs[g] EXCEPT !.bents[e] = nb] = ng
  BY <1>2
<1>4. [gs EXCEPT ![g].bents[e] = nb] = [gs EXCEPT ![g] = ng]
  BY <1>3
<1> DEFINE hs == [gs EXCEPT ![g] = ng]
<1>5. hs \in Tree /\ Replaces(hs, gs, g, e, nb) /\ hs[g].next_entry_count = gs[g].next_entry_count
  BY <1>2, Replacing
<1> HIDE DEF hs
<1>6. Updates(hs, gs, g, e, nb, gs[g].next_entry_count)
  BY <1>5 DEF Updates
<1>7. [gs EXCEPT ![g].bents[e] = nb] = hs
  BY <1>4 DEF hs
<1>8. QED
  BY <1>6, <1>7, Zenon

(* Two updates of a group are one after the other. *)
LEMMA TwoUpdatesEntry ==
  ASSUME NEW gs, NEW g \in DOMAIN gs, NEW e, NEW nb, NEW c
  PROVE  [gs EXCEPT ![g].bents[e] = nb, ![g].next_entry_count = c]
           = [[gs EXCEPT ![g].bents[e] = nb] EXCEPT ![g].next_entry_count = c]
OBVIOUS

LEMMA TwoUpdatesGroup ==
  ASSUME NEW gs, NEW g \in DOMAIN gs, NEW nbs, NEW c
  PROVE  [gs EXCEPT ![g].bents = nbs, ![g].next_entry_count = c]
           = [[gs EXCEPT ![g].bents = nbs] EXCEPT ![g].next_entry_count = c]
OBVIOUS

(* An updated group by its fields. *)
LEMMA GroupUpdates ==
  ASSUME NEW r \in Group, NEW bs, NEW c
  PROVE  /\ [r EXCEPT !.bents = bs]
              = [bents |-> bs, next_entry_count |-> r.next_entry_count, min_key |-> r.min_key]
         /\ [r EXCEPT !.next_entry_count = c]
              = [bents |-> r.bents, next_entry_count |-> c, min_key |-> r.min_key]
<1>1. PICK X, Y, Z : r \in [bents : X, next_entry_count : Y, min_key : Z]
  BY DEF Group
<1>2. [r EXCEPT !.bents = bs]
        = [bents |-> bs, next_entry_count |-> r.next_entry_count, min_key |-> r.min_key]
  BY <1>1
<1>3. [r EXCEPT !.next_entry_count = c]
        = [bents |-> r.bents, next_entry_count |-> c, min_key |-> r.min_key]
  BY <1>1
<1>4. QED
  BY <1>2, <1>3

(* An entry updated in place and counted. *)
LEMMA ReplacingCounted ==
  ASSUME NEW gs \in Tree, NEW g \in DOMAIN gs, NEW e \in DOMAIN gs[g].bents, NEW nb \in Bents
  PROVE  Updates([gs EXCEPT ![g].bents[e] = nb, ![g].next_entry_count = @ + 1],
                 gs, g, e, nb, gs[g].next_entry_count + 1)
<1> DEFINE one == [gs EXCEPT ![g].bents[e] = nb]
           bs == [gs[g].bents EXCEPT ![e] = nb]
           c == gs[g].next_entry_count + 1
           two == [one EXCEPT ![g].next_entry_count = c]
           ng == [bents |-> bs, next_entry_count |-> c, min_key |-> gs[g].min_key]
<1>1. [gs EXCEPT ![g].bents[e] = nb, ![g].next_entry_count = @ + 1] = two
  BY TwoUpdatesEntry, Zenon
<1>2. one \in Tree /\ one[g].next_entry_count = gs[g].next_entry_count
  <2>1. Updates(one, gs, g, e, nb, gs[g].next_entry_count)
    BY ReplacingOne, Zenon
  <2> HIDE DEF one
  <2>2. QED
    BY <2>1 DEF Updates
<1>3. one = [gs EXCEPT ![g].bents = bs] /\ one[g].bents = bs /\ one[g].min_key = gs[g].min_key
      /\ DOMAIN one = DOMAIN gs
  <2>1. one[g] = [gs[g] EXCEPT !.bents = bs]
    OBVIOUS
  <2>2. gs[g] \in Group
    BY Parts
  <2>3. one[g] = [bents |-> bs, next_entry_count |-> gs[g].next_entry_count, min_key |-> gs[g].min_key]
    BY <2>1, <2>2, GroupUpdates
  <2>4. QED
    BY <2>3
<1>4. two = [gs EXCEPT ![g] = ng]
  <2>1. one[g] \in Group
    BY <1>2, <1>3, Parts
  <2>2. [one[g] EXCEPT !.next_entry_count = c] = ng
    <3> HIDE DEF one, bs, c
    <3>1. [one[g] EXCEPT !.next_entry_count = c]
            = [bents |-> one[g].bents, next_entry_count |-> c, min_key |-> one[g].min_key]
      BY <2>1, GroupUpdates, Zenon
    <3>2. QED
      BY <1>3, <3>1
  <2>3. two = [one EXCEPT ![g] = [one[g] EXCEPT !.next_entry_count = c]]
    <3> HIDE DEF one, c
    <3>1. QED
      OBVIOUS
  <2>4. two = [one EXCEPT ![g] = ng]
    <3> HIDE DEF one, two, bs, ng
    <3>1. QED
      BY <1>2, <2>2, <2>3
  <2>5. [one EXCEPT ![g] = ng] = [gs EXCEPT ![g] = ng]
    <3> HIDE DEF ng
    <3>1. QED
      BY <1>3
  <2>6. QED
    BY <2>4, <2>5, Zenon
<1>5. c \in Nat
  <2>1. gs[g] \in Group
    BY Parts
  <2>2. gs[g].next_entry_count \in Nat
    BY <2>1, GroupParts
  <2>3. QED
    BY <2>2
<1> HIDE DEF one, two
<1> DEFINE hs == [gs EXCEPT ![g] = ng]
<1>6. hs \in Tree /\ Replaces(hs, gs, g, e, nb) /\ hs[g].next_entry_count = c
  BY <1>5, Replacing
<1>7. two = hs
  BY <1>4
<1> HIDE DEF hs, c
<1>8. Updates(hs, gs, g, e, nb, c)
  BY <1>6 DEF Updates
<1>9. QED
  BY <1>1, <1>7, <1>8, Zenon DEF c

(* A function on 1 .. n is a sequence. *)
LEMMA FunctionSeq ==
  ASSUME NEW n \in Nat, NEW S, NEW f \in [1 .. n -> S]
  PROVE  f \in Seq(S) /\ Len(f) = n
<1>1. f \in Seq(S)
  OBVIOUS
<1>2. Len(f) \in Nat /\ DOMAIN f = 1 .. Len(f) /\ DOMAIN f = 1 .. n
  BY <1>1, LenProperties
<1>3. QED
  BY <1>1, <1>2

(* The places of a tree after one entry is replaced. *)
LEMMA ReplacedPlaces ==
  ASSUME NEW gs \in Tree, NEW hs \in Tree, NEW g \in DOMAIN gs, NEW e \in DOMAIN gs[g].bents,
         NEW nb \in Bents, Replaces(hs, gs, g, e, nb)
  PROVE  /\ \A P \in Places(gs) : ~ (P[1] = g /\ P[2] = e) =>
              P \in Places(hs) /\ Key(hs, P) = Key(gs, P) /\ KeysAt(hs, P) = KeysAt(gs, P)
         /\ \A P \in Places(hs) : ~ (P[1] = g /\ P[2] = e) => P \in Places(gs)
         /\ \A p \in DOMAIN nb :
              <<g, e, p>> \in Places(hs) /\ Key(hs, <<g, e, p>>) = nb[p].key
                /\ KeysAt(hs, <<g, e, p>>) = nb[p].keys
         /\ \A P \in Places(hs) : P[1] = g /\ P[2] = e => P[3] \in DOMAIN nb
         /\ \A i \in DOMAIN gs : Bare(hs, i) <=> Bare(gs, i)
<1>1. ASSUME NEW P \in Places(gs), ~ (P[1] = g /\ P[2] = e)
      PROVE  P \in Places(hs) /\ Key(hs, P) = Key(gs, P) /\ KeysAt(hs, P) = KeysAt(gs, P)
  <2>1. /\ P[1] \in DOMAIN gs /\ P[2] \in DOMAIN gs[P[1]].bents
        /\ P[3] \in DOMAIN gs[P[1]].bents[P[2]] /\ P = <<P[1], P[2], P[3]>>
    BY PlacesAre
  <2>2. P[1] \in DOMAIN hs /\ P[2] \in DOMAIN hs[P[1]].bents
        /\ hs[P[1]].bents[P[2]] = gs[P[1]].bents[P[2]]
    BY <1>1, <2>1 DEF Replaces
  <2>3. P \in Places(hs)
    BY <2>1, <2>2, PlacesAre
  <2>4. PointerAt(hs, P) = PointerAt(gs, P)
    BY <2>2 DEF PointerAt
  <2>5. QED
    BY <2>3, <2>4 DEF Key, KeysAt
<1>2. ASSUME NEW P \in Places(hs), ~ (P[1] = g /\ P[2] = e) PROVE P \in Places(gs)
  <2>1. /\ P[1] \in DOMAIN hs /\ P[2] \in DOMAIN hs[P[1]].bents
        /\ P[3] \in DOMAIN hs[P[1]].bents[P[2]] /\ P = <<P[1], P[2], P[3]>>
    BY PlacesAre
  <2>2. P[1] \in DOMAIN gs /\ P[2] \in DOMAIN gs[P[1]].bents
        /\ hs[P[1]].bents[P[2]] = gs[P[1]].bents[P[2]]
    BY <1>2, <2>1 DEF Replaces
  <2>3. QED
    BY <2>1, <2>2, PlacesAre
<1>3. g \in DOMAIN hs /\ e \in DOMAIN hs[g].bents /\ hs[g].bents[e] = nb
  BY DEF Replaces
<1>4. \A p \in DOMAIN nb :
        <<g, e, p>> \in Places(hs) /\ Key(hs, <<g, e, p>>) = nb[p].key
          /\ KeysAt(hs, <<g, e, p>>) = nb[p].keys
  BY <1>3, PlacesAre DEF Key, KeysAt
<1>5. \A P \in Places(hs) : P[1] = g /\ P[2] = e => P[3] \in DOMAIN nb
  BY <1>3, PlacesAre
<1>6. ASSUME NEW i \in DOMAIN gs PROVE Bare(hs, i) <=> Bare(gs, i)
  <2>1. i \in DOMAIN hs /\ gs[i] \in Group /\ hs[i] \in Group
    BY Parts DEF Replaces
  <2>2. gs[i].bents \in Seq(Bents) /\ hs[i].bents \in Seq(Bents) /\ DOMAIN gs[i].bents = DOMAIN hs[i].bents
    BY <2>1, GroupParts DEF Replaces
  <2>3. \A s \in Seq(Bents) : s = <<>> <=> DOMAIN s = {}
    <3> SUFFICES ASSUME NEW s \in Seq(Bents) PROVE s = <<>> <=> DOMAIN s = {}
      OBVIOUS
    <3>1. Len(s) \in Nat /\ DOMAIN s = 1 .. Len(s)
      BY LenProperties
    <3>2. s # <<>> => Len(s) # 0
      BY EmptySeq
    <3>3. s # <<>> => 1 \in DOMAIN s
      BY <3>1, <3>2
    <3>4. QED
      BY <3>3
  <2>4. QED
    BY <2>2, <2>3 DEF Bare
<1>7. QED
  BY <1>1, <1>2, <1>4, <1>5, <1>6

(* A bent with the pair put into the bucket that the key belongs to. *)
LEMMA Inserted ==
  ASSUME NEW b \in Bents, NEW k \in Keys, NEW pos \in DOMAIN b, pos = FindPos(b, k),
         pos = 1 \/ (b[1].key <= k /\ b[pos].key <= k), Cardinality(b[pos].keys) < MaxEntries
  PROVE  LET nb == Insert(b, k)
         IN  /\ nb \in Bents /\ DOMAIN nb = DOMAIN b /\ Len(nb) = Len(b)
             /\ \A p \in DOMAIN b : p # pos => nb[p].key = b[p].key /\ nb[p].keys = b[p].keys
             /\ nb[pos].keys = b[pos].keys \union {k}
             /\ nb[pos].key = IF k <= b[pos].key THEN k ELSE b[pos].key
<1> DEFINE nb == Insert(b, k)
<1>1. /\ Len(b) \in Nat /\ Len(b) >= 1 /\ Len(b) <= EntryCount /\ DOMAIN b = 1 .. Len(b)
      /\ \A p \in DOMAIN b : b[p] \in Pointer /\ b[p].key \in 0 .. MaxKey /\ b[p].key \in Nat
  BY BentParts
<1>2. k \in Nat /\ k >= 1 /\ k <= MaxKey /\ k \in 0 .. MaxKey /\ MaxKey \in Nat /\ MaxEntries \in Nat
  BY Constants DEF Keys
<1>3. Min({k, b[1].key}) = IF k <= b[1].key THEN k ELSE b[1].key
  BY <1>1, <1>2, MinTwo
<1>4. DOMAIN nb = DOMAIN b
  BY DEF Insert
<1>5. \A p \in DOMAIN b :
        /\ nb[p].key = IF p = 1 THEN Min({k, b[1].key}) ELSE b[p].key
        /\ nb[p].keys = IF p = pos THEN b[p].keys \union {k} ELSE b[p].keys
        /\ nb[p] = [key |-> nb[p].key,
                    keys |-> IF p = pos THEN b[p].keys \union {k} ELSE b[p].keys,
                    holes |-> IF p = pos THEN Kept(b[p]) ELSE b[p].holes,
                    prefix |-> b[p].prefix]
  BY DEF Insert, Stored
<1> HIDE DEF nb
<1>6. ASSUME NEW p \in DOMAIN b PROVE nb[p] \in Pointer
  <2>1. nb[p].key \in 0 .. MaxKey
    <3>1. 1 \in DOMAIN b
      BY <1>1
    <3>2. Min({k, b[1].key}) \in 0 .. MaxKey
      BY <1>1, <1>2, <1>3, <3>1
    <3>3. QED
      BY <1>1, <1>5, <3>2
  <2>2. b[p] \in Pointer
    BY <1>1
  <2>3. CASE p = pos
    <3>1. nb[p] = [key |-> nb[p].key, keys |-> b[p].keys \union {k}, holes |-> Kept(b[p]),
                   prefix |-> b[p].prefix]
      BY <1>5, <2>3
    <3>2. Cardinality(b[p].keys) < MaxEntries
      BY <2>3
    <3>3. [key |-> nb[p].key, keys |-> b[p].keys \union {k}, holes |-> Kept(b[p]),
           prefix |-> b[p].prefix] \in Pointer
      BY <2>1, <2>2, <3>2, StoredIs
    <3>4. QED
      BY <3>1, <3>3, Zenon
  <2>4. CASE p # pos
    <3>1. nb[p] = [key |-> nb[p].key, keys |-> b[p].keys, holes |-> b[p].holes,
                   prefix |-> b[p].prefix]
      BY <1>5, <2>4
    <3>2. [key |-> nb[p].key, keys |-> b[p].keys, holes |-> b[p].holes,
           prefix |-> b[p].prefix] \in Pointer
      BY <2>1, <2>2, PointerParts, PointerMade
    <3>3. QED
      BY <3>1, <3>2, Zenon
  <2>5. QED
    BY <2>3, <2>4
<1>7. nb \in Seq(Pointer) /\ Len(nb) = Len(b)
  <2>1. nb = [p \in DOMAIN b |-> nb[p]]
    BY DEF nb, Insert
  <2>2. nb \in [1 .. Len(b) -> Pointer]
    BY <1>1, <1>6, <2>1
  <2>3. QED
    BY <1>1, <2>2, FunctionSeq
<1>8. nb \in Bents
  BY <1>1, <1>7, Constants DEF Bents
<1>9. \A p \in DOMAIN b : p # pos => nb[p].key = b[p].key /\ nb[p].keys = b[p].keys
  <2> SUFFICES ASSUME NEW p \in DOMAIN b, p # pos
               PROVE  nb[p].key = b[p].key /\ nb[p].keys = b[p].keys
    OBVIOUS
  <2>1. CASE p = 1
    <3>1. b[1].key <= k
      BY <2>1
    <3>2. IF k <= b[1].key THEN k = b[1].key ELSE TRUE
      BY <1>1, <1>2, <2>1, <3>1
    <3>3. nb[1].key = b[1].key
      <4>1. nb[1].key = IF k <= b[1].key THEN k ELSE b[1].key
        BY <1>3, <1>5, <2>1
      <4>2. QED
        BY <3>2, <4>1
    <3>4. nb[p].keys = b[p].keys
      BY <1>5
    <3>5. QED
      BY <2>1, <3>3, <3>4
  <2>2. CASE p # 1
    BY <1>5, <2>2
  <2>3. QED
    BY <2>1, <2>2
<1>10. nb[pos].key = IF k <= b[pos].key THEN k ELSE b[pos].key
  <2>1. CASE pos = 1
    BY <1>3, <1>5, <2>1
  <2>2. CASE pos # 1
    <3>1. nb[pos].key = b[pos].key /\ b[pos].key <= k
      <4>1. nb[pos].key = b[pos].key
        BY <1>5, <2>2
      <4>2. b[pos].key <= k
        BY <2>2
      <4>3. QED
        BY <4>1, <4>2
    <3>2. b[pos].key \in Nat /\ (k <= b[pos].key => k = b[pos].key)
      BY <1>1, <1>2, <3>1
    <3>3. QED
      BY <3>1, <3>2
  <2>3. QED
    BY <2>1, <2>2
<1>11. QED
  BY <1>4, <1>5, <1>7, <1>8, <1>9, <1>10 DEF nb

-----------------------------------------------------------------------------
(* A full bucket split *)

(* A sorted sequence of numbers. *)
LEMMA OrderedIs ==
  ASSUME NEW ks \in SUBSET Int, IsFiniteSet(ks)
  PROVE  LET s == Ordered(ks)
         IN  /\ Cardinality(ks) \in Nat /\ DOMAIN s = 1 .. Cardinality(ks)
             /\ \A n \in DOMAIN s : s[n] \in ks
             /\ \A m, n \in DOMAIN s : m < n => s[m] < s[n]
             /\ \A x \in ks : \E n \in DOMAIN s : s[n] = x
<1> DEFINE before == {d \in ks \X ks : d[1] < d[2]}
           s == Listed(ks, before)
<1>1. \A x, y \in ks : <<x, y>> \in before <=> x < y
  OBVIOUS
<1> HIDE DEF before
<1>2. Orders(before, ks)
  BY <1>1 DEF Orders
<1> HIDE DEF s
<1>3. Cardinality(ks) \in Nat /\ Lists(s, ks, before)
  BY <1>2, Listing DEF s
<1>4. s = Ordered(ks)
  BY DEF s, before, Ordered
<1>5. /\ DOMAIN s = 1 .. Cardinality(ks)
      /\ \A n \in DOMAIN s : s[n] \in ks
      /\ \A m, n \in DOMAIN s : m < n => s[m] < s[n]
      /\ \A x \in ks : \E n \in DOMAIN s : s[n] = x
  BY <1>1, <1>3 DEF Lists
<1>6. QED
  BY <1>3, <1>4, <1>5

(* The halves of a full bucket have room. *)
LEMMA HalvesAre ==
  ASSUME NEW x \in Pointer, Cardinality(x.keys) >= MaxEntries,
         \A y \in x.keys : y >= x.key
  PROVE  \E split_key \in x.keys :
           /\ split_key > x.key
           /\ Halves(x) = <<[key |-> x.key, keys |-> {y \in x.keys : y < split_key},
                             holes |-> x.holes, prefix |-> x.prefix],
                            [key |-> split_key, keys |-> {y \in x.keys : y >= split_key},
                             holes |-> {}, prefix |-> 0]>>
           /\ \A h \in {1, 2} : Halves(x)[h] \in Pointer
           /\ Cardinality({y \in x.keys : y < split_key}) < MaxEntries
           /\ Cardinality({y \in x.keys : y >= split_key}) < MaxEntries
<1> DEFINE ks == x.keys
           n == Cardinality(ks)
           s == Ordered(ks)
           split_key == s[n \div 2 + 1]
<1>1. x.key \in Nat /\ ks \in SUBSET Keys /\ n <= MaxEntries /\ MaxEntries \in Nat /\ MaxEntries >= 2
  BY Constants, PointerParts DEF Buckets
<1>2. ks \in SUBSET Int /\ ks \in SUBSET Nat /\ IsFiniteSet(ks) /\ n \in Nat
  BY <1>1, KeysFinite, Constants DEF Keys
<1>3. /\ DOMAIN s = 1 .. n
      /\ \A i \in DOMAIN s : s[i] \in ks
      /\ \A i, j \in DOMAIN s : i < j => s[i] < s[j]
  BY <1>2, OrderedIs
<1>4. n \in Nat /\ n >= 2 /\ n = MaxEntries
  BY <1>1, <1>2
<1> HIDE DEF n, s
<1>5. n \div 2 + 1 \in 1 .. n /\ 1 \in 1 .. n /\ 1 < n \div 2 + 1
  BY <1>4
<1>6. split_key \in ks /\ s[1] \in ks /\ s[1] < split_key
  BY <1>3, <1>5
<1>7. split_key \in Nat /\ s[1] \in Nat /\ s[1] >= x.key /\ split_key > x.key
  BY <1>1, <1>2, <1>6
<1> DEFINE lo == {y \in ks : y < split_key}
           hi == {y \in ks : y >= split_key}
<1>8. Halves(x) = <<[key |-> x.key, keys |-> lo, holes |-> x.holes, prefix |-> x.prefix],
                     [key |-> split_key, keys |-> hi, holes |-> {}, prefix |-> 0]>>
  BY DEF Halves, n, s
<1> HIDE DEF split_key
<1>9. lo \in SUBSET (ks \ {split_key}) /\ hi \in SUBSET (ks \ {s[1]})
  BY <1>6, <1>7
<1>10. lo \in SUBSET Keys /\ hi \in SUBSET Keys
  BY <1>1
<1> HIDE DEF lo, hi, ks
<1>11. Cardinality(lo) \in Nat /\ Cardinality(hi) \in Nat
  BY <1>10, KeysFinite
<1>12. /\ IsFiniteSet(ks \ {split_key}) /\ Cardinality(ks \ {split_key}) = n - 1
       /\ IsFiniteSet(ks \ {s[1]}) /\ Cardinality(ks \ {s[1]}) = n - 1
  <2>1. n = Cardinality(ks)
    BY DEF n, ks
  <2>2. IsFiniteSet(ks) /\ split_key \in ks /\ s[1] \in ks
    BY <1>2, <1>6 DEF ks
  <2>3. IsFiniteSet(ks \ {split_key}) /\ Cardinality(ks \ {split_key}) = n - 1
    BY <2>1, <2>2, FS_RemoveElement
  <2>4. IsFiniteSet(ks \ {s[1]}) /\ Cardinality(ks \ {s[1]}) = n - 1
    BY <2>1, <2>2, FS_RemoveElement
  <2>5. QED
    BY <2>3, <2>4
<1>13. Cardinality(lo) <= n - 1 /\ Cardinality(hi) <= n - 1
  <2>1. Cardinality(lo) <= Cardinality(ks \ {split_key})
    BY <1>9, <1>12, FS_Subset
  <2>2. Cardinality(hi) <= Cardinality(ks \ {s[1]})
    BY <1>9, <1>12, FS_Subset
  <2>3. QED
    BY <1>12, <2>1, <2>2
<1>14. Cardinality(lo) < MaxEntries /\ Cardinality(hi) < MaxEntries
  BY <1>4, <1>11, <1>13
<1>15. \A h \in {1, 2} : Halves(x)[h] \in Pointer
  <2>1. /\ x.key \in 0 .. MaxKey /\ x.holes \in SUBSET Keys /\ x.prefix \in {0, InitPrefix}
        /\ Cardinality(x.holes) \in Nat /\ n + Cardinality(x.holes) <= MaxEntries
    BY PointerParts DEF n, ks
  <2>2. Cardinality(lo) + Cardinality(x.holes) <= MaxEntries
    BY <1>4, <1>11, <1>13, <2>1
  <2>3. Cardinality(hi) + Cardinality({}) <= MaxEntries
    <3>1. Cardinality({}) = 0
      BY FS_EmptySet
    <3>2. QED
      BY <1>1, <1>11, <1>14, <3>1
  <2>4. split_key \in 0 .. MaxKey
    BY <1>1, <1>6, Constants DEF Keys, ks
  <2>5. [key |-> x.key, keys |-> lo, holes |-> x.holes, prefix |-> x.prefix] \in Pointer
    BY <1>10, <2>1, <2>2, PointerMade
  <2>6. [key |-> split_key, keys |-> hi, holes |-> {}, prefix |-> 0] \in Pointer
    BY <1>10, <2>3, <2>4, PointerMade
  <2>7. QED
    BY <1>8, <2>5, <2>6
<1>16. QED
  BY <1>6, <1>7, <1>8, <1>14, <1>15 DEF lo, hi, ks

(* An entry with one of its full buckets split. *)
SplitOf(nb, b, pos, split_key) ==
  /\ DOMAIN nb = 1 .. Len(b) + 1
  /\ \A p \in DOMAIN nb :
       /\ p < pos => nb[p] = b[p]
       /\ p > pos + 1 => nb[p] = b[p - 1]
  /\ split_key \in b[pos].keys /\ split_key > b[pos].key
  /\ nb[pos].key = b[pos].key /\ nb[pos].keys = {y \in b[pos].keys : y < split_key}
  /\ nb[pos + 1].key = split_key /\ nb[pos + 1].keys = {y \in b[pos].keys : y >= split_key}
  /\ Cardinality(nb[pos].keys) < MaxEntries /\ Cardinality(nb[pos + 1].keys) < MaxEntries

(* SplitAt yields an entry with one pointer more. *)
LEMMA SplitIs ==
  ASSUME NEW b \in Bents, Len(b) < EntryCount, NEW pos \in DOMAIN b,
         Cardinality(b[pos].keys) >= MaxEntries, \A y \in b[pos].keys : y >= b[pos].key
  PROVE  /\ SplitAt(b, pos) \in Bents /\ Len(SplitAt(b, pos)) = Len(b) + 1
         /\ \E split_key \in b[pos].keys : SplitOf(SplitAt(b, pos), b, pos, split_key)
<1> DEFINE nb == SplitAt(b, pos)
<1>1. Len(b) \in Nat /\ DOMAIN b = 1 .. Len(b) /\ Len(b) >= 1 /\ EntryCount \in Nat
      /\ pos \in 1 .. Len(b) /\ pos \in Nat
  BY BentParts, Constants
<1>2. \A p \in DOMAIN b : b[p] \in Pointer
  <2>1. b \in Seq(Pointer)
    BY DEF Bents
  <2>2. QED
    BY <2>1, LenProperties
<1>3. PICK split_key \in b[pos].keys :
        /\ split_key > b[pos].key
        /\ Halves(b[pos]) = <<[key |-> b[pos].key, keys |-> {y \in b[pos].keys : y < split_key},
                               holes |-> b[pos].holes, prefix |-> b[pos].prefix],
                              [key |-> split_key, keys |-> {y \in b[pos].keys : y >= split_key},
                               holes |-> {}, prefix |-> 0]>>
        /\ \A h \in {1, 2} : Halves(b[pos])[h] \in Pointer
        /\ Cardinality({y \in b[pos].keys : y < split_key}) < MaxEntries
        /\ Cardinality({y \in b[pos].keys : y >= split_key}) < MaxEntries
  BY <1>2, HalvesAre
<1> DEFINE left  == [key |-> b[pos].key, keys |-> {y \in b[pos].keys : y < split_key},
                     holes |-> b[pos].holes, prefix |-> b[pos].prefix]
           right == [key |-> split_key, keys |-> {y \in b[pos].keys : y >= split_key},
                     holes |-> {}, prefix |-> 0]
<1>4. \A p \in 1 .. Len(b) + 1 :
        nb[p] = IF p < pos THEN b[p] ELSE IF p > pos + 1 THEN b[p - 1]
                ELSE Halves(b[pos])[p - pos + 1]
  BY DEF SplitAt
<1>5. DOMAIN nb = 1 .. Len(b) + 1
  BY DEF SplitAt
<1>6. nb = [p \in 1 .. Len(b) + 1 |-> nb[p]]
  BY DEF SplitAt
<1> HIDE DEF nb
<1>7. Halves(b[pos])[1] = left /\ Halves(b[pos])[2] = right
  BY <1>3
<1>8. nb[pos] = left /\ nb[pos + 1] = right
  <2>1. pos \in 1 .. Len(b) + 1 /\ ~ (pos < pos) /\ ~ (pos > pos + 1) /\ pos - pos + 1 = 1
    BY <1>1
  <2>2. pos + 1 \in 1 .. Len(b) + 1 /\ ~ (pos + 1 < pos) /\ ~ (pos + 1 > pos + 1)
        /\ pos + 1 - pos + 1 = 2
    BY <1>1
  <2> DEFINE hs == Halves(b[pos])
  <2> HIDE DEF hs
  <2>3. nb[pos] = hs[1]
    <3>1. nb[pos] = hs[pos - pos + 1]
      BY <1>4, <2>1 DEF hs
    <3>2. QED
      BY <2>1, <3>1
  <2>4. nb[pos + 1] = hs[2]
    <3>1. nb[pos + 1] = hs[pos + 1 - pos + 1]
      BY <1>4, <2>2 DEF hs
    <3>2. QED
      BY <2>2, <3>1
  <2>5. QED
    BY <1>7, <2>3, <2>4 DEF hs
<1>9. left \in Pointer /\ right \in Pointer
  <2>1. Halves(b[pos])[1] \in Pointer /\ Halves(b[pos])[2] \in Pointer
    BY <1>3
  <2>2. QED
    BY <1>7, <2>1, Zenon
<1>10. \A p \in 1 .. Len(b) + 1 : (p < pos => nb[p] = b[p]) /\ (p > pos + 1 => nb[p] = b[p - 1])
  BY <1>1, <1>4
<1>11. ASSUME NEW p \in 1 .. Len(b) + 1 PROVE nb[p] \in Pointer
  <2>1. p < pos => p \in DOMAIN b
    BY <1>1
  <2>2. p > pos + 1 => p - 1 \in DOMAIN b
    BY <1>1
  <2>3. p < pos \/ p > pos + 1 \/ p = pos \/ p = pos + 1
    BY <1>1
  <2> HIDE DEF left, right
  <2>4. QED
    BY <1>2, <1>8, <1>9, <1>10, <2>1, <2>2, <2>3
<1>12. nb \in Bents /\ Len(nb) = Len(b) + 1
  <2>1. nb \in [1 .. Len(b) + 1 -> Pointer] /\ Len(b) + 1 \in Nat
    <3>1. QED
      BY <1>1, <1>6, <1>11
  <2>2. nb \in Seq(Pointer) /\ Len(nb) = Len(b) + 1
    <3>1. QED
      BY <2>1, FunctionSeq
  <2>3. Len(b) + 1 \in 1 .. EntryCount
    BY <1>1
  <2>4. QED
    BY <2>2, <2>3 DEF Bents
<1>13. SplitOf(nb, b, pos, split_key)
  BY <1>3, <1>5, <1>8, <1>10 DEF SplitOf
<1>14. QED
  BY <1>12, <1>13 DEF nb

(* The root model does not descend. *)
Monotone(r) == \A j, k \in Keys : j <= k => r[j] <= r[k]

(* The entry after the pair went to the bucket that the key belongs to. *)
LEMMA InsertedBent ==
  ASSUME NEW gs, Sound(gs), NEW k \in Keys, NEW g, NEW e,
         OwnsEntry(gs, k, g, e), ~ FullBucket(gs[g].bents[e], k)
  PROVE  LET b == gs[g].bents[e]
             nb == Insert(b, k)
             pos == FindPos(b, k)
         IN  /\ nb \in Bents /\ DOMAIN nb = DOMAIN b /\ Len(nb) = Len(b)
             /\ \A p \in DOMAIN b : p # pos => nb[p].key = b[p].key /\ nb[p].keys = b[p].keys
             /\ nb[pos].keys = b[pos].keys \union {k}
             /\ nb[pos].key = IF k <= b[pos].key THEN k ELSE b[pos].key
<1> DEFINE b == gs[g].bents[e]
           nb == Insert(b, k)
           pos == FindPos(b, k)
           P == <<g, e, pos>>
<1>1. gs \in Tree /\ Chain(gs) /\ Floors(gs) /\ g \in DOMAIN gs /\ e \in DOMAIN gs[g].bents
  BY DEF Sound, OwnsGroup, OwnsEntry
<1>2. k \in Int /\ k \in Nat
  BY Constants DEF Keys
<1>3. Owns(gs, k, P) /\ pos \in DOMAIN b /\ (pos = 1 \/ Key(gs, P) <= k)
      /\ KeysAt(gs, P) = b[pos].keys
  BY <1>2, PlaceOwned
<1>4. /\ g \in Nat /\ e \in Nat /\ e >= 1 /\ b \in Bents
      /\ DOMAIN b = 1 .. Len(b) /\ Len(b) \in Nat /\ 1 \in DOMAIN b
  <2>1. gs[g] \in Group /\ g \in Nat
    BY <1>1, Parts
  <2>2. b \in Bents /\ e \in Nat /\ e >= 1
    BY <1>1, <2>1, GroupParts
  <2>3. QED
    BY <2>1, <2>2, BentParts
<1>5. \A p \in DOMAIN b : <<g, e, p>> \in Places(gs) /\ Key(gs, <<g, e, p>>) = b[p].key
                          /\ KeysAt(gs, <<g, e, p>>) = b[p].keys /\ b[p].key \in Nat
  BY <1>1, <1>4, PlacesAre, BentParts DEF Key, KeysAt
<1>6. Cardinality(b[pos].keys) < MaxEntries
  <2>1. b[pos].keys \in Buckets /\ b[pos].keys \subseteq Keys
    BY <1>3, <1>4, BentParts
  <2>2. Cardinality(b[pos].keys) \in Nat
    BY <2>1, KeysFinite
  <2>3. ~ (Cardinality(b[pos].keys) >= MaxEntries)
    BY DEF FullBucket
  <2>4. QED
    BY <2>2, <2>3, Constants
<1> HIDE DEF pos, b
<1>7. pos = 1 \/ (b[1].key <= k /\ b[pos].key <= k)
  <2>1. SUFFICES ASSUME pos # 1 PROVE b[1].key <= k /\ b[pos].key <= k
    OBVIOUS
  <2>2. b[pos].key <= k
    BY <1>3, <1>5, <2>1
  <2>3. Before(<<g, e, 1>>, P)
    <3>1. 1 < pos
      BY <1>3, <1>4, <2>1
    <3>2. QED
      BY <3>1 DEF Before
  <2>4. b[1].key < b[pos].key
    BY <1>1, <1>3, <1>4, <1>5, <2>3 DEF Chain
  <2>5. b[1].key \in Nat /\ b[pos].key \in Nat
    BY <1>3, <1>4, <1>5
  <2>6. QED
    BY <1>2, <2>2, <2>4, <2>5
<1>8. /\ nb \in Bents /\ DOMAIN nb = DOMAIN b /\ Len(nb) = Len(b)
      /\ \A p \in DOMAIN b : p # pos => nb[p].key = b[p].key /\ nb[p].keys = b[p].keys
      /\ nb[pos].keys = b[pos].keys \union {k}
      /\ nb[pos].key = IF k <= b[pos].key THEN k ELSE b[pos].key
  BY <1>3, <1>4, <1>6, <1>7, Inserted DEF pos
<1>9. QED
  BY <1>8 DEF pos, b

(* Only the group that the pair went to may begin with a lower key, its own. *)
Lowered(hs, gs, k, g) ==
  \A i \in DOMAIN gs : ~ Bare(gs, i) =>
    \/ EntryKey(hs[i], 0) = EntryKey(gs[i], 0)
    \/ i = g /\ EntryKey(hs[i], 0) = k

(* The tree after the pair went to its bucket. *)
LEMMA PairPut ==
  ASSUME NEW gs, Sound(gs), NEW S, Holds(gs, S), NEW k \in Keys, NEW g, NEW e,
         OwnsEntry(gs, k, g, e), ~ FullBucket(gs[g].bents[e], k),
         NEW hs \in Tree, Replaces(hs, gs, g, e, Insert(gs[g].bents[e], k))
  PROVE  /\ Sound(hs) /\ Holds(hs, S \union {k})
         /\ Insert(gs[g].bents[e], k) \in Bents
         /\ Len(Insert(gs[g].bents[e], k)) = Len(gs[g].bents[e])
         /\ \A i \in DOMAIN gs : Bare(hs, i) <=> Bare(gs, i)
         /\ Lowered(hs, gs, k, g)
<1> DEFINE b == gs[g].bents[e]
           nb == Insert(b, k)
           pos == FindPos(b, k)
           P == <<g, e, pos>>
<1>1. gs \in Tree /\ Chain(gs) /\ Floors(gs) /\ g \in DOMAIN gs /\ e \in DOMAIN gs[g].bents
  BY DEF Sound, OwnsGroup, OwnsEntry
<1>2. k \in Int /\ k \in Nat
  BY Constants DEF Keys
<1>3. Owns(gs, k, P) /\ pos \in DOMAIN b /\ (pos = 1 \/ Key(gs, P) <= k)
      /\ KeysAt(gs, P) = b[pos].keys
  BY <1>2, PlaceOwned
<1>4. /\ g \in Nat /\ e \in Nat /\ e >= 1 /\ b \in Bents
      /\ DOMAIN b = 1 .. Len(b) /\ Len(b) \in Nat /\ 1 \in DOMAIN b
  <2>1. gs[g] \in Group /\ g \in Nat
    BY <1>1, Parts
  <2>2. b \in Bents /\ e \in Nat /\ e >= 1
    BY <1>1, <2>1, GroupParts
  <2>3. QED
    BY <2>1, <2>2, BentParts
<1>5. \A p \in DOMAIN b : <<g, e, p>> \in Places(gs) /\ Key(gs, <<g, e, p>>) = b[p].key
                          /\ KeysAt(gs, <<g, e, p>>) = b[p].keys /\ b[p].key \in Nat
  BY <1>1, <1>4, PlacesAre, BentParts DEF Key, KeysAt
<1>6. /\ nb \in Bents /\ DOMAIN nb = DOMAIN b /\ Len(nb) = Len(b)
      /\ \A p \in DOMAIN b : p # pos => nb[p].key = b[p].key /\ nb[p].keys = b[p].keys
      /\ nb[pos].keys = b[pos].keys \union {k}
      /\ nb[pos].key = IF k <= b[pos].key THEN k ELSE b[pos].key
  BY InsertedBent
<1> HIDE DEF pos, b
<1>7. Replaces(hs, gs, g, e, nb)
  BY DEF b
<1> HIDE DEF nb
<1>8. /\ \A Q \in Places(gs) : ~ (Q[1] = g /\ Q[2] = e) =>
           Q \in Places(hs) /\ Key(hs, Q) = Key(gs, Q) /\ KeysAt(hs, Q) = KeysAt(gs, Q)
      /\ \A Q \in Places(hs) : ~ (Q[1] = g /\ Q[2] = e) => Q \in Places(gs)
      /\ \A p \in DOMAIN nb :
           <<g, e, p>> \in Places(hs) /\ Key(hs, <<g, e, p>>) = nb[p].key
             /\ KeysAt(hs, <<g, e, p>>) = nb[p].keys
      /\ \A Q \in Places(hs) : Q[1] = g /\ Q[2] = e => Q[3] \in DOMAIN nb
      /\ \A i \in DOMAIN gs : Bare(hs, i) <=> Bare(gs, i)
  BY <1>1, <1>6, <1>7, ReplacedPlaces
<1>9. \A Q \in Places(gs) \union Places(hs) : Q[1] = g /\ Q[2] = e =>
        Q = <<g, e, Q[3]>> /\ Q[3] \in DOMAIN b
  <2>1. \A Q \in Places(gs) \union Places(hs) : Q = <<Q[1], Q[2], Q[3]>>
    BY PlacesAre
  <2>2. \A Q \in Places(gs) : Q[1] = g /\ Q[2] = e => Q[3] \in DOMAIN b
    BY PlacesAre DEF b
  <2>3. \A Q \in Places(hs) : Q[1] = g /\ Q[2] = e => Q[3] \in DOMAIN b
    BY <1>6, <1>8
  <2>4. QED
    BY <2>1, <2>2, <2>3
<1>10. Places(hs) = Places(gs)
  <2>1. ASSUME NEW Q \in Places(hs) PROVE Q \in Places(gs)
    <3>1. CASE Q[1] = g /\ Q[2] = e
      BY <1>5, <1>9, <3>1
    <3>2. CASE ~ (Q[1] = g /\ Q[2] = e)
      BY <1>8, <3>2
    <3>3. QED
      BY <3>1, <3>2
  <2>2. ASSUME NEW Q \in Places(gs) PROVE Q \in Places(hs)
    <3>1. CASE Q[1] = g /\ Q[2] = e
      BY <1>6, <1>8, <1>9, <3>1
    <3>2. CASE ~ (Q[1] = g /\ Q[2] = e)
      BY <1>8, <3>2
    <3>3. QED
      BY <3>1, <3>2
  <2>3. QED
    BY <2>1, <2>2
<1>11. \A Q \in Places(gs) : Q # P =>
         Key(hs, Q) = Key(gs, Q) /\ KeysAt(hs, Q) = KeysAt(gs, Q)
  <2> SUFFICES ASSUME NEW Q \in Places(gs), Q # P
               PROVE  Key(hs, Q) = Key(gs, Q) /\ KeysAt(hs, Q) = KeysAt(gs, Q)
    OBVIOUS
  <2>1. CASE Q[1] = g /\ Q[2] = e
    <3>1. PICK p \in DOMAIN b : Q = <<g, e, p>>
      BY <1>9, <2>1
    <3>2. p # pos
      BY <3>1
    <3>3. QED
      BY <1>5, <1>6, <1>8, <3>1, <3>2
  <2>2. CASE ~ (Q[1] = g /\ Q[2] = e)
    BY <1>8, <2>2
  <2>3. QED
    BY <2>1, <2>2
<1>12. KeysAt(hs, P) = KeysAt(gs, P) \union {k}
       /\ Key(hs, P) = IF k <= Key(gs, P) THEN k ELSE Key(gs, P)
  <2>1. Key(gs, P) = b[pos].key /\ KeysAt(gs, P) = b[pos].keys
    BY <1>3, <1>5
  <2>2. Key(hs, P) = nb[pos].key /\ KeysAt(hs, P) = nb[pos].keys
    BY <1>3, <1>6, <1>8
  <2>3. QED
    BY <1>6, <2>1, <2>2
<1>13. Sound(hs) /\ Holds(hs, S \union {k})
  <2> HIDE DEF P
  <2>1. QED
    BY <1>3, <1>10, <1>11, <1>12, PairAdded
<1>14. ASSUME NEW i \in DOMAIN gs, ~ Bare(gs, i)
       PROVE  \/ EntryKey(hs[i], 0) = EntryKey(gs[i], 0)
              \/ i = g /\ EntryKey(hs[i], 0) = k
  <2>1. /\ <<i, 1, 1>> \in Places(gs)
        /\ EntryKey(gs[i], 0) = Key(gs, <<i, 1, 1>>)
    BY <1>1, <1>14, FirstPlace
  <2>2. EntryKey(hs[i], 0) = Key(hs, <<i, 1, 1>>)
    <3>1. i \in DOMAIN hs /\ ~ Bare(hs, i)
      BY <1>7, <1>8, <1>14 DEF Replaces
    <3>2. QED
      BY <3>1, FirstPlace
  <2>3. CASE <<i, 1, 1>> = P
    <3>1. i = g
      BY <2>3
    <3>2. QED
      BY <1>12, <2>1, <2>2, <2>3, <3>1
  <2>4. CASE <<i, 1, 1>> # P
    BY <1>11, <2>1, <2>2, <2>4
  <2>5. QED
    BY <2>3, <2>4
<1>15. QED
  BY <1>6, <1>8, <1>13, <1>14 DEF nb, b, Lowered

(* The entry after its full bucket was split. *)
LEMMA SplitBent ==
  ASSUME NEW gs, Sound(gs), NEW k \in Keys, NEW g, NEW e,
         OwnsEntry(gs, k, g, e), FullBucket(gs[g].bents[e], k),
         Len(gs[g].bents[e]) < EntryCount
  PROVE  LET b == gs[g].bents[e]
             pos == FindPos(b, k)
             nb == SplitAt(b, pos)
         IN  /\ nb \in Bents /\ Len(nb) = Len(b) + 1
             /\ \E split_key \in b[pos].keys : SplitOf(nb, b, pos, split_key)
<1> DEFINE b == gs[g].bents[e]
           pos == FindPos(b, k)
           nb == SplitAt(b, pos)
           P == <<g, e, pos>>
<1>1. gs \in Tree /\ Chain(gs) /\ Floors(gs) /\ g \in DOMAIN gs /\ e \in DOMAIN gs[g].bents
      /\ ~ Bare(gs, g)
  BY DEF Sound, OwnsGroup, OwnsEntry
<1>2. k \in Int /\ k \in Nat
  BY Constants DEF Keys
<1>3. Owns(gs, k, P) /\ pos \in DOMAIN b /\ (pos = 1 \/ Key(gs, P) <= k)
      /\ KeysAt(gs, P) = b[pos].keys
  BY <1>2, PlaceOwned
<1>4. /\ g \in Nat /\ e \in Nat /\ e >= 1 /\ b \in Bents
      /\ DOMAIN b = 1 .. Len(b) /\ Len(b) \in Nat /\ 1 \in DOMAIN b
  <2>1. gs[g] \in Group /\ g \in Nat
    BY <1>1, Parts
  <2>2. b \in Bents /\ e \in Nat /\ e >= 1
    BY <1>1, <2>1, GroupParts
  <2>3. QED
    BY <2>1, <2>2, BentParts
<1>5. \A p \in DOMAIN b : <<g, e, p>> \in Places(gs) /\ Key(gs, <<g, e, p>>) = b[p].key
                          /\ KeysAt(gs, <<g, e, p>>) = b[p].keys /\ b[p].key \in Nat
                          /\ b[p].keys \subseteq Nat
  BY <1>1, <1>4, PlacesAre, BentParts DEF Key, KeysAt
<1>6. Cardinality(b[pos].keys) >= MaxEntries
  BY DEF FullBucket
<1>7. \A p \in DOMAIN b : \A y \in b[p].keys : y >= b[p].key
  <2> HIDE DEF b
  <2>1. QED
    BY <1>1, <1>5 DEF Floors
<1>8. /\ nb \in Bents /\ Len(nb) = Len(b) + 1
      /\ \E split_key \in b[pos].keys : SplitOf(nb, b, pos, split_key)
  <2> HIDE DEF b, pos
  <2>1. QED
    BY <1>3, <1>4, <1>6, <1>7, SplitIs DEF b
<1>9. QED
  BY <1>8

(* The tree after the full bucket was split. *)
LEMMA BucketSplit ==
  ASSUME NEW gs, Sound(gs), NEW S, Holds(gs, S), NEW k \in Keys, NEW g, NEW e,
         OwnsEntry(gs, k, g, e), FullBucket(gs[g].bents[e], k),
         Len(gs[g].bents[e]) < EntryCount,
         NEW hs \in Tree,
         Replaces(hs, gs, g, e, SplitAt(gs[g].bents[e], FindPos(gs[g].bents[e], k)))
  PROVE  LET nb == SplitAt(gs[g].bents[e], FindPos(gs[g].bents[e], k))
         IN  /\ Sound(hs) /\ Holds(hs, S)
             /\ OwnsEntry(hs, k, g, e)
             /\ nb \in Bents /\ Len(nb) = Len(gs[g].bents[e]) + 1
             /\ ~ FullBucket(nb, k)
             /\ \A i \in DOMAIN gs : Bare(hs, i) <=> Bare(gs, i)
             /\ \A i \in DOMAIN gs : ~ Bare(gs, i) => EntryKey(hs[i], 0) = EntryKey(gs[i], 0)
<1> DEFINE b == gs[g].bents[e]
           pos == FindPos(b, k)
           nb == SplitAt(b, pos)
           P == <<g, e, pos>>
<1>1. gs \in Tree /\ Chain(gs) /\ Floors(gs) /\ g \in DOMAIN gs /\ e \in DOMAIN gs[g].bents
      /\ ~ Bare(gs, g)
  BY DEF Sound, OwnsGroup, OwnsEntry
<1>2. k \in Int /\ k \in Nat
  BY Constants DEF Keys
<1>3. Owns(gs, k, P) /\ pos \in DOMAIN b /\ (pos = 1 \/ Key(gs, P) <= k)
      /\ KeysAt(gs, P) = b[pos].keys
  BY <1>2, PlaceOwned
<1>4. /\ g \in Nat /\ e \in Nat /\ e >= 1 /\ b \in Bents
      /\ DOMAIN b = 1 .. Len(b) /\ Len(b) \in Nat /\ 1 \in DOMAIN b
  <2>1. gs[g] \in Group /\ g \in Nat
    BY <1>1, Parts
  <2>2. b \in Bents /\ e \in Nat /\ e >= 1
    BY <1>1, <2>1, GroupParts
  <2>3. QED
    BY <2>1, <2>2, BentParts
<1>5. \A p \in DOMAIN b : <<g, e, p>> \in Places(gs) /\ Key(gs, <<g, e, p>>) = b[p].key
                          /\ KeysAt(gs, <<g, e, p>>) = b[p].keys /\ b[p].key \in Nat
                          /\ b[p].keys \subseteq Nat
  BY <1>1, <1>4, PlacesAre, BentParts DEF Key, KeysAt
<1>6. Cardinality(b[pos].keys) >= MaxEntries
  BY DEF FullBucket
<1>7. \A p \in DOMAIN b : \A y \in b[p].keys : y >= b[p].key
  <2> HIDE DEF b
  <2>1. QED
    BY <1>1, <1>5 DEF Floors
<1>8. Replaces(hs, gs, g, e, nb)
  OBVIOUS
<1>9. /\ nb \in Bents /\ Len(nb) = Len(b) + 1
      /\ \E split_key \in b[pos].keys : SplitOf(nb, b, pos, split_key)
  BY SplitBent
<1>10. PICK split_key \in b[pos].keys : SplitOf(nb, b, pos, split_key)
  BY <1>9
<1> HIDE DEF pos, b, nb
<1>11. pos \in Nat /\ pos >= 1 /\ pos <= Len(b)
  BY <1>3, <1>4
<1>12. split_key \in Nat /\ split_key > b[pos].key /\ split_key >= b[pos].key
  BY <1>3, <1>5, <1>10 DEF SplitOf
<1>13. \* the pointers of the new entry, by those of the old one
       /\ DOMAIN nb = 1 .. Len(b) + 1
       /\ \A p \in DOMAIN nb :
            /\ p < pos => nb[p] = b[p] /\ p \in DOMAIN b
            /\ p > pos + 1 => nb[p] = b[p - 1] /\ p - 1 \in DOMAIN b
            /\ p \in Nat
       /\ nb[pos].key = b[pos].key /\ nb[pos].keys = {y \in b[pos].keys : y < split_key}
       /\ nb[pos + 1].key = split_key /\ nb[pos + 1].keys = {y \in b[pos].keys : y >= split_key}
       /\ pos \in DOMAIN nb /\ pos + 1 \in DOMAIN nb
       /\ Cardinality(nb[pos].keys) < MaxEntries /\ Cardinality(nb[pos + 1].keys) < MaxEntries
  BY <1>4, <1>10, <1>11 DEF SplitOf
<1>14. /\ \A Q \in Places(gs) : ~ (Q[1] = g /\ Q[2] = e) =>
            Q \in Places(hs) /\ Key(hs, Q) = Key(gs, Q) /\ KeysAt(hs, Q) = KeysAt(gs, Q)
       /\ \A Q \in Places(hs) : ~ (Q[1] = g /\ Q[2] = e) => Q \in Places(gs)
       /\ \A p \in DOMAIN nb :
            <<g, e, p>> \in Places(hs) /\ Key(hs, <<g, e, p>>) = nb[p].key
              /\ KeysAt(hs, <<g, e, p>>) = nb[p].keys
       /\ \A Q \in Places(hs) : Q[1] = g /\ Q[2] = e => Q[3] \in DOMAIN nb
       /\ \A i \in DOMAIN gs : Bare(hs, i) <=> Bare(gs, i)
  BY <1>1, <1>8, <1>9, ReplacedPlaces
<1>15. \A Q \in Places(hs) : Q = <<Q[1], Q[2], Q[3]>> /\ Q[1] \in Nat /\ Q[2] \in Nat /\ Q[3] \in Nat
  BY PlacesNumbers
<1> DEFINE Old(p) == IF p <= pos THEN p ELSE p - 1
<1>16. ASSUME NEW p \in DOMAIN nb
       PROVE  /\ Old(p) \in DOMAIN b
              /\ nb[p].keys \subseteq b[Old(p)].keys
              /\ nb[p].key = b[Old(p)].key \/ nb[p].key \in b[Old(p)].keys
              /\ \A y \in nb[p].keys : y >= nb[p].key
  <2>1. CASE p < pos
    <3>1. Old(p) = p
      BY <1>11, <1>13, <2>1
    <3>2. QED
      BY <1>7, <1>13, <2>1, <3>1
  <2>2. CASE p = pos
    <3>1. Old(p) = pos
      BY <1>11, <2>2
    <3>2. QED
      BY <1>3, <1>7, <1>13, <2>2, <3>1
  <2>3. CASE p = pos + 1
    <3>1. Old(p) = pos
      BY <1>11, <2>3
    <3>2. QED
      BY <1>3, <1>7, <1>10, <1>13, <2>3, <3>1
  <2>4. CASE p > pos + 1
    <3>1. Old(p) = p - 1
      BY <1>11, <1>13, <2>4
    <3>2. QED
      BY <1>7, <1>13, <2>4, <3>1
  <2>5. p < pos \/ p = pos \/ p = pos + 1 \/ p > pos + 1
    BY <1>11, <1>13
  <2>6. QED
    BY <2>1, <2>2, <2>3, <2>4, <2>5
<1>17. \A p, q \in DOMAIN nb : p < q => Old(p) < Old(q) \/ (p = pos /\ q = pos + 1)
  BY <1>11, <1>13
<1> DEFINE h == [Q \in Places(hs) |-> IF Q[1] = g /\ Q[2] = e THEN <<g, e, Old(Q[3])>> ELSE Q]
<1>18. \A Q \in Places(hs) :
         /\ h[Q] \in Places(gs)
         /\ KeysAt(hs, Q) \subseteq KeysAt(gs, h[Q])
         /\ Key(hs, Q) = Key(gs, h[Q]) \/ Key(hs, Q) \in KeysAt(gs, h[Q])
         /\ \A x \in KeysAt(hs, Q) : x >= Key(hs, Q)
  <2> SUFFICES ASSUME NEW Q \in Places(hs)
               PROVE  /\ h[Q] \in Places(gs)
                      /\ KeysAt(hs, Q) \subseteq KeysAt(gs, h[Q])
                      /\ Key(hs, Q) = Key(gs, h[Q]) \/ Key(hs, Q) \in KeysAt(gs, h[Q])
                      /\ \A x \in KeysAt(hs, Q) : x >= Key(hs, Q)
    OBVIOUS
  <2>1. CASE Q[1] = g /\ Q[2] = e
    <3>1. PICK p \in DOMAIN nb : Q = <<g, e, p>> /\ p = Q[3]
      BY <1>14, <1>15, <2>1
    <3>2. h[Q] = <<g, e, Old(p)>>
      BY <2>1, <3>1
    <3>3. Key(hs, Q) = nb[p].key /\ KeysAt(hs, Q) = nb[p].keys
      BY <1>14, <3>1
    <3>4. /\ Old(p) \in DOMAIN b
          /\ nb[p].keys \subseteq b[Old(p)].keys
          /\ nb[p].key = b[Old(p)].key \/ nb[p].key \in b[Old(p)].keys
          /\ \A y \in nb[p].keys : y >= nb[p].key
      BY <1>16
    <3> HIDE DEF Old, h
    <3>5. h[Q] \in Places(gs) /\ Key(gs, h[Q]) = b[Old(p)].key /\ KeysAt(gs, h[Q]) = b[Old(p)].keys
      BY <1>5, <3>2, <3>4
    <3>6. QED
      BY <3>3, <3>4, <3>5
  <2>2. CASE ~ (Q[1] = g /\ Q[2] = e)
    <3>1. h[Q] = Q
      BY <2>2
    <3> HIDE DEF h
    <3>2. Q \in Places(gs) /\ Key(hs, Q) = Key(gs, Q) /\ KeysAt(hs, Q) = KeysAt(gs, Q)
      BY <1>14, <2>2
    <3>3. QED
      BY <1>1, <3>1, <3>2 DEF Floors
  <2>3. QED
    BY <2>1, <2>2
<1>19. \A Q, R \in Places(hs) : Before(Q, R) =>
         \/ Before(h[Q], h[R])
         \/ Key(hs, Q) < Key(hs, R) /\ \A x \in KeysAt(hs, Q) : x < Key(hs, R)
  <2> SUFFICES ASSUME NEW Q \in Places(hs), NEW R \in Places(hs), Before(Q, R)
               PROVE  \/ Before(h[Q], h[R])
                      \/ Key(hs, Q) < Key(hs, R) /\ \A x \in KeysAt(hs, Q) : x < Key(hs, R)
    OBVIOUS
  <2>1. /\ h[Q][1] = Q[1] /\ h[Q][2] = Q[2] /\ h[R][1] = R[1] /\ h[R][2] = R[2]
        /\ h[Q][3] = IF Q[1] = g /\ Q[2] = e THEN Old(Q[3]) ELSE Q[3]
        /\ h[R][3] = IF R[1] = g /\ R[2] = e THEN Old(R[3]) ELSE R[3]
    OBVIOUS
  <2> HIDE DEF h
  <2>2. CASE Q[1] = R[1] /\ Q[2] = R[2] /\ Q[1] = g /\ Q[2] = e
    <3>1. Q[3] \in DOMAIN nb /\ R[3] \in DOMAIN nb /\ Q = <<g, e, Q[3]>> /\ R = <<g, e, R[3]>>
      BY <1>14, <1>15, <2>2
    <3>2. Q[3] < R[3]
      BY <1>15, <2>2 DEF Before
    <3>3. CASE Old(Q[3]) < Old(R[3])
      <4> HIDE DEF Old
      <4>1. QED
        BY <2>1, <2>2, <3>3 DEF Before
    <3>4. CASE Q[3] = pos /\ R[3] = pos + 1
      <4>1. Key(hs, Q) = b[pos].key /\ KeysAt(hs, Q) = {y \in b[pos].keys : y < split_key}
            /\ Key(hs, R) = split_key
        BY <1>13, <1>14, <3>1, <3>4
      <4>2. QED
        BY <1>3, <1>5, <1>12, <4>1
    <3>5. QED
      BY <1>17, <3>1, <3>2, <3>3, <3>4
  <2>3. CASE ~ (Q[1] = R[1] /\ Q[2] = R[2] /\ Q[1] = g /\ Q[2] = e)
    <3>1. Q[1] = R[1] /\ Q[2] = R[2] => h[Q][3] = Q[3] /\ h[R][3] = R[3]
      BY <2>1, <2>3
    <3> HIDE DEF Old
    <3>2. QED
      BY <1>15, <2>1, <3>1 DEF Before
  <2>4. QED
    BY <2>2, <2>3
<1> HIDE DEF h
<1>20. Sound(hs)
  BY <1>18, <1>19, Rebuilt
<1>21. \A Q \in Places(gs) : \A x \in KeysAt(gs, Q) : \E R \in Places(hs) : x \in KeysAt(hs, R)
  <2> SUFFICES ASSUME NEW Q \in Places(gs), NEW x \in KeysAt(gs, Q)
               PROVE  \E R \in Places(hs) : x \in KeysAt(hs, R)
    OBVIOUS
  <2>1. CASE ~ (Q[1] = g /\ Q[2] = e)
    BY <1>14, <2>1
  <2>2. CASE Q[1] = g /\ Q[2] = e
    <3>1. PICK p \in DOMAIN b : Q = <<g, e, p>>
      BY <2>2, PlacesAre DEF b
    <3>2. x \in b[p].keys /\ x \in Nat /\ p \in Nat
      BY <1>4, <1>5, <3>1
    <3>3. \E q \in DOMAIN nb : x \in nb[q].keys
      <4>1. CASE p < pos
        <5>1. p \in DOMAIN nb
          BY <1>4, <1>11, <1>13
        <5>2. QED
          BY <1>13, <3>2, <4>1, <5>1
      <4>2. CASE p = pos
        BY <1>12, <1>13, <3>2, <4>2
      <4>3. CASE p > pos
        <5>1. p + 1 \in DOMAIN nb /\ p + 1 > pos + 1 /\ p + 1 - 1 = p
          BY <1>4, <1>11, <1>13, <3>2, <4>3
        <5>2. nb[p + 1] = b[p]
          <6>1. PICK q \in DOMAIN nb : q = p + 1 /\ q > pos + 1 /\ q - 1 = p
            BY <5>1
          <6>2. nb[q] = b[q - 1]
            BY <1>13, <6>1
          <6>3. QED
            BY <6>1, <6>2
        <5>3. QED
          BY <3>2, <5>1, <5>2
      <4>4. QED
        BY <1>11, <3>2, <4>1, <4>2, <4>3
    <3>4. QED
      BY <1>14, <3>3
  <2>3. QED
    BY <2>1, <2>2
<1>22. Holds(hs, S)
  BY <1>18, <1>21, StillHolds
<1>23. OwnsEntry(hs, k, g, e)
  <2>1. g \in DOMAIN hs /\ ~ Bare(hs, g) /\ e \in DOMAIN hs[g].bents
    BY <1>1, <1>8, <1>14 DEF Replaces
  <2>2. ASSUME NEW Q \in Places(hs)
        PROVE  /\ Q[1] < g => Key(hs, Q) < k /\ \A x \in KeysAt(hs, Q) : x < k
               /\ Q[1] > g => Key(hs, Q) > k
               /\ Q[1] = g /\ Q[2] < e => Key(hs, Q) < k /\ \A x \in KeysAt(hs, Q) : x < k
               /\ Q[1] = g /\ Q[2] > e => Key(hs, Q) > k
    <3>1. CASE Q[1] = g /\ Q[2] = e
      BY <1>4, <3>1
    <3>2. CASE ~ (Q[1] = g /\ Q[2] = e)
      <4>1. Q \in Places(gs) /\ Key(hs, Q) = Key(gs, Q) /\ KeysAt(hs, Q) = KeysAt(gs, Q)
        BY <1>14, <3>2
      <4>2. QED
        BY <4>1 DEF OwnsEntry, OwnsGroup
    <3>3. QED
      BY <3>1, <3>2
  <2>3. QED
    BY <2>1, <2>2 DEF OwnsEntry, OwnsGroup
<1>24. ~ FullBucket(nb, k)
  <2> DEFINE new == FindPos(nb, k)
  <2>1. hs[g].bents[e] = nb
    BY <1>1, <1>8 DEF Replaces
  <2>2. /\ Owns(hs, k, <<g, e, new>>) /\ new \in DOMAIN nb
        /\ new = 1 \/ Key(hs, <<g, e, new>>) <= k
    BY <1>2, <1>20, <1>23, <2>1, PlaceOwned
  <2> HIDE DEF new
  <2>3. new \in Nat /\ (new = 1 \/ nb[new].key <= k) /\ new >= 1
    BY <1>13, <1>14, <2>2
  <2>4. ~ (new < pos)
    <3>1. SUFFICES ASSUME new < pos PROVE FALSE
      OBVIOUS
    <3>2. Before(<<g, e, new>>, <<g, e, pos>>)
      BY <3>1 DEF Before
    <3>3. nb[pos].key > k
      BY <1>13, <1>14, <2>2, <3>2 DEF Owns
    <3>4. pos # 1 /\ b[pos].key <= k /\ b[pos].key \in Nat
      BY <1>3, <1>5, <1>11, <2>3, <3>1
    <3>5. QED
      BY <1>2, <1>13, <3>3, <3>4
  <2>5. ~ (new > pos + 1)
    <3>1. SUFFICES ASSUME new > pos + 1 PROVE FALSE
      OBVIOUS
    <3>2. nb[new] = b[new - 1] /\ new - 1 \in DOMAIN b /\ new - 1 > pos /\ new # 1
      BY <1>11, <1>13, <2>2, <2>3, <3>1
    <3>3. Before(P, <<g, e, new - 1>>)
      BY <3>2 DEF Before
    <3>4. b[new - 1].key > k /\ b[new - 1].key \in Nat
      BY <1>3, <1>5, <3>2, <3>3 DEF Owns
    <3>5. QED
      BY <1>2, <2>3, <3>2, <3>4
  <2>6. new = pos \/ new = pos + 1
    BY <1>11, <2>3, <2>4, <2>5
  <2>7. Cardinality(nb[new].keys) < MaxEntries
    BY <1>13, <2>6
  <2>8. nb[new].keys \subseteq Keys
    BY <1>9, <2>2, BentParts
  <2>9. Cardinality(nb[new].keys) \in Nat
    BY <2>8, KeysFinite
  <2>10. QED
    BY <2>7, <2>9, Constants DEF FullBucket, new
<1>25. ASSUME NEW i \in DOMAIN gs, ~ Bare(gs, i)
       PROVE  EntryKey(hs[i], 0) = EntryKey(gs[i], 0)
  <2>1. /\ <<i, 1, 1>> \in Places(gs)
        /\ EntryKey(gs[i], 0) = Key(gs, <<i, 1, 1>>)
    BY <1>1, <1>25, FirstPlace
  <2>2. <<i, 1, 1>> \in Places(hs) /\ EntryKey(hs[i], 0) = Key(hs, <<i, 1, 1>>)
    <3>1. i \in DOMAIN hs /\ ~ Bare(hs, i)
      BY <1>8, <1>14, <1>25 DEF Replaces
    <3>2. QED
      BY <3>1, FirstPlace
  <2>3. CASE i = g /\ e = 1
    <3>1. nb[1].key = b[1].key
      <4>1. 1 \in DOMAIN nb
        BY <1>4, <1>13
      <4>2. CASE pos = 1
        BY <1>13, <4>2
      <4>3. CASE pos # 1
        <5>1. 1 < pos
          BY <1>11, <4>3
        <5>2. nb[1] = b[1]
          BY <1>13, <4>1, <5>1
        <5>3. QED
          BY <5>2
      <4>4. QED
        BY <4>2, <4>3
    <3>2. Key(gs, <<i, 1, 1>>) = b[1].key
      BY <1>4, <1>5, <2>3
    <3>3. Key(hs, <<i, 1, 1>>) = nb[1].key
      <4>1. 1 \in DOMAIN nb
        BY <1>4, <1>13
      <4>2. QED
        BY <1>14, <2>3, <4>1
    <3>4. QED
      BY <2>1, <2>2, <3>1, <3>2, <3>3
  <2>4. CASE ~ (i = g /\ e = 1)
    <3>1. ~ (<<i, 1, 1>>[1] = g /\ <<i, 1, 1>>[2] = e)
      BY <2>4
    <3>2. Key(hs, <<i, 1, 1>>) = Key(gs, <<i, 1, 1>>)
      BY <1>14, <2>1, <3>1
    <3>3. QED
      BY <2>1, <2>2, <3>2
  <2>5. QED
    BY <2>3, <2>4
<1>26. QED
  BY <1>9, <1>14, <1>20, <1>22, <1>23, <1>24, <1>25 DEF nb, pos, b

-----------------------------------------------------------------------------
(* The counts of the groups *)

(* The count of a group's pointers. *)

Counted(gs) == \A i \in DOMAIN gs : gs[i].next_entry_count = Cardinality(Places(<<gs[i]>>))

(* The places of a single group. *)
LEMMA PlacesOfOne ==
  ASSUME NEW g
  PROVE  \A P : P \in Places(<<g>>) <=>
           \E j \in DOMAIN g.bents : \E p \in DOMAIN g.bents[j] : P = <<1, j, p>>
<1>1. DOMAIN <<g>> = {1} /\ <<g>>[1] = g
  OBVIOUS
<1>2. ASSUME NEW P, P \in Places(<<g>>)
      PROVE  \E j \in DOMAIN g.bents : \E p \in DOMAIN g.bents[j] : P = <<1, j, p>>
  <2>1. /\ P[1] \in DOMAIN <<g>> /\ P[2] \in DOMAIN <<g>>[P[1]].bents
        /\ P[3] \in DOMAIN <<g>>[P[1]].bents[P[2]] /\ P = <<P[1], P[2], P[3]>>
    BY <1>2, PlacesAre
  <2>2. QED
    BY <1>1, <2>1
<1>3. ASSUME NEW j \in DOMAIN g.bents, NEW p \in DOMAIN g.bents[j]
      PROVE  <<1, j, p>> \in Places(<<g>>)
  <2>1. \A i \in DOMAIN <<g>> : \A jj \in DOMAIN <<g>>[i].bents : \A pp \in DOMAIN <<g>>[i].bents[jj] :
          <<i, jj, pp>> \in Places(<<g>>)
    BY PlacesAre
  <2>2. QED
    BY <1>1, <2>1
<1>4. QED
  BY <1>2, <1>3

(* A single group is a tree. *)
LEMMA OneGroup ==
  ASSUME NEW g \in Group
  PROVE  /\ <<g>> \in Tree /\ Len(<<g>>) = 1 /\ DOMAIN <<g>> = {1} /\ <<g>>[1] = g
         /\ IsFiniteSet(Places(<<g>>)) /\ Cardinality(Places(<<g>>)) \in Nat
<1>1. <<g>> \in Tree
  BY DEF Tree
<1>2. QED
  BY <1>1, FinitePlaces

(* Its places are told by the lengths of its entries. *)
LEMMA SamePlaces ==
  ASSUME NEW g, NEW h, DOMAIN h.bents = DOMAIN g.bents,
         \A j \in DOMAIN g.bents : DOMAIN h.bents[j] = DOMAIN g.bents[j]
  PROVE  Places(<<h>>) = Places(<<g>>)
<1>1. \A P : P \in Places(<<g>>) <=>
           \E j \in DOMAIN g.bents : \E p \in DOMAIN g.bents[j] : P = <<1, j, p>>
  BY PlacesOfOne
<1>2. \A P : P \in Places(<<h>>) <=>
           \E j \in DOMAIN h.bents : \E p \in DOMAIN h.bents[j] : P = <<1, j, p>>
  BY PlacesOfOne
<1>3. QED
  BY <1>1, <1>2

(* An entry with one pointer more is one place more. *)
LEMMA OneMorePlace ==
  ASSUME NEW g \in Group, NEW h \in Group, NEW e \in DOMAIN g.bents,
         DOMAIN h.bents = DOMAIN g.bents,
         \A j \in DOMAIN g.bents : j # e => h.bents[j] = g.bents[j],
         Len(h.bents[e]) = Len(g.bents[e]) + 1
  PROVE  Cardinality(Places(<<h>>)) = Cardinality(Places(<<g>>)) + 1
<1>1. /\ \A P : P \in Places(<<g>>) <=>
           \E j \in DOMAIN g.bents : \E p \in DOMAIN g.bents[j] : P = <<1, j, p>>
      /\ \A P : P \in Places(<<h>>) <=>
           \E j \in DOMAIN h.bents : \E p \in DOMAIN h.bents[j] : P = <<1, j, p>>
  BY PlacesOfOne
<1>2. g.bents[e] \in Bents /\ h.bents[e] \in Bents
  BY GroupParts
<1>3. PICK n \in Nat : n = Len(g.bents[e])
  BY <1>2, BentParts
<1>4. DOMAIN g.bents[e] = 1 .. n /\ DOMAIN h.bents[e] = 1 .. n + 1
  BY <1>2, <1>3, BentParts
<1>5. DOMAIN h.bents[e] = DOMAIN g.bents[e] \union {n + 1} /\ n + 1 \notin DOMAIN g.bents[e]
  BY <1>3, <1>4
<1>6. Places(<<h>>) = Places(<<g>>) \union {<<1, e, n + 1>>}
  <2>1. \A P : P \in Places(<<h>>) <=> P \in Places(<<g>>) \/ P = <<1, e, n + 1>>
    BY <1>1, <1>5
  <2>2. QED
    BY <2>1
<1>7. <<1, e, n + 1>> \notin Places(<<g>>)
  <2> SUFFICES ASSUME <<1, e, n + 1>> \in Places(<<g>>)
               PROVE  FALSE
    OBVIOUS
  <2>1. PICK j \in DOMAIN g.bents : \E p \in DOMAIN g.bents[j] : <<1, e, n + 1>> = <<1, j, p>>
    BY <1>1
  <2>2. j = e /\ n + 1 \in DOMAIN g.bents[j]
    BY <2>1
  <2>3. QED
    BY <1>5, <2>1, <2>2
<1>8. IsFiniteSet(Places(<<g>>))
  BY OneGroup
<1>9. QED
  <2>1. Cardinality(Places(<<g>>) \union {<<1, e, n + 1>>}) = Cardinality(Places(<<g>>)) + 1
    BY <1>7, <1>8, FS_AddElement, Zenon
  <2>2. QED
    BY <1>6, <2>1

(* As many pointers as entries. *)
LEMMA CountSingles ==
  ASSUME NEW n \in Nat, NEW g, DOMAIN g.bents = 1 .. n, \A j \in 1 .. n : DOMAIN g.bents[j] = {1}
  PROVE  Cardinality(Places(<<g>>)) = n
<1> DEFINE I == 1 .. n
           f == [j \in I |-> <<1, j, 1>>]
           T == Places(<<g>>)
           back == [P \in T |-> P[2]]
<1>1. \A P : P \in T <=> \E j \in I : P = <<1, j, 1>>
  BY PlacesOfOne
<1>2. IsFiniteSet(I) /\ Cardinality(I) = n
  BY FS_Interval
<1>3. T = {f[j] : j \in I}
  BY <1>1
<1>4. IsFiniteSet(T) /\ Cardinality(T) <= Cardinality(I)
  <2>1. DOMAIN f = I
    OBVIOUS
  <2> HIDE DEF f, I
  <2>2. IsFiniteSet({f[j] : j \in I}) /\ Cardinality({f[j] : j \in I}) <= Cardinality(I)
    BY <1>2, <2>1, FiniteImage
  <2>3. QED
    BY <1>3, <2>2
<1>5. {back[P] : P \in T} = I
  <2>1. \A P \in T : back[P] = P[2] /\ P[2] \in I
    BY <1>1
  <2>2. \A j \in I : <<1, j, 1>> \in T /\ back[<<1, j, 1>>] = j
    BY <1>1
  <2>3. \A P \in T : back[P] \in I
    BY <2>1
  <2>4. \A j \in I : \E P \in T : back[P] = j
    BY <2>2
  <2> HIDE DEF back, T, I
  <2>5. QED
    BY <2>3, <2>4
<1>6. Cardinality(I) <= Cardinality(T)
  <2>1. DOMAIN back = T
    OBVIOUS
  <2> HIDE DEF back, T
  <2>2. Cardinality({back[P] : P \in T}) <= Cardinality(T)
    BY <1>4, <2>1, FiniteImage
  <2> HIDE DEF I
  <2>3. QED
    BY <1>5, <2>2
<1>7. Cardinality(T) \in Nat
  BY <1>4, FS_CardinalityType
<1>8. QED
  BY <1>2, <1>4, <1>6, <1>7

(* What a replaced entry does to the counts. *)
LEMMA CountsAfter ==
  ASSUME NEW gs \in Tree, Counted(gs), NEW hs \in Tree, NEW g \in DOMAIN gs,
         NEW e \in DOMAIN gs[g].bents, NEW nb \in Bents, Replaces(hs, gs, g, e, nb),
         \/ /\ Len(nb) = Len(gs[g].bents[e])
            /\ hs[g].next_entry_count = gs[g].next_entry_count
         \/ /\ Len(nb) = Len(gs[g].bents[e]) + 1
            /\ hs[g].next_entry_count = gs[g].next_entry_count + 1
  PROVE  Counted(hs)
<1>1. \A i \in DOMAIN gs : gs[i].next_entry_count = Cardinality(Places(<<gs[i]>>))
  BY DEF Counted
<1>2. DOMAIN hs = DOMAIN gs /\ \A i \in DOMAIN gs : i # g => hs[i] = gs[i]
  BY DEF Replaces
<1>3. /\ DOMAIN hs[g].bents = DOMAIN gs[g].bents
      /\ \A j \in DOMAIN gs[g].bents : hs[g].bents[j] = IF j = e THEN nb ELSE gs[g].bents[j]
  BY DEF Replaces
<1>4. hs[g] \in Group /\ gs[g] \in Group
  BY <1>2, Parts
<1>5. gs[g].bents[e] \in Bents
  BY <1>4, GroupParts
<1>6. hs[g].next_entry_count = Cardinality(Places(<<hs[g]>>))
  <2>1. CASE /\ Len(nb) = Len(gs[g].bents[e])
             /\ hs[g].next_entry_count = gs[g].next_entry_count
    <3>1. DOMAIN nb = DOMAIN gs[g].bents[e]
      BY <1>5, <2>1, BentParts
    <3>2. \A j \in DOMAIN gs[g].bents : DOMAIN hs[g].bents[j] = DOMAIN gs[g].bents[j]
      BY <1>3, <3>1
    <3>3. Places(<<hs[g]>>) = Places(<<gs[g]>>)
      BY <1>3, <3>2, SamePlaces
    <3>4. QED
      BY <1>1, <2>1, <3>3
  <2>2. CASE /\ Len(nb) = Len(gs[g].bents[e]) + 1
             /\ hs[g].next_entry_count = gs[g].next_entry_count + 1
    <3>1. Cardinality(Places(<<hs[g]>>)) = Cardinality(Places(<<gs[g]>>)) + 1
      <4>1. Len(hs[g].bents[e]) = Len(gs[g].bents[e]) + 1
        BY <1>3, <2>2
      <4>2. \A j \in DOMAIN gs[g].bents : j # e => hs[g].bents[j] = gs[g].bents[j]
        BY <1>3
      <4>3. DOMAIN hs[g].bents = DOMAIN gs[g].bents
        BY <1>3
      <4>4. QED
        BY <1>4, <4>1, <4>2, <4>3, OneMorePlace, Zenon
    <3>2. QED
      BY <1>1, <2>2, <3>1
  <2>3. QED
    BY <2>1, <2>2
<1>7. QED
  BY <1>1, <1>2, <1>6 DEF Counted

-----------------------------------------------------------------------------
(* What a Put and a Delete make of a tree *)

(* What a sound tree with a root model stands for, and the group that the   *)
(* search for a key ends in.                                                *)
Content(gs, S, r) == Sound(gs) /\ Holds(gs, S) /\ Inhabited(gs) /\ Covers(gs, r)

Named(gs, r, k, g) ==
  OwnsGroup(gs, k, g) /\ ((\A h \in 1 .. g - 1 : Bare(gs, h)) \/ g <= r[k])

(* After a Put the root model still predicts no group before that of a     *)
(* key: only the group that find_group named may begin with a lower key,   *)
(* that of the pair put, for which the model predicted no earlier group.   *)
LEMMA CoversKept ==
  ASSUME NEW gs \in Tree, NEW hs \in Tree, DOMAIN hs = DOMAIN gs,
         NEW r \in [Keys -> 1 .. Len(gs)], Monotone(r), Covers(gs, r), Inhabited(gs),
         NEW k \in Keys, NEW g, Named(gs, r, k, g),
         \A i \in DOMAIN gs : Bare(hs, i) <=> Bare(gs, i),
         Lowered(hs, gs, k, g)
  PROVE  Covers(hs, r) /\ Inhabited(hs)
<1>1. Inhabited(hs)
  BY DEF Inhabited
<1>2. DOMAIN gs = 1 .. Len(gs) /\ Len(gs) \in Nat /\ g \in DOMAIN gs
  BY Parts DEF Named, OwnsGroup
<1>3. ASSUME NEW i \in DOMAIN hs, NEW x \in Keys, ~ Bare(hs, i),
             NEW h \in 1 .. i - 1, ~ Bare(hs, h), EntryKey(hs[i], 0) <= x
      PROVE  i <= r[x]
  <2>1. h \in DOMAIN gs /\ i \in DOMAIN gs
    BY <1>2, <1>3
  <2>2. ~ Bare(gs, i) /\ ~ Bare(gs, h)
    BY <1>3, <2>1
  <2>3. CASE EntryKey(hs[i], 0) = EntryKey(gs[i], 0)
    BY <1>3, <2>1, <2>2, <2>3 DEF Covers
  <2>4. CASE i = g /\ EntryKey(hs[i], 0) = k
    <3>1. i <= r[k]
      BY <1>3, <2>2, <2>4 DEF Named
    <3>2. r[k] <= r[x]
      BY <1>3, <2>4 DEF Monotone
    <3>3. r[k] \in Int /\ r[x] \in Int /\ i \in Int
      BY <1>2, <2>1
    <3>4. QED
      BY <3>1, <3>2, <3>3
  <2>5. QED
    BY <2>1, <2>2, <2>3, <2>4 DEF Lowered
<1>4. Covers(hs, r)
  BY <1>3 DEF Covers
<1>5. QED
  BY <1>1, <1>4

(* The entry in which a key is searched. *)
LEMMA EntryNamed ==
  ASSUME NEW gs, Sound(gs), NEW k \in Keys, NEW g, OwnsGroup(gs, k, g),
         NEW m \in Predictions(gs[g])
  PROVE  LET e == FindEntry(gs[g], m, k) + 1
         IN  /\ gs \in Tree /\ g \in DOMAIN gs /\ gs[g] \in Group /\ e \in DOMAIN gs[g].bents
             /\ gs[g].bents[e] \in Bents /\ OwnsEntry(gs, k, g, e)
<1> DEFINE e == FindEntry(gs[g], m, k) + 1
<1>1. k \in Int
  BY Constants DEF Keys
<1>2. OwnsEntry(gs, k, g, e)
  BY <1>1, EntryOwned
<1> HIDE DEF e
<1>3. gs \in Tree /\ g \in DOMAIN gs /\ e \in DOMAIN gs[g].bents
  BY <1>2 DEF Sound, OwnsGroup, OwnsEntry
<1>4. gs[g] \in Group
  BY <1>3, Parts
<1>5. gs[g].bents[e] \in Bents
  BY <1>3, <1>4, GroupParts
<1>6. QED
  BY <1>2, <1>3, <1>4, <1>5 DEF e

(* The tree when a bucket takes the pair. *)
LEMMA TreeAfterFits ==
  ASSUME NEW gs \in Tree, Counted(gs), NEW S, NEW r \in [Keys -> 1 .. Len(gs)], Monotone(r),
         Content(gs, S, r), NEW k \in Keys, NEW g, Named(gs, r, k, g), NEW e,
         OwnsEntry(gs, k, g, e), ~ FullBucket(gs[g].bents[e], k),
         NEW hs \in Tree, Replaces(hs, gs, g, e, Insert(gs[g].bents[e], k)),
         hs[g].next_entry_count = gs[g].next_entry_count
  PROVE  Len(hs) = Len(gs) /\ Counted(hs) /\ Content(hs, S \union {k}, r)
<1> DEFINE b == gs[g].bents[e]
           nb == Insert(b, k)
<1>1. Sound(gs) /\ Holds(gs, S) /\ Inhabited(gs) /\ Covers(gs, r)
  BY DEF Content
<1>2. g \in DOMAIN gs /\ e \in DOMAIN gs[g].bents
  BY DEF OwnsEntry, OwnsGroup
<1>3. nb \in Bents /\ Len(nb) = Len(b)
  BY <1>1, InsertedBent
<1>4. Replaces(hs, gs, g, e, nb)
  OBVIOUS
<1> HIDE DEF nb
<1>5. DOMAIN hs = DOMAIN gs /\ Len(hs) = Len(gs)
  BY <1>4 DEF Replaces
<1>6. /\ Sound(hs) /\ Holds(hs, S \union {k})
      /\ \A i \in DOMAIN gs : Bare(hs, i) <=> Bare(gs, i)
      /\ Lowered(hs, gs, k, g)
  BY <1>1, PairPut
<1>7. Covers(hs, r) /\ Inhabited(hs)
  BY <1>1, <1>4, <1>5, <1>6, CoversKept
<1>8. Counted(hs)
  BY <1>2, <1>3, <1>4, CountsAfter
<1>9. QED
  BY <1>4, <1>5, <1>6, <1>7, <1>8 DEF Content

(* The tree when the bucket splits first. *)
LEMMA TreeAfterSplits ==
  ASSUME NEW gs \in Tree, Counted(gs), NEW S, NEW r \in [Keys -> 1 .. Len(gs)], Monotone(r),
         Content(gs, S, r), NEW k \in Keys, NEW g, Named(gs, r, k, g), NEW e,
         OwnsEntry(gs, k, g, e), FullBucket(gs[g].bents[e], k),
         Len(gs[g].bents[e]) < EntryCount,
         NEW hs \in Tree,
         LET b == gs[g].bents[e]
         IN  Replaces(hs, gs, g, e, Insert(SplitAt(b, FindPos(b, k)), k)),
         hs[g].next_entry_count = gs[g].next_entry_count + 1
  PROVE  Len(hs) = Len(gs) /\ Counted(hs) /\ Content(hs, S \union {k}, r)
<1> DEFINE b == gs[g].bents[e]
           sb == SplitAt(b, FindPos(b, k))
           nb == Insert(sb, k)
           mid == [gs EXCEPT ![g].bents[e] = sb]
<1>1. Sound(gs) /\ Holds(gs, S) /\ Inhabited(gs) /\ Covers(gs, r)
  BY DEF Content
<1>2. g \in DOMAIN gs /\ e \in DOMAIN gs[g].bents
  BY DEF OwnsEntry, OwnsGroup
<1>3. sb \in Bents /\ Len(sb) = Len(b) + 1
  BY <1>1, SplitBent
<1>4. Updates(mid, gs, g, e, sb, gs[g].next_entry_count)
  <2> HIDE DEF sb
  <2>1. QED
    BY <1>2, <1>3, ReplacingOne, Zenon
<1> HIDE DEF mid
<1>5. /\ Sound(mid) /\ Holds(mid, S) /\ OwnsEntry(mid, k, g, e) /\ ~ FullBucket(sb, k)
      /\ \A i \in DOMAIN gs : Bare(mid, i) <=> Bare(gs, i)
      /\ \A i \in DOMAIN gs : ~ Bare(gs, i) => EntryKey(mid[i], 0) = EntryKey(gs[i], 0)
  BY <1>1, <1>4, BucketSplit DEF Updates
<1>6. Replaces(hs, gs, g, e, nb)
  OBVIOUS
<1> HIDE DEF sb, b
<1>7. mid[g].bents[e] = sb
  BY <1>2, <1>4 DEF Replaces, Updates
<1>8. nb \in Bents /\ Len(nb) = Len(sb)
  BY <1>5, <1>7, InsertedBent
<1> HIDE DEF nb
<1>9. DOMAIN hs = DOMAIN gs /\ Len(hs) = Len(gs) /\ DOMAIN mid = DOMAIN gs /\ Len(mid) = Len(gs)
  BY <1>4, <1>6 DEF Replaces, Updates
<1>10. Replaces(hs, mid, g, e, nb)
  BY <1>4, <1>6 DEF Replaces, Updates
<1>11. Replaces(hs, mid, g, e, Insert(mid[g].bents[e], k)) /\ ~ FullBucket(mid[g].bents[e], k)
  BY <1>5, <1>7, <1>10 DEF nb
<1>12. /\ Sound(hs) /\ Holds(hs, S \union {k})
       /\ \A i \in DOMAIN mid : Bare(hs, i) <=> Bare(mid, i)
       /\ Lowered(hs, mid, k, g)
  BY <1>5, <1>11, PairPut
<1>13. /\ \A i \in DOMAIN gs : Bare(hs, i) <=> Bare(gs, i)
       /\ Lowered(hs, gs, k, g)
  BY <1>5, <1>9, <1>12 DEF Lowered
<1>14. Covers(hs, r) /\ Inhabited(hs)
  BY <1>1, <1>9, <1>13, CoversKept
<1>15. Counted(hs)
  BY <1>2, <1>3, <1>6, <1>8, CountsAfter DEF b
<1>16. QED
  BY <1>9, <1>12, <1>14, <1>15 DEF Content

(* A key deleted from its bucket. *)
LEMMA DeepUpdate ==
  ASSUME NEW gs, NEW g, NEW e, NEW pos, NEW ks
  PROVE  [gs EXCEPT ![g].bents[e][pos] = ks]
           = [gs EXCEPT ![g].bents[e] = [gs[g].bents[e] EXCEPT ![pos] = ks]]
OBVIOUS

Removes(nb, b, pos, k) ==
  /\ Len(nb) = Len(b) /\ DOMAIN nb = DOMAIN b
  /\ \A p \in DOMAIN b :
       /\ nb[p].key = b[p].key
       /\ nb[p].keys = IF p = pos THEN b[p].keys \ {k} ELSE b[p].keys

(* The entry without the key. *)
LEMMA RemovedBent ==
  ASSUME NEW b \in Bents, NEW pos \in DOMAIN b, NEW k \in b[pos].keys
  PROVE  LET nb == [b EXCEPT ![pos] = Vacated(b[pos], k)]
         IN  nb \in Bents /\ Removes(nb, b, pos, k)
<1> DEFINE v == Vacated(b[pos], k)
           nb == [b EXCEPT ![pos] = v]
<1>1. /\ Len(b) \in Nat /\ Len(b) \in 1 .. EntryCount /\ DOMAIN b = 1 .. Len(b)
      /\ \A p \in DOMAIN b : b[p] \in Pointer
  <2>1. b \in Seq(Pointer) /\ Len(b) \in 1 .. EntryCount
    BY DEF Bents
  <2>2. QED
    BY <2>1, LenProperties, Constants
<1>2. v \in Pointer /\ v.key = b[pos].key /\ v.keys = b[pos].keys \ {k}
  BY <1>1, VacatedIs
<1> HIDE DEF v
<1>3. nb = [p \in DOMAIN b |-> IF p = pos THEN v ELSE b[p]]
  BY Zenon
<1> HIDE DEF nb
<1>4. DOMAIN nb = DOMAIN b
  BY <1>3
<1>5. \A p \in DOMAIN b : nb[p] = IF p = pos THEN v ELSE b[p]
  BY <1>3
<1>6. \A p \in DOMAIN b :
        /\ nb[p].key = b[p].key
        /\ nb[p].keys = IF p = pos THEN b[p].keys \ {k} ELSE b[p].keys
        /\ nb[p] \in Pointer
  BY <1>1, <1>2, <1>5
<1>7. nb \in [1 .. Len(b) -> Pointer]
  <2>1. \A p \in 1 .. Len(b) : nb[p] \in Pointer
    BY <1>1, <1>6
  <2>2. QED
    BY <1>1, <1>3, <2>1
<1>8. nb \in Seq(Pointer) /\ Len(nb) = Len(b)
  BY <1>1, <1>7, FunctionSeq
<1>9. nb \in Bents
  BY <1>1, <1>8 DEF Bents
<1>10. Removes(nb, b, pos, k)
  BY <1>4, <1>6, <1>8 DEF Removes
<1>11. QED
  BY <1>9, <1>10 DEF nb, v

(* The tree after group::Delete: the same tree with one key fewer. *)
LEMMA TreeAfterDelete ==
  ASSUME NEW gs \in Tree, Counted(gs), NEW S, NEW r \in [Keys -> 1 .. Len(gs)],
         Content(gs, S, r), NEW k \in Keys, NEW g, NEW e, OwnsEntry(gs, k, g, e),
         NEW nb \in Bents, Removes(nb, gs[g].bents[e], FindPos(gs[g].bents[e], k), k),
         NEW hs \in Tree, Replaces(hs, gs, g, e, nb),
         hs[g].next_entry_count = gs[g].next_entry_count
  PROVE  Len(hs) = Len(gs) /\ Counted(hs) /\ Content(hs, S \ {k}, r)
<1> DEFINE b == gs[g].bents[e]
           pos == FindPos(b, k)
           P == <<g, e, pos>>
<1>1. Sound(gs) /\ Holds(gs, S) /\ Inhabited(gs) /\ Covers(gs, r)
  BY DEF Content
<1>2. g \in DOMAIN gs /\ e \in DOMAIN gs[g].bents
  BY DEF OwnsEntry, OwnsGroup
<1>3. gs[g] \in Group
  BY <1>2, Parts
<1>4. b \in Bents
  BY <1>2, <1>3, GroupParts
<1>5. k \in Int
  BY Constants DEF Keys
<1>6. Owns(gs, k, P) /\ pos \in DOMAIN b /\ KeysAt(gs, P) = b[pos].keys
  BY <1>1, <1>5, PlaceOwned
<1>7. Removes(nb, b, pos, k)
  OBVIOUS
<1> HIDE DEF b, pos
<1>8. /\ Len(nb) = Len(b) /\ DOMAIN nb = DOMAIN b
      /\ \A p \in DOMAIN b :
           /\ nb[p].key = b[p].key
           /\ nb[p].keys = IF p = pos THEN b[p].keys \ {k} ELSE b[p].keys
  BY <1>7 DEF Removes
<1>9. /\ \A Q \in Places(gs) : ~ (Q[1] = g /\ Q[2] = e) =>
            Q \in Places(hs) /\ Key(hs, Q) = Key(gs, Q) /\ KeysAt(hs, Q) = KeysAt(gs, Q)
      /\ \A Q \in Places(hs) : ~ (Q[1] = g /\ Q[2] = e) => Q \in Places(gs)
      /\ \A p \in DOMAIN nb :
           <<g, e, p>> \in Places(hs) /\ Key(hs, <<g, e, p>>) = nb[p].key
             /\ KeysAt(hs, <<g, e, p>>) = nb[p].keys
      /\ \A Q \in Places(hs) : Q[1] = g /\ Q[2] = e => Q[3] \in DOMAIN nb
      /\ \A i \in DOMAIN gs : Bare(hs, i) <=> Bare(gs, i)
  BY <1>2, <1>8, ReplacedPlaces
<1>10. \A p \in DOMAIN b : <<g, e, p>> \in Places(gs) /\ Key(gs, <<g, e, p>>) = b[p].key
                           /\ KeysAt(gs, <<g, e, p>>) = b[p].keys
  BY <1>2, PlacesAre DEF Key, KeysAt, b
<1>11. \A Q \in Places(gs) \union Places(hs) : Q[1] = g /\ Q[2] = e =>
         Q = <<g, e, Q[3]>> /\ Q[3] \in DOMAIN b
  <2>1. \A Q \in Places(gs) \union Places(hs) : Q = <<Q[1], Q[2], Q[3]>>
    BY PlacesAre
  <2>2. \A Q \in Places(gs) : Q[1] = g /\ Q[2] = e => Q[3] \in DOMAIN b
    BY PlacesAre DEF b
  <2>3. \A Q \in Places(hs) : Q[1] = g /\ Q[2] = e => Q[3] \in DOMAIN b
    BY <1>8, <1>9
  <2>4. QED
    BY <2>1, <2>2, <2>3
<1>12. Places(hs) = Places(gs)
  <2>1. ASSUME NEW Q \in Places(hs) PROVE Q \in Places(gs)
    <3>1. CASE Q[1] = g /\ Q[2] = e
      BY <1>10, <1>11, <3>1
    <3>2. CASE ~ (Q[1] = g /\ Q[2] = e)
      BY <1>9, <3>2
    <3>3. QED
      BY <3>1, <3>2
  <2>2. ASSUME NEW Q \in Places(gs) PROVE Q \in Places(hs)
    <3>1. CASE Q[1] = g /\ Q[2] = e
      BY <1>8, <1>9, <1>11, <3>1
    <3>2. CASE ~ (Q[1] = g /\ Q[2] = e)
      BY <1>9, <3>2
    <3>3. QED
      BY <3>1, <3>2
  <2>3. QED
    BY <2>1, <2>2
<1>13. \A Q \in Places(gs) :
         /\ Key(hs, Q) = Key(gs, Q)
         /\ Q # P => KeysAt(hs, Q) = KeysAt(gs, Q)
  <2> SUFFICES ASSUME NEW Q \in Places(gs)
               PROVE  /\ Key(hs, Q) = Key(gs, Q)
                      /\ Q # P => KeysAt(hs, Q) = KeysAt(gs, Q)
    OBVIOUS
  <2>1. CASE Q[1] = g /\ Q[2] = e
    <3>1. PICK p \in DOMAIN b : Q = <<g, e, p>>
      BY <1>11, <2>1
    <3>2. Q # P => p # pos
      BY <3>1
    <3>3. Key(gs, Q) = b[p].key /\ KeysAt(gs, Q) = b[p].keys
      BY <1>10, <3>1
    <3>4. Key(hs, Q) = nb[p].key /\ KeysAt(hs, Q) = nb[p].keys
      BY <1>8, <1>9, <3>1
    <3>5. nb[p].key = b[p].key /\ (p # pos => nb[p].keys = b[p].keys)
      BY <1>8
    <3>6. QED
      BY <3>2, <3>3, <3>4, <3>5
  <2>2. CASE ~ (Q[1] = g /\ Q[2] = e)
    BY <1>9, <2>2
  <2>3. QED
    BY <2>1, <2>2
<1>14. KeysAt(hs, P) = KeysAt(gs, P) \ {k}
  BY <1>6, <1>8, <1>9
<1>15. Sound(hs) /\ Holds(hs, S \ {k})
  <2> HIDE DEF P
  <2>1. QED
    BY <1>1, <1>6, <1>12, <1>13, <1>14, PairRemoved
<1>16. DOMAIN hs = DOMAIN gs /\ Len(hs) = Len(gs)
  BY DEF Replaces
<1>17. Inhabited(hs)
  BY <1>1, <1>9, <1>16 DEF Inhabited
<1>18. \A i \in DOMAIN gs : ~ Bare(gs, i) => EntryKey(hs[i], 0) = EntryKey(gs[i], 0)
  <2> SUFFICES ASSUME NEW i \in DOMAIN gs, ~ Bare(gs, i)
               PROVE  EntryKey(hs[i], 0) = EntryKey(gs[i], 0)
    OBVIOUS
  <2>1. /\ <<i, 1, 1>> \in Places(gs)
        /\ EntryKey(gs[i], 0) = Key(gs, <<i, 1, 1>>)
    BY FirstPlace
  <2>2. i \in DOMAIN hs /\ ~ Bare(hs, i)
    BY <1>9, <1>16
  <2>3. EntryKey(hs[i], 0) = Key(hs, <<i, 1, 1>>)
    BY <2>2, FirstPlace
  <2>4. QED
    BY <1>13, <2>1, <2>3
<1>19. Covers(hs, r)
  <2>1. ASSUME NEW i \in DOMAIN hs, NEW x \in Keys, ~ Bare(hs, i),
               NEW h \in 1 .. i - 1, ~ Bare(hs, h), EntryKey(hs[i], 0) <= x
        PROVE  i <= r[x]
    <3>1. DOMAIN gs = 1 .. Len(gs) /\ Len(gs) \in Nat
      BY Parts
    <3>2. i \in DOMAIN gs /\ h \in DOMAIN gs
      BY <1>16, <2>1, <3>1
    <3>3. ~ Bare(gs, i) /\ ~ Bare(gs, h)
      BY <1>9, <2>1, <3>2
    <3>4. EntryKey(gs[i], 0) <= x
      BY <1>18, <2>1, <3>2, <3>3
    <3>5. QED
      BY <1>1, <2>1, <3>2, <3>3, <3>4 DEF Covers
  <2>2. QED
    BY <2>1 DEF Covers
<1>20. Counted(hs)
  BY <1>2, <1>8, CountsAfter DEF b
<1>21. QED
  BY <1>15, <1>16, <1>17, <1>19, <1>20 DEF Content

-----------------------------------------------------------------------------
(* AdjustEntryKey *)

(* The first key of a group adjusted. *)
LEMMA RaisedBent ==
  ASSUME NEW b \in Bents, NEW m \in 0 .. MaxKey
  PROVE  LET nb == [b EXCEPT ![1].key = m]
         IN  /\ nb \in Bents /\ Len(nb) = Len(b) /\ DOMAIN nb = DOMAIN b
             /\ \A p \in DOMAIN b :
                  /\ nb[p].keys = b[p].keys
                  /\ nb[p].key = IF p = 1 THEN m ELSE b[p].key
<1> DEFINE nb == [b EXCEPT ![1].key = m]
<1>1. /\ Len(b) \in Nat /\ Len(b) \in 1 .. EntryCount /\ DOMAIN b = 1 .. Len(b)
      /\ \A p \in DOMAIN b : b[p] \in Pointer
  <2>1. b \in Seq(Pointer) /\ Len(b) \in 1 .. EntryCount
    BY DEF Bents
  <2>2. QED
    BY <2>1, LenProperties, Constants
<1>2. nb = [p \in DOMAIN b |-> IF p = 1 THEN [b[p] EXCEPT !.key = m] ELSE b[p]]
  BY Zenon
<1> HIDE DEF nb
<1>3. DOMAIN nb = DOMAIN b
      /\ \A p \in DOMAIN b : nb[p] = IF p = 1 THEN [b[p] EXCEPT !.key = m] ELSE b[p]
  BY <1>2
<1>4. \A p \in DOMAIN b :
        /\ nb[p].keys = b[p].keys
        /\ nb[p].key = IF p = 1 THEN m ELSE b[p].key
        /\ nb[p] \in Pointer
  <2> SUFFICES ASSUME NEW p \in DOMAIN b
               PROVE  /\ nb[p].keys = b[p].keys
                      /\ nb[p].key = IF p = 1 THEN m ELSE b[p].key
                      /\ nb[p] \in Pointer
    OBVIOUS
  <2>1. b[p] \in Pointer
    BY <1>1
  <2>2. nb[p] = IF p = 1 THEN [b[p] EXCEPT !.key = m] ELSE b[p]
    BY <1>3
  <2>3. QED
    BY <2>1, <2>2 DEF Pointer
<1>5. nb \in [1 .. Len(b) -> Pointer]
  <2>1. \A p \in 1 .. Len(b) : nb[p] \in Pointer
    BY <1>1, <1>4
  <2>2. QED
    BY <1>1, <1>2, <2>1
<1>6. nb \in Seq(Pointer) /\ Len(nb) = Len(b)
  BY <1>1, <1>5, FunctionSeq
<1>7. nb \in Bents
  BY <1>1, <1>6 DEF Bents
<1>8. QED
  BY <1>3, <1>4, <1>6, <1>7 DEF nb

(* What AdjustEntryKey leaves of a group. *)
Adjusts(a, g) ==
  /\ DOMAIN a.bents = DOMAIN g.bents
  /\ \A j \in DOMAIN g.bents : DOMAIN a.bents[j] = DOMAIN g.bents[j]
  /\ \A j \in DOMAIN g.bents : \A p \in DOMAIN g.bents[j] :
       /\ a.bents[j][p].keys = g.bents[j][p].keys
       /\ \/ a.bents[j][p].key = g.bents[j][p].key
          \/ /\ a.bents[j][p].key \in g.bents[j][p].keys
             /\ \A x \in g.bents[j][p].keys : a.bents[j][p].key <= x
  /\ ~ Unreadable(g) /\ g.bents # <<>> => a.bents[1][1].key \in g.bents[1][1].keys

(* AdjustEntryKey raises the first key of a group to the least key of its  *)
(* first bucket, or leaves the group.                                      *)
LEMMA AdjustedIs ==
  ASSUME NEW g \in Group
  PROVE  /\ Adjusted(g) \in Group /\ Adjusts(Adjusted(g), g)
         /\ Adjusted(g).next_entry_count = g.next_entry_count
         /\ Adjusted(g).min_key = g.min_key
<1>1. Bare(<<g>>, 1) <=> g.bents = <<>>
  BY DEF Bare
<1>2. CASE g.bents = <<>> \/ Unreadable(g)
  <2>1. Adjusted(g) = g
    BY <1>1, <1>2 DEF Adjusted
  <2>2. Adjusts(g, g)
    BY <1>1, <1>2 DEF Adjusts
  <2>3. QED
    BY <2>1, <2>2
<1>3. CASE ~ (g.bents = <<>> \/ Unreadable(g))
  <2> DEFINE b == g.bents[1]
             ks == b[1].keys
             m == Min(ks)
             nb == [b EXCEPT ![1].key = m]
             nbs == [g.bents EXCEPT ![1] = nb]
  <2>1. /\ g.bents \in Seq(Bents) /\ Len(g.bents) \in Nat /\ DOMAIN g.bents = 1 .. Len(g.bents)
        /\ 1 \in DOMAIN g.bents /\ b \in Bents
    <3>1. /\ g.bents \in Seq(Bents) /\ Len(g.bents) \in Nat /\ DOMAIN g.bents = 1 .. Len(g.bents)
          /\ \A j \in DOMAIN g.bents : g.bents[j] \in Bents
      BY GroupParts
    <3>2. Len(g.bents) # 0
      BY <1>3, <3>1, EmptySeq
    <3>3. QED
      BY <3>1, <3>2
  <2>2. 1 \in DOMAIN b /\ ks \subseteq Keys /\ ks # {}
    <3>1. Headed(g.bents[1][1])
      BY <1>1, <1>3 DEF Unreadable
    <3>2. ks # {}
      BY <3>1 DEF Headed
    <3>3. QED
      BY <2>1, <3>2, BentParts
  <2>3. m \in ks /\ \A y \in ks : m <= y
    <3>1. ks \in SUBSET Int /\ \A x \in ks : 1 <= x
      BY <2>2, Constants DEF Keys
    <3> HIDE DEF ks
    <3>2. QED
      BY <2>2, <3>1, MinProperty
  <2>4. m \in 0 .. MaxKey
    BY <2>2, <2>3, Constants DEF Keys
  <2>5. Adjusted(g) = [g EXCEPT !.bents[1][1].key = m]
    BY <1>1, <1>3 DEF Adjusted
  <2>6. [g EXCEPT !.bents[1][1].key = m] = [g EXCEPT !.bents = nbs]
    <3> HIDE DEF m
    <3>1. QED
      OBVIOUS
  <2> HIDE DEF m
  <2>7. /\ nb \in Bents /\ Len(nb) = Len(b) /\ DOMAIN nb = DOMAIN b
        /\ \A p \in DOMAIN b :
             /\ nb[p].keys = b[p].keys
             /\ nb[p].key = IF p = 1 THEN m ELSE b[p].key
    BY <2>1, <2>4, RaisedBent
  <2> HIDE DEF nb
  <2>8. /\ nbs \in Seq(Bents) /\ DOMAIN nbs = DOMAIN g.bents
        /\ \A j \in DOMAIN g.bents : nbs[j] = IF j = 1 THEN nb ELSE g.bents[j]
    BY <2>1, <2>7
  <2> HIDE DEF nbs
  <2>9. Adjusted(g) = [bents |-> nbs, next_entry_count |-> g.next_entry_count, min_key |-> g.min_key]
    BY <2>5, <2>6, GroupUpdates
  <2>10. Adjusted(g) \in Group
    <3>1. g.next_entry_count \in Nat /\ g.min_key \in 0 .. MaxKey
      BY GroupParts
    <3>2. QED
      BY <2>8, <2>9, <3>1 DEF Group
  <2>11. /\ Adjusted(g).bents = nbs /\ Adjusted(g).next_entry_count = g.next_entry_count
         /\ Adjusted(g).min_key = g.min_key
    BY <2>9
  <2>12. Adjusts(Adjusted(g), g)
    <3>1. \A j \in DOMAIN g.bents : DOMAIN nbs[j] = DOMAIN g.bents[j]
      BY <2>7, <2>8
    <3>2. ASSUME NEW j \in DOMAIN g.bents, NEW p \in DOMAIN g.bents[j]
          PROVE  /\ nbs[j][p].keys = g.bents[j][p].keys
                 /\ \/ nbs[j][p].key = g.bents[j][p].key
                    \/ /\ nbs[j][p].key \in g.bents[j][p].keys
                       /\ \A x \in g.bents[j][p].keys : nbs[j][p].key <= x
      <4>1. CASE j = 1
        <5>1. CASE p = 1
          BY <2>2, <2>3, <2>7, <2>8, <4>1, <5>1
        <5>2. CASE p # 1
          BY <2>7, <2>8, <4>1, <5>2
        <5>3. QED
          BY <5>1, <5>2
      <4>2. CASE j # 1
        BY <2>8, <4>2
      <4>3. QED
        BY <4>1, <4>2
    <3>3. nbs[1][1].key \in g.bents[1][1].keys
      BY <2>1, <2>2, <2>3, <2>7, <2>8
    <3>4. QED
      BY <2>8, <2>11, <3>1, <3>2, <3>3 DEF Adjusts
  <2>13. QED
    BY <2>10, <2>11, <2>12
<1>4. QED
  BY <1>2, <1>3

-----------------------------------------------------------------------------
(* Expansions: the same pointers, dealt out to other entries and groups *)

(* A tree of which some groups were adjusted. *)
LEMMA AdjustedTree ==
  ASSUME NEW gs, Sound(gs), NEW S, Holds(gs, S), NEW ts \in Tree, DOMAIN ts = DOMAIN gs,
         \A i \in DOMAIN gs : ts[i] = gs[i] \/ ts[i] = Adjusted(gs[i])
  PROVE  /\ Places(ts) = Places(gs) /\ Sound(ts) /\ Holds(ts, S)
         /\ \A i \in DOMAIN gs : Bare(ts, i) <=> Bare(gs, i)
         /\ \A P \in Places(gs) : Key(ts, P) >= Key(gs, P)
<1>1. gs \in Tree /\ Chain(gs) /\ Floors(gs)
  BY DEF Sound
<1>2. \A i \in DOMAIN gs : gs[i] \in Group
  BY <1>1, Parts
<1>3. ASSUME NEW i \in DOMAIN gs
      PROVE  /\ DOMAIN ts[i].bents = DOMAIN gs[i].bents
             /\ \A j \in DOMAIN gs[i].bents : DOMAIN ts[i].bents[j] = DOMAIN gs[i].bents[j]
             /\ \A j \in DOMAIN gs[i].bents : \A p \in DOMAIN gs[i].bents[j] :
                  /\ ts[i].bents[j][p].keys = gs[i].bents[j][p].keys
                  /\ \/ ts[i].bents[j][p].key = gs[i].bents[j][p].key
                     \/ /\ ts[i].bents[j][p].key \in gs[i].bents[j][p].keys
                        /\ \A x \in gs[i].bents[j][p].keys : ts[i].bents[j][p].key <= x
  <2>1. CASE ts[i] = gs[i]
    BY <2>1
  <2>2. CASE ts[i] = Adjusted(gs[i])
    <3>1. Adjusts(Adjusted(gs[i]), gs[i])
      BY <1>2, AdjustedIs
    <3>2. Adjusts(ts[i], gs[i])
      BY <2>2, <3>1
    <3>3. QED
      BY <3>2 DEF Adjusts
  <2>3. QED
    BY <2>1, <2>2
<1>4. Places(ts) = Places(gs)
  <2>1. ASSUME NEW P \in Places(ts) PROVE P \in Places(gs)
    <3>1. /\ P[1] \in DOMAIN ts /\ P[2] \in DOMAIN ts[P[1]].bents
          /\ P[3] \in DOMAIN ts[P[1]].bents[P[2]] /\ P = <<P[1], P[2], P[3]>>
      BY PlacesAre
    <3>2. PICK i \in DOMAIN ts : \E j \in DOMAIN ts[i].bents : \E p \in DOMAIN ts[i].bents[j] :
            P = <<i, j, p>>
      BY <3>1, Zenon
    <3>3. PICK j \in DOMAIN ts[i].bents : \E p \in DOMAIN ts[i].bents[j] : P = <<i, j, p>>
      BY <3>2
    <3>4. PICK p \in DOMAIN ts[i].bents[j] : P = <<i, j, p>>
      BY <3>3
    <3>5. i \in DOMAIN gs /\ j \in DOMAIN gs[i].bents /\ p \in DOMAIN gs[i].bents[j]
      BY <1>3
    <3>6. QED
      BY <3>4, <3>5, PlacesAre
  <2>2. ASSUME NEW P \in Places(gs) PROVE P \in Places(ts)
    <3>1. /\ P[1] \in DOMAIN gs /\ P[2] \in DOMAIN gs[P[1]].bents
          /\ P[3] \in DOMAIN gs[P[1]].bents[P[2]] /\ P = <<P[1], P[2], P[3]>>
      BY PlacesAre
    <3>2. PICK i \in DOMAIN gs : \E j \in DOMAIN gs[i].bents : \E p \in DOMAIN gs[i].bents[j] :
            P = <<i, j, p>>
      BY <3>1, Zenon
    <3>3. PICK j \in DOMAIN gs[i].bents : \E p \in DOMAIN gs[i].bents[j] : P = <<i, j, p>>
      BY <3>2
    <3>4. PICK p \in DOMAIN gs[i].bents[j] : P = <<i, j, p>>
      BY <3>3
    <3>5. i \in DOMAIN ts /\ j \in DOMAIN ts[i].bents /\ p \in DOMAIN ts[i].bents[j]
      BY <1>3
    <3>6. QED
      BY <3>4, <3>5, PlacesAre
  <2>3. QED
    BY <2>1, <2>2
<1>5. ASSUME NEW P \in Places(gs)
      PROVE  /\ KeysAt(ts, P) = KeysAt(gs, P)
             /\ \/ Key(ts, P) = Key(gs, P)
                \/ /\ Key(ts, P) \in KeysAt(gs, P)
                   /\ \A x \in KeysAt(gs, P) : Key(ts, P) <= x
  <2>1. PICK i \in DOMAIN gs : \E j \in DOMAIN gs[i].bents : \E p \in DOMAIN gs[i].bents[j] :
          P = <<i, j, p>>
    BY PlacesAre
  <2>2. PICK j \in DOMAIN gs[i].bents : \E p \in DOMAIN gs[i].bents[j] : P = <<i, j, p>>
    BY <2>1
  <2>3. PICK p \in DOMAIN gs[i].bents[j] : P = <<i, j, p>>
    BY <2>2
  <2>4. PointerAt(ts, P) = ts[i].bents[j][p] /\ PointerAt(gs, P) = gs[i].bents[j][p]
    BY <2>3 DEF PointerAt
  <2>5. /\ ts[i].bents[j][p].keys = gs[i].bents[j][p].keys
        /\ \/ ts[i].bents[j][p].key = gs[i].bents[j][p].key
           \/ /\ ts[i].bents[j][p].key \in gs[i].bents[j][p].keys
              /\ \A x \in gs[i].bents[j][p].keys : ts[i].bents[j][p].key <= x
    BY <1>3
  <2>6. QED
    BY <2>4, <2>5 DEF Key, KeysAt
<1> DEFINE h == [P \in Places(gs) |-> P]
<1>6. \A P \in Places(ts) : h[P] = P
  BY <1>4
<1> HIDE DEF h
<1>7. \A P \in Places(gs) : KeysAt(gs, P) \subseteq Nat /\ Key(gs, P) \in Nat
  BY <1>1, PlacesNumbers
<1>8. \A P \in Places(ts) :
        /\ h[P] \in Places(gs)
        /\ KeysAt(ts, P) \subseteq KeysAt(gs, h[P])
        /\ Key(ts, P) = Key(gs, h[P]) \/ Key(ts, P) \in KeysAt(gs, h[P])
        /\ \A x \in KeysAt(ts, P) : x >= Key(ts, P)
  <2> SUFFICES ASSUME NEW P \in Places(gs)
               PROVE  /\ KeysAt(ts, P) \subseteq KeysAt(gs, P)
                      /\ Key(ts, P) = Key(gs, P) \/ Key(ts, P) \in KeysAt(gs, P)
                      /\ \A x \in KeysAt(ts, P) : x >= Key(ts, P)
    BY <1>4, <1>6
  <2>1. \A x \in KeysAt(gs, P) : x \in Nat /\ x >= Key(gs, P)
    BY <1>1, <1>7 DEF Floors
  <2>2. QED
    BY <1>5, <1>7, <2>1
<1>9. \A P, Q \in Places(ts) : Before(P, Q) => Before(h[P], h[Q])
  BY <1>6
<1>10. Sound(ts)
  BY <1>8, <1>9, Rebuilt
<1>11. Holds(ts, S)
  <2>1. \A P \in Places(ts) : \E Q \in Places(gs) : KeysAt(ts, P) \subseteq KeysAt(gs, Q)
    BY <1>8
  <2>2. \A Q \in Places(gs) : \A x \in KeysAt(gs, Q) : \E P \in Places(ts) : x \in KeysAt(ts, P)
    BY <1>4, <1>5
  <2>3. QED
    BY <2>1, <2>2, StillHolds
<1>12. ASSUME NEW i \in DOMAIN gs
       PROVE  Bare(ts, i) <=> Bare(gs, i)
  <2>1. ts[i] \in Group /\ gs[i] \in Group
    BY <1>2, Parts
  <2>2. /\ Len(gs[i].bents) \in Nat /\ DOMAIN gs[i].bents = 1 .. Len(gs[i].bents)
        /\ gs[i].bents \in Seq(Bents)
    BY <2>1, GroupParts
  <2>3. /\ Len(ts[i].bents) \in Nat /\ DOMAIN ts[i].bents = 1 .. Len(ts[i].bents)
        /\ ts[i].bents \in Seq(Bents)
    BY <2>1, GroupParts
  <2>4. ts[i].bents = <<>> <=> 1 \notin DOMAIN ts[i].bents
    <3>1. ts[i].bents = <<>> <=> Len(ts[i].bents) = 0
      BY <2>3, EmptySeq
    <3>2. PICK n \in Nat : n = Len(ts[i].bents) /\ DOMAIN ts[i].bents = 1 .. n
      BY <2>3
    <3>3. n = 0 <=> 1 \notin 1 .. n
      BY <3>2
    <3>4. QED
      BY <3>1, <3>2, <3>3
  <2>5. gs[i].bents = <<>> <=> 1 \notin DOMAIN gs[i].bents
    <3>1. gs[i].bents = <<>> <=> Len(gs[i].bents) = 0
      BY <2>2, EmptySeq
    <3>2. PICK n \in Nat : n = Len(gs[i].bents) /\ DOMAIN gs[i].bents = 1 .. n
      BY <2>2
    <3>3. n = 0 <=> 1 \notin 1 .. n
      BY <3>2
    <3>4. QED
      BY <3>1, <3>2, <3>3
  <2>6. DOMAIN ts[i].bents = DOMAIN gs[i].bents
    BY <1>3
  <2>7. QED
    BY <2>4, <2>5, <2>6 DEF Bare
<1>13. ASSUME NEW P \in Places(gs)
       PROVE  Key(ts, P) >= Key(gs, P)
  <2>1. CASE Key(ts, P) = Key(gs, P)
    BY <1>7, <2>1
  <2>2. CASE Key(ts, P) \in KeysAt(gs, P)
    BY <1>1, <2>2 DEF Floors
  <2>3. QED
    BY <1>5, <2>1, <2>2
<1>14. QED
  BY <1>4, <1>10, <1>11, <1>12, <1>13

(* The same pointers, dealt out to entries and groups in the same order. *)
LEMMA Regrouped ==
  ASSUME NEW gs, Sound(gs), NEW S, Holds(gs, S), NEW hs \in Tree, NEW h,
         \A P \in Places(hs) : h[P] \in Places(gs) /\ PointerAt(hs, P) = PointerAt(gs, h[P]),
         \A P, Q \in Places(hs) : Before(P, Q) => Before(h[P], h[Q]),
         \A Q \in Places(gs) : \E P \in Places(hs) : h[P] = Q
  PROVE  Sound(hs) /\ Holds(hs, S)
<1>1. \A P \in Places(hs) :
        /\ h[P] \in Places(gs) /\ Key(hs, P) = Key(gs, h[P]) /\ KeysAt(hs, P) = KeysAt(gs, h[P])
  BY DEF Key, KeysAt
<1>2. \A P \in Places(hs) :
        /\ h[P] \in Places(gs)
        /\ KeysAt(hs, P) \subseteq KeysAt(gs, h[P])
        /\ Key(hs, P) = Key(gs, h[P]) \/ Key(hs, P) \in KeysAt(gs, h[P])
        /\ \A x \in KeysAt(hs, P) : x >= Key(hs, P)
  BY <1>1 DEF Sound, Floors
<1>3. Sound(hs)
  BY <1>2, Rebuilt
<1>4. Holds(hs, S)
  <2>1. \A P \in Places(hs) : \E Q \in Places(gs) : KeysAt(hs, P) \subseteq KeysAt(gs, Q)
    BY <1>2
  <2>2. \A Q \in Places(gs) : \A x \in KeysAt(gs, Q) : \E P \in Places(hs) : x \in KeysAt(hs, P)
    BY <1>1
  <2>3. QED
    BY <2>1, <2>2, StillHolds
<1>5. QED
  BY <1>3, <1>4

(* The entries that an expansion makes of pointers. *)
Single(g) == \A j \in DOMAIN g.bents : Len(g.bents[j]) = 1

(* Each pointer in an entry of its own. *)
LEMMA SinglesAre ==
  ASSUME NEW n \in Nat, NEW ps, DOMAIN ps = 1 .. n,
         \A m \in 1 .. n : ps[m] \in Pointer
  PROVE  /\ Singles(ps) \in Seq(Bents) /\ Len(Singles(ps)) = n
         /\ DOMAIN Singles(ps) = 1 .. n
         /\ \A m \in 1 .. n : /\ Singles(ps)[m] = <<ps[m]>> /\ Singles(ps)[m][1] = ps[m]
                              /\ DOMAIN Singles(ps)[m] = {1} /\ Len(Singles(ps)[m]) = 1
<1>1. Singles(ps) = [m \in 1 .. n |-> <<ps[m]>>]
  BY DEF Singles
<1>2. \A m \in 1 .. n : <<ps[m]>> \in Bents
  <2> SUFFICES ASSUME NEW m \in 1 .. n
               PROVE  <<ps[m]>> \in Bents
    OBVIOUS
  <2>1. ps[m] \in Pointer
    OBVIOUS
  <2>2. <<ps[m]>> \in Seq(Pointer) /\ Len(<<ps[m]>>) = 1
    BY <2>1
  <2>3. 1 \in 1 .. EntryCount
    BY Constants
  <2>4. QED
    BY <2>2, <2>3 DEF Bents, Pointer
<1>3. Singles(ps) \in [1 .. n -> Bents]
  BY <1>1, <1>2
<1>4. Singles(ps) \in Seq(Bents) /\ Len(Singles(ps)) = n
  BY <1>3, FunctionSeq
<1>5. DOMAIN Singles(ps) = 1 .. n /\ \A m \in 1 .. n : Singles(ps)[m] = <<ps[m]>>
  BY <1>1
<1>6. \A x : <<x>>[1] = x /\ DOMAIN <<x>> = {1} /\ Len(<<x>>) = 1
  OBVIOUS
<1>7. QED
  BY <1>4, <1>5, <1>6

(* What is at a place is a pointer. *)
LEMMA PointerRecord ==
  ASSUME NEW gs \in Tree, NEW P \in Places(gs)
  PROVE  PointerAt(gs, P) \in Pointer
<1>1. /\ P[1] \in DOMAIN gs /\ P[2] \in DOMAIN gs[P[1]].bents
      /\ P[3] \in DOMAIN gs[P[1]].bents[P[2]] /\ P = <<P[1], P[2], P[3]>>
  BY PlacesAre
<1>2. gs[P[1]].bents[P[2]] \in Bents
  BY PlacesNumbers
<1>3. PointerAt(gs, P) = gs[P[1]].bents[P[2]][P[3]]
  BY DEF PointerAt
<1>4. QED
  BY <1>1, <1>2, <1>3, BentParts

(* How many pointers a tree has. *)
LEMMA PointersLen ==
  ASSUME NEW gs \in Tree
  PROVE  /\ Len(Pointers(gs)) = Cardinality(Places(gs)) /\ Len(Pointers(gs)) \in Nat
         /\ DOMAIN Pointers(gs) = 1 .. Len(Pointers(gs))
         /\ \A m \in 1 .. Len(Pointers(gs)) :
              Pointers(gs)[m] \in Pointer
<1> DEFINE visit == Listed(Places(gs), Lexical(Places(gs)))
           n == Cardinality(Places(gs))
           ps == Pointers(gs)
<1>1. /\ n \in Nat /\ DOMAIN visit = 1 .. n /\ DOMAIN ps = 1 .. n
      /\ \A m \in DOMAIN visit : visit[m] \in Places(gs) /\ ps[m] = PointerAt(gs, visit[m])
  BY PointersAre
<1>2. ps = [m \in DOMAIN visit |-> PointerAt(gs, visit[m])]
  BY DEF Pointers
<1> HIDE DEF visit, ps, n
<1>3. \A P \in Places(gs) : PointerAt(gs, P) \in Pointer
  BY PointerRecord
<1>4. \A m \in 1 .. n : ps[m] \in Pointer
  BY <1>1, <1>3
<1>5. ps \in [1 .. n -> Pointer]
  BY <1>1, <1>2, <1>4
<1>6. Len(ps) = n
  BY <1>1, <1>5, FunctionSeq
<1>7. QED
  BY <1>1, <1>4, <1>6 DEF ps, n, Pointer

(* A tree with one of its groups replaced. *)
LEMMA GroupReplaced ==
  ASSUME NEW gs \in Tree, NEW g \in DOMAIN gs, NEW a \in Group
  PROVE  LET ts == [gs EXCEPT ![g] = a]
         IN  /\ ts \in Tree /\ DOMAIN ts = DOMAIN gs /\ Len(ts) = Len(gs)
             /\ ts[g] = a /\ \A i \in DOMAIN gs : i # g => ts[i] = gs[i]
<1>1. gs \in Seq(Group)
  BY DEF Tree
<1>2. QED
  BY <1>1 DEF Tree

(* The tree after group::expand, as far as types and counts go. *)
LEMMA GroupExpanded ==
  ASSUME NEW gs \in Tree, Counted(gs), NEW g \in DOMAIN gs
  PROVE  LET ps == Pointers(<<Adjusted(gs[g])>>)
             hs == [gs EXCEPT ![g].bents = Singles(ps), ![g].next_entry_count = Len(ps)]
         IN  /\ hs \in Tree /\ DOMAIN hs = DOMAIN gs /\ Len(hs) = Len(gs)
             /\ hs[g].bents = Singles(ps)
             /\ \A i \in DOMAIN gs : i # g => hs[i] = gs[i]
             /\ Counted(hs) /\ Single(hs[g])
<1> DEFINE a == Adjusted(gs[g])
           ps == Pointers(<<a>>)
           n == Len(ps)
           nbs == Singles(ps)
           hs == [gs EXCEPT ![g].bents = nbs, ![g].next_entry_count = n]
<1>1. gs[g] \in Group
  BY Parts
<1>2. a \in Group
  BY <1>1, AdjustedIs
<1>3. <<a>> \in Tree
  BY <1>2, OneGroup
<1>4. /\ n \in Nat /\ DOMAIN ps = 1 .. n
      /\ \A m \in 1 .. n : ps[m] \in Pointer
  BY <1>3, PointersLen
<1> HIDE DEF ps
<1>5. /\ nbs \in Seq(Bents) /\ DOMAIN nbs = 1 .. n
      /\ \A m \in 1 .. n : DOMAIN nbs[m] = {1} /\ Len(nbs[m]) = 1
  BY <1>4, SinglesAre
<1> HIDE DEF n, nbs
<1> DEFINE new == [bents |-> nbs, next_entry_count |-> n, min_key |-> gs[g].min_key]
<1>6. hs = [gs EXCEPT ![g] = new]
  <2>1. hs = [[gs EXCEPT ![g].bents = nbs] EXCEPT ![g].next_entry_count = n]
    BY TwoUpdatesGroup
  <2> DEFINE mid == [gs EXCEPT ![g].bents = nbs]
  <2>2. mid = [gs EXCEPT ![g] = [gs[g] EXCEPT !.bents = nbs]]
    OBVIOUS
  <2>3. [gs[g] EXCEPT !.bents = nbs]
           = [bents |-> nbs, next_entry_count |-> gs[g].next_entry_count, min_key |-> gs[g].min_key]
    BY <1>1, GroupUpdates
  <2>4. mid[g] = [bents |-> nbs, next_entry_count |-> gs[g].next_entry_count,
                  min_key |-> gs[g].min_key]
    BY <2>2, <2>3
  <2>5. [mid[g] EXCEPT !.next_entry_count = n] = new
    <3> HIDE DEF mid, hs
    <3>1. gs[g].next_entry_count \in Nat /\ gs[g].min_key \in 0 .. MaxKey
      BY <1>1, GroupParts
    <3>2. /\ mid[g] \in Group /\ mid[g].bents = nbs /\ mid[g].min_key = gs[g].min_key
      BY <1>5, <2>4, <3>1 DEF Group
    <3>3. [mid[g] EXCEPT !.next_entry_count = n]
            = [bents |-> mid[g].bents, next_entry_count |-> n, min_key |-> mid[g].min_key]
      BY <3>2, GroupUpdates
    <3>4. QED
      BY <3>2, <3>3
  <2>6. [mid EXCEPT ![g].next_entry_count = n] = [mid EXCEPT ![g] = new]
    BY <2>5
  <2>7. [mid EXCEPT ![g] = new] = [gs EXCEPT ![g] = new]
    <3>1. DOMAIN mid = DOMAIN gs /\ \A i \in DOMAIN gs : i # g => mid[i] = gs[i]
      BY <2>2
    <3> HIDE DEF mid, new
    <3>2. [mid EXCEPT ![g] = new] = [i \in DOMAIN mid |-> IF i = g THEN new ELSE mid[i]]
      OBVIOUS
    <3>3. [gs EXCEPT ![g] = new] = [i \in DOMAIN gs |-> IF i = g THEN new ELSE gs[i]]
      OBVIOUS
    <3>4. QED
      BY <3>1, <3>2, <3>3
  <2>8. QED
    BY <2>1, <2>6, <2>7
<1>7. new \in Group
  <2>1. gs[g].min_key \in 0 .. MaxKey
    BY <1>1, GroupParts
  <2>2. QED
    BY <1>4, <1>5, <2>1 DEF Group
<1> HIDE DEF hs
<1>8. new.bents = nbs /\ new.next_entry_count = n
  OBVIOUS
<1> HIDE DEF new
<1>9. /\ hs \in Tree /\ DOMAIN hs = DOMAIN gs /\ Len(hs) = Len(gs)
      /\ hs[g] = new /\ \A i \in DOMAIN gs : i # g => hs[i] = gs[i]
  BY <1>6, <1>7, GroupReplaced
<1>10. Counted(hs)
  <2>1. Cardinality(Places(<<new>>)) = n
    BY <1>4, <1>5, <1>8, CountSingles
  <2>2. \A i \in DOMAIN gs : gs[i].next_entry_count = Cardinality(Places(<<gs[i]>>))
    BY DEF Counted
  <2>3. QED
    BY <1>8, <1>9, <2>1, <2>2 DEF Counted
<1>11. Single(hs[g])
  BY <1>5, <1>8, <1>9 DEF Single
<1>12. QED
  BY <1>8, <1>9, <1>10, <1>11 DEF hs, nbs, n, ps

(* The tree after group::expand holds what it held. *)
LEMMA GroupExpandedContent ==
  ASSUME NEW gs \in Tree, NEW S, NEW r, Content(gs, S, r),
         NEW g \in DOMAIN gs, ~ Bare(gs, g), NEW hs \in Tree,
         DOMAIN hs = DOMAIN gs, hs[g].bents = Singles(Pointers(<<Adjusted(gs[g])>>)),
         \A i \in DOMAIN gs : i # g => hs[i] = gs[i]
  PROVE  /\ Content(hs, S, r)
         /\ \A k \in Keys : Named(gs, r, k, g) => Named(hs, r, k, g)
<1> DEFINE a == Adjusted(gs[g])
           one == <<a>>
           visit == Listed(Places(one), Lexical(Places(one)))
           ps == Pointers(one)
           n == Len(ps)
           ts == [gs EXCEPT ![g] = a]
<1>1. Sound(gs) /\ Holds(gs, S) /\ Inhabited(gs) /\ Covers(gs, r)
  BY DEF Content
<1>2. gs[g] \in Group /\ a \in Group
  BY Parts, AdjustedIs
<1>3. /\ one \in Tree /\ DOMAIN one = {1} /\ one[1] = a
  BY <1>2, OneGroup
<1>4. /\ ts \in Tree /\ DOMAIN ts = DOMAIN gs /\ Len(ts) = Len(gs)
      /\ ts[g] = a /\ \A i \in DOMAIN gs : i # g => ts[i] = gs[i]
  <2> HIDE DEF a
  <2>1. QED
    BY <1>2, GroupReplaced
<1>5. \A i \in DOMAIN gs : ts[i] = gs[i] \/ ts[i] = Adjusted(gs[i])
  BY <1>4
<1> HIDE DEF ts
<1>6. /\ Places(ts) = Places(gs) /\ Sound(ts) /\ Holds(ts, S)
      /\ \A i \in DOMAIN gs : Bare(ts, i) <=> Bare(gs, i)
      /\ \A P \in Places(gs) : Key(ts, P) >= Key(gs, P)
  BY <1>1, <1>4, <1>5, AdjustedTree
<1>7. /\ n \in Nat /\ DOMAIN ps = 1 .. n /\ n = Cardinality(Places(one))
      /\ \A m \in 1 .. n : ps[m] \in Pointer
  <2> HIDE DEF one
  <2>1. QED
    BY <1>3, PointersLen
<1>8. /\ DOMAIN visit = 1 .. n
      /\ \A m \in 1 .. n : visit[m] \in Places(one) /\ ps[m] = PointerAt(one, visit[m])
      /\ \A m, q \in 1 .. n : m < q => Before(visit[m], visit[q])
      /\ \A P \in Places(one) : \E m \in 1 .. n : visit[m] = P
  <2>1. one \in Tree
    BY <1>3
  <2> HIDE DEF one
  <2>2. /\ DOMAIN visit = 1 .. Cardinality(Places(one))
        /\ \A m \in DOMAIN visit : visit[m] \in Places(one) /\ ps[m] = PointerAt(one, visit[m])
        /\ \A m, q \in DOMAIN visit : m < q => Before(visit[m], visit[q])
        /\ \A P \in Places(one) : \E m \in DOMAIN visit : visit[m] = P
    BY <2>1, PointersAre
  <2> HIDE DEF visit, ps, n
  <2>3. QED
    BY <1>7, <2>2
<1> HIDE DEF visit
<1>9. /\ hs[g].bents = Singles(ps) /\ DOMAIN hs[g].bents = 1 .. n
      /\ \A m \in 1 .. n : DOMAIN hs[g].bents[m] = {1} /\ hs[g].bents[m][1] = ps[m]
  <2>1. hs[g].bents = Singles(ps)
    OBVIOUS
  <2> HIDE DEF ps, n
  <2>2. QED
    BY <1>7, <2>1, SinglesAre
<1> HIDE DEF ps, n, one
<1> DEFINE v(m) == <<g, visit[m][2], visit[m][3]>>
           h == [P \in Places(hs) |-> IF P[1] = g THEN v(P[2]) ELSE P]
<1>10. \* the pointers of the group, by the places they had in it
       \A m \in 1 .. n :
         /\ v(m) \in Places(ts) /\ PointerAt(ts, v(m)) = ps[m]
         /\ visit[m] = <<1, visit[m][2], visit[m][3]>>
  <2> SUFFICES ASSUME NEW m \in 1 .. n
               PROVE  /\ v(m) \in Places(ts) /\ PointerAt(ts, v(m)) = ps[m]
                      /\ visit[m] = <<1, visit[m][2], visit[m][3]>>
    OBVIOUS
  <2>1. visit[m] \in Places(one) /\ ps[m] = PointerAt(one, visit[m])
    BY <1>8
  <2>2. /\ visit[m][1] \in DOMAIN one /\ visit[m][2] \in DOMAIN one[visit[m][1]].bents
        /\ visit[m][3] \in DOMAIN one[visit[m][1]].bents[visit[m][2]]
        /\ visit[m] = <<visit[m][1], visit[m][2], visit[m][3]>>
    BY <2>1, PlacesAre
  <2>3. visit[m][1] = 1 /\ one[visit[m][1]] = a
    BY <1>3, <2>2
  <2>4. visit[m][2] \in DOMAIN ts[g].bents /\ visit[m][3] \in DOMAIN ts[g].bents[visit[m][2]]
    BY <1>4, <2>2, <2>3
  <2>5. v(m) \in Places(ts) /\ PointerAt(ts, v(m)) = ts[g].bents[visit[m][2]][visit[m][3]]
    BY <1>4, <2>4, PlacesAre
  <2>6. ps[m] = a.bents[visit[m][2]][visit[m][3]]
    BY <2>1, <2>3 DEF PointerAt
  <2>7. QED
    BY <1>4, <2>2, <2>3, <2>5, <2>6
<1>11. ASSUME NEW P \in Places(hs), P[1] = g
       PROVE  P[2] \in 1 .. n /\ P[3] = 1 /\ P = <<g, P[2], 1>> /\ PointerAt(hs, P) = ps[P[2]]
  <2>1. P[2] \in DOMAIN hs[g].bents /\ P[3] \in DOMAIN hs[g].bents[P[2]] /\ P = <<P[1], P[2], P[3]>>
    BY <1>11, PlacesAre
  <2>2. P[2] \in 1 .. n
    BY <1>9, <2>1
  <2>3. DOMAIN hs[g].bents[P[2]] = {1} /\ hs[g].bents[P[2]][1] = ps[P[2]]
    BY <1>9, <2>2
  <2>4. P[3] = 1
    BY <2>1, <2>3
  <2>5. QED
    BY <1>11, <2>1, <2>2, <2>3, <2>4 DEF PointerAt
<1>12. \A m \in 1 .. n : <<g, m, 1>> \in Places(hs)
  <2> SUFFICES ASSUME NEW m \in 1 .. n
               PROVE  <<g, m, 1>> \in Places(hs)
    OBVIOUS
  <2>1. g \in DOMAIN hs /\ m \in DOMAIN hs[g].bents /\ 1 \in DOMAIN hs[g].bents[m]
    BY <1>9
  <2>2. QED
    BY <2>1, PlacesAre
<1>13. ASSUME NEW P, P[1] # g
       PROVE  /\ P \in Places(hs) <=> P \in Places(ts)
              /\ P \in Places(hs) => PointerAt(hs, P) = PointerAt(ts, P)
                                     /\ PointerAt(hs, P) = PointerAt(gs, P)
  <2>1. ASSUME P \in Places(hs)
        PROVE  /\ P \in Places(ts) /\ PointerAt(hs, P) = PointerAt(ts, P)
               /\ PointerAt(hs, P) = PointerAt(gs, P)
    <3>1. /\ P[1] \in DOMAIN hs /\ P[2] \in DOMAIN hs[P[1]].bents
          /\ P[3] \in DOMAIN hs[P[1]].bents[P[2]] /\ P = <<P[1], P[2], P[3]>>
      BY <2>1, PlacesAre
    <3>2. hs[P[1]] = ts[P[1]] /\ P[1] \in DOMAIN ts /\ hs[P[1]] = gs[P[1]]
      BY <1>4, <1>13, <3>1
    <3>3. <<P[1], P[2], P[3]>> \in Places(ts)
      BY <3>1, <3>2, PlacesAre
    <3>4. QED
      BY <3>1, <3>2, <3>3 DEF PointerAt
  <2>2. ASSUME P \in Places(ts) PROVE P \in Places(hs)
    <3>1. /\ P[1] \in DOMAIN ts /\ P[2] \in DOMAIN ts[P[1]].bents
          /\ P[3] \in DOMAIN ts[P[1]].bents[P[2]] /\ P = <<P[1], P[2], P[3]>>
      BY <2>2, PlacesAre
    <3>2. hs[P[1]] = ts[P[1]] /\ P[1] \in DOMAIN hs
      BY <1>4, <1>13, <3>1
    <3>3. QED
      BY <3>1, <3>2, PlacesAre
  <2>3. QED
    BY <2>1, <2>2
<1>14. \A P \in Places(hs) : h[P] = IF P[1] = g THEN v(P[2]) ELSE P
  OBVIOUS
<1> HIDE DEF h
<1>15. \A P \in Places(hs) : h[P] \in Places(ts) /\ PointerAt(hs, P) = PointerAt(ts, h[P])
  <2> SUFFICES ASSUME NEW P \in Places(hs)
               PROVE  h[P] \in Places(ts) /\ PointerAt(hs, P) = PointerAt(ts, h[P])
    OBVIOUS
  <2> HIDE DEF v
  <2>1. CASE P[1] = g
    BY <1>10, <1>11, <1>14, <2>1
  <2>2. CASE P[1] # g
    BY <1>13, <1>14, <2>2
  <2>3. QED
    BY <2>1, <2>2
<1>16. \A P, Q \in Places(hs) : Before(P, Q) => Before(h[P], h[Q])
  <2> SUFFICES ASSUME NEW P \in Places(hs), NEW Q \in Places(hs), Before(P, Q)
               PROVE  Before(h[P], h[Q])
    OBVIOUS
  <2>1. \A m \in 1 .. n : v(m)[1] = g /\ v(m)[2] = visit[m][2] /\ v(m)[3] = visit[m][3]
    OBVIOUS
  <2> HIDE DEF v
  <2>2. CASE P[1] = g /\ Q[1] = g
    <3>1. P[2] \in 1 .. n /\ Q[2] \in 1 .. n /\ P[3] = 1 /\ Q[3] = 1
      BY <1>11, <2>2
    <3>2. g \in Nat /\ P[2] \in Nat /\ Q[2] \in Nat
      BY <1>7, <3>1, Parts
    <3>3. P[2] < Q[2]
      BY <2>2, <3>1, <3>2 DEF Before
    <3>4. Before(visit[P[2]], visit[Q[2]])
      BY <1>8, <3>1, <3>3
    <3>5. visit[P[2]][1] = 1 /\ visit[Q[2]][1] = 1
      BY <1>10, <3>1
    <3>6. h[P] = v(P[2]) /\ h[Q] = v(Q[2])
      BY <1>14, <2>2
    <3>7. QED
      BY <2>1, <3>1, <3>4, <3>5, <3>6 DEF Before
  <2>3. CASE ~ (P[1] = g /\ Q[1] = g)
    <3>1. h[P][1] = P[1] /\ h[Q][1] = Q[1]
      BY <1>11, <1>14, <2>1
    <3>2. P[1] \in DOMAIN gs /\ Q[1] \in DOMAIN gs
      BY PlacesAre
    <3>3. P[1] \in Nat /\ Q[1] \in Nat /\ g \in Nat
      BY <3>2, Parts
    <3>4. CASE P[1] < Q[1]
      BY <3>1, <3>4 DEF Before
    <3>5. CASE P[1] = Q[1]
      BY <1>14, <2>3, <3>5
    <3>6. QED
      BY <3>3, <3>4, <3>5 DEF Before
  <2>4. QED
    BY <2>2, <2>3
<1>17. \A Q \in Places(ts) : \E P \in Places(hs) : h[P] = Q
  <2> SUFFICES ASSUME NEW Q \in Places(ts)
               PROVE  \E P \in Places(hs) : h[P] = Q
    OBVIOUS
  <2>1. CASE Q[1] = g
    <3>1. Q[2] \in DOMAIN ts[g].bents /\ Q[3] \in DOMAIN ts[g].bents[Q[2]] /\ Q = <<g, Q[2], Q[3]>>
      BY <2>1, PlacesAre
    <3>2. <<1, Q[2], Q[3]>> \in Places(one)
      BY <1>3, <1>4, <3>1, PlacesAre
    <3>3. PICK m \in 1 .. n : visit[m] = <<1, Q[2], Q[3]>>
      BY <1>8, <3>2
    <3>4. <<g, m, 1>> \in Places(hs) /\ h[<<g, m, 1>>] = v(m)
      BY <1>12, <1>14
    <3>5. v(m) = Q
      BY <3>1, <3>3
    <3>6. QED
      BY <3>4, <3>5
  <2>2. CASE Q[1] # g
    BY <1>13, <1>14, <2>2
  <2>3. QED
    BY <2>1, <2>2
<1> HIDE DEF v
<1>18. Sound(hs) /\ Holds(hs, S)
  BY <1>6, <1>15, <1>16, <1>17, Regrouped
<1>19. n >= 1
  <2>1. <<g, 1, 1>> \in Places(ts)
    BY <1>6, FirstPlace
  <2>2. PICK P \in Places(hs) : h[P] = <<g, 1, 1>>
    BY <1>17, <2>1
  <2>3. P[1] = g
    BY <1>14, <2>2
  <2>4. QED
    BY <1>7, <1>11, <2>3
<1>20. \A i \in DOMAIN gs : Bare(hs, i) <=> Bare(gs, i)
  <2>1. hs[g].bents # <<>>
    <3>1. 1 \in DOMAIN hs[g].bents
      BY <1>7, <1>9, <1>19
    <3>2. QED
      BY <3>1
  <2>2. QED
    BY <2>1 DEF Bare
<1>21. \A i \in DOMAIN gs : ~ Bare(gs, i) => EntryKey(hs[i], 0) >= EntryKey(gs[i], 0)
  <2> SUFFICES ASSUME NEW i \in DOMAIN gs, ~ Bare(gs, i)
               PROVE  EntryKey(hs[i], 0) >= EntryKey(gs[i], 0)
    OBVIOUS
  <2>1. EntryKey(gs[i], 0) \in Nat
    BY FirstPlace
  <2>2. CASE i # g
    BY <2>1, <2>2
  <2>3. CASE i = g
    <3> DEFINE P == <<g, 1, 1>>
    <3>1. P \in Places(hs) /\ EntryKey(hs[g], 0) = Key(hs, P) /\ EntryKey(hs[g], 0) \in Nat
      BY <1>20, FirstPlace
    <3>2. P[1] = g
      OBVIOUS
    <3> HIDE DEF P
    <3>3. h[P] = v(P[2]) /\ v(P[2])[1] = g
      BY <1>14, <3>1, <3>2 DEF v
    <3>4. h[P] \in Places(gs) /\ Key(hs, P) = Key(ts, h[P]) /\ h[P][1] = g
      BY <1>6, <1>15, <3>1, <3>3 DEF Key
    <3>5. Key(ts, h[P]) >= Key(gs, h[P])
      BY <1>6, <3>4
    <3>6. Key(gs, h[P]) >= EntryKey(gs[g], 0)
      BY <1>1, <3>4, FromFirst
    <3>7. Key(gs, h[P]) \in Nat /\ Key(ts, h[P]) \in Nat
      BY <3>1, <3>4, PlacesNumbers
    <3>8. QED
      BY <2>1, <2>3, <3>1, <3>4, <3>5, <3>6, <3>7
  <2>4. QED
    BY <2>2, <2>3
<1>22. Inhabited(hs)
  BY <1>20 DEF Inhabited
<1>23. Covers(hs, r)
  <2>1. ASSUME NEW i \in DOMAIN hs, NEW x \in Keys, ~ Bare(hs, i),
               NEW q \in 1 .. i - 1, ~ Bare(hs, q), EntryKey(hs[i], 0) <= x
        PROVE  i <= r[x]
    <3>1. DOMAIN gs = 1 .. Len(gs) /\ Len(gs) \in Nat
      BY Parts
    <3>2. i \in DOMAIN gs /\ q \in DOMAIN gs
      BY <2>1, <3>1
    <3>3. ~ Bare(gs, i) /\ ~ Bare(gs, q)
      BY <1>20, <2>1, <3>2
    <3>4. EntryKey(gs[i], 0) \in Nat
      BY <3>2, <3>3, FirstPlace
    <3>5. EntryKey(hs[i], 0) \in Nat
      BY <2>1, FirstPlace
    <3>6. x \in Nat
      BY Constants DEF Keys
    <3>7. EntryKey(gs[i], 0) \in Nat /\ EntryKey(hs[i], 0) \in Nat /\ x \in Nat
      BY <3>4, <3>5, <3>6
    <3>8. EntryKey(gs[i], 0) <= x
      BY <1>21, <2>1, <3>2, <3>3, <3>7
    <3>9. QED
      BY <1>1, <2>1, <3>2, <3>3, <3>8 DEF Covers
  <2>2. QED
    BY <2>1 DEF Covers
<1>24. ASSUME NEW k \in Keys, Named(gs, r, k, g)
       PROVE  Named(hs, r, k, g)
  <2>1. \A P \in Places(gs) :
          /\ P[1] < g => Key(gs, P) < k /\ \A x \in KeysAt(gs, P) : x < k
          /\ P[1] > g => Key(gs, P) > k
    BY <1>24 DEF Named, OwnsGroup
  <2>2. ASSUME NEW P \in Places(hs)
        PROVE  /\ P[1] < g => Key(hs, P) < k /\ \A x \in KeysAt(hs, P) : x < k
               /\ P[1] > g => Key(hs, P) > k
    <3>1. CASE P[1] = g
      <4>1. g \in Nat
        BY Parts
      <4>2. QED
        BY <3>1, <4>1
    <3>2. CASE P[1] # g
      <4>1. P \in Places(gs) /\ Key(hs, P) = Key(gs, P) /\ KeysAt(hs, P) = KeysAt(gs, P)
        BY <1>6, <1>13, <3>2 DEF Key, KeysAt
      <4>2. QED
        BY <2>1, <4>1
    <3>3. QED
      BY <3>1, <3>2
  <2>3. g \in DOMAIN hs /\ ~ Bare(hs, g)
    BY <1>20
  <2>4. OwnsGroup(hs, k, g)
    BY <2>2, <2>3 DEF OwnsGroup
  <2>5. (\A q \in 1 .. g - 1 : Bare(hs, q)) \/ g <= r[k]
    <3>1. \A q \in 1 .. g - 1 : q \in DOMAIN gs
      BY Parts
    <3>2. QED
      BY <1>20, <1>24, <3>1 DEF Named
  <2>6. QED
    BY <2>4, <2>5 DEF Named
<1>25. QED
  BY <1>18, <1>22, <1>23, <1>24 DEF Content

-----------------------------------------------------------------------------
(* The tree expansion: the number of groups, the new model, the new groups *)

(* The count of entries over all groups. *)
SumOf(f, n, c) == f = [j \in 0 .. n |-> IF j = 0 THEN 0 ELSE f[j - 1] + c[j]]

(* The function that sums the counts exists: it is defined by recursion. *)
LEMMA SumExists ==
  ASSUME NEW c
  PROVE  \A n \in Nat : \E f : SumOf(f, n, c)
<1> DEFINE Bad == {n \in Nat : ~ \E f : SumOf(f, n, c)}
<1>1. SUFFICES ASSUME Bad # {} PROVE FALSE
  OBVIOUS
<1>2. PICK n \in Bad : \A m \in Bad : n <= m
  <2>1. Bad \in SUBSET Nat
    OBVIOUS
  <2> HIDE DEF Bad
  <2>2. QED
    BY <1>1, <2>1, Least
<1>3. n \in Nat /\ ~ \E f : SumOf(f, n, c)
  OBVIOUS
<1>4. n # 0
  <2>1. SumOf([j \in 0 .. 0 |-> 0], 0, c)
    BY DEF SumOf
  <2> HIDE DEF Bad
  <2>2. QED
    BY <1>3, <2>1
<1>5. n - 1 \in Nat /\ n - 1 \notin Bad
  <2>1. n - 1 \in Nat /\ ~ (n <= n - 1)
    BY <1>3, <1>4
  <2> HIDE DEF Bad
  <2>2. QED
    BY <1>2, <2>1
<1>6. PICK f : SumOf(f, n - 1, c)
  BY <1>5
<1> DEFINE h == [j \in 0 .. n |-> IF j = n THEN f[n - 1] + c[n] ELSE f[j]]
<1>7. SumOf(h, n, c)
  <2>1. DOMAIN h = 0 .. n
    OBVIOUS
  <2>2. ASSUME NEW j \in 0 .. n PROVE h[j] = IF j = 0 THEN 0 ELSE h[j - 1] + c[j]
    <3>1. j \in Nat /\ j <= n
      BY <1>3
    <3>2. CASE j = n
      <4>1. h[j] = f[n - 1] + c[n]
        BY <3>2
      <4>2. n - 1 \in 0 .. n /\ n - 1 # n
        BY <1>3, <1>5
      <4>3. h[n - 1] = f[n - 1]
        BY <4>2
      <4>4. QED
        BY <3>2, <4>1, <4>3, <1>4
    <3>3. CASE j # n
      <4>1. j \in 0 .. n - 1
        BY <1>3, <3>1, <3>3
      <4>2. h[j] = f[j] /\ f[j] = IF j = 0 THEN 0 ELSE f[j - 1] + c[j]
        BY <1>6, <3>3, <4>1 DEF SumOf
      <4>3. CASE j = 0
        BY <4>2, <4>3
      <4>4. CASE j # 0
        <5>1. j - 1 \in 0 .. n /\ j - 1 # n
          BY <1>3, <3>1, <4>4
        <5>2. h[j - 1] = f[j - 1]
          BY <5>1
        <5>3. QED
          BY <4>2, <4>4, <5>2
      <4>5. QED
        BY <4>3, <4>4
    <3>4. QED
      BY <3>2, <3>3
  <2> DEFINE hh == [j \in 0 .. n |-> IF j = 0 THEN 0 ELSE h[j - 1] + c[j]]
  <2>3. h = hh
    <3>1. DOMAIN hh = 0 .. n /\ \A j \in 0 .. n : hh[j] = IF j = 0 THEN 0 ELSE h[j - 1] + c[j]
      OBVIOUS
    <3>2. h = [j \in 0 .. n |-> h[j]] /\ hh = [j \in 0 .. n |-> hh[j]]
      OBVIOUS
    <3> HIDE DEF h, hh
    <3>3. \A j \in 0 .. n : h[j] = hh[j]
      BY <2>2, <3>1
    <3>4. QED
      BY <3>2, <3>3
  <2>4. QED
    BY <2>3 DEF SumOf
<1> HIDE DEF h
<1>8. QED
  BY <1>3, <1>7

(* The sum of counts is at least each of them. *)
LEMMA Summing ==
  ASSUME NEW n \in Nat, NEW c, \A m \in 1 .. n : c[m] \in Nat, NEW f, SumOf(f, n, c)
  PROVE  f[n] \in Nat /\ \A m \in 1 .. n : c[m] <= f[n]
<1> DEFINE Bad == {j \in 0 .. n : ~ (f[j] \in Nat /\ \A m \in 1 .. j : c[m] <= f[j])}
<1>1. SUFFICES Bad = {}
  <2>1. n \in 0 .. n
    OBVIOUS
  <2>2. QED
    BY <2>1
<1>2. SUFFICES ASSUME Bad # {} PROVE FALSE
  OBVIOUS
<1>3. PICK j \in Bad : \A m \in Bad : j <= m
  <2>1. Bad \in SUBSET Nat
    OBVIOUS
  <2> HIDE DEF Bad
  <2>2. QED
    BY <1>2, <2>1, Least
<1>4. j \in 0 .. n /\ ~ (f[j] \in Nat /\ \A m \in 1 .. j : c[m] <= f[j])
  OBVIOUS
<1>5. f[j] = IF j = 0 THEN 0 ELSE f[j - 1] + c[j]
  BY <1>4 DEF SumOf
<1>6. CASE j = 0
  <2>1. 1 .. j = {}
    BY <1>6
  <2>2. QED
    BY <1>4, <1>5, <1>6, <2>1
<1>7. CASE j # 0
  <2>1. j \in 1 .. n /\ j - 1 \in 0 .. n /\ ~ (j <= j - 1)
    BY <1>4, <1>7
  <2>2. f[j - 1] \in Nat /\ \A m \in 1 .. j - 1 : c[m] <= f[j - 1]
    BY <1>3, <2>1
  <2>3. c[j] \in Nat /\ f[j] = f[j - 1] + c[j]
    BY <1>5, <1>7, <2>1
  <2>4. f[j] \in Nat /\ c[j] <= f[j] /\ f[j - 1] <= f[j]
    BY <2>2, <2>3
  <2>5. ASSUME NEW m \in 1 .. j PROVE c[m] <= f[j]
    <3>1. m \in 1 .. n /\ (m = j \/ m \in 1 .. j - 1)
      BY <2>1
    <3>2. CASE m = j
      BY <2>4, <3>2
    <3>3. CASE m \in 1 .. j - 1
      <4>1. c[m] \in Nat /\ c[m] <= f[j - 1]
        BY <2>2, <3>1, <3>3
      <4>2. QED
        BY <2>2, <2>4, <4>1
    <3>4. QED
      BY <3>1, <3>2, <3>3
  <2>6. QED
    BY <1>4, <2>4, <2>5
<1>8. QED
  BY <1>6, <1>7

(* The count of entries with which ExpandTree allocates the new groups. *)
LEMMA EntrySum ==
  ASSUME NEW gs \in Tree
  PROVE  LET entry_count[i \in 0 .. Len(gs)] ==
               IF i = 0 THEN 0 ELSE entry_count[i - 1] + gs[i].next_entry_count
         IN  /\ entry_count[Len(gs)] \in Nat
             /\ \A i \in DOMAIN gs : gs[i].next_entry_count <= entry_count[Len(gs)]
<1> DEFINE entry_count == CHOOSE f : f = [i \in 0 .. Len(gs) |->
             IF i = 0 THEN 0 ELSE f[i - 1] + gs[i].next_entry_count]
           n == Len(gs)
           c == [i \in DOMAIN gs |-> gs[i].next_entry_count]
<1>1. n \in Nat /\ DOMAIN gs = 1 .. n /\ \A i \in 1 .. n : gs[i] \in Group
  BY Parts
<1>2. \A i \in 1 .. n : c[i] = gs[i].next_entry_count /\ c[i] \in Nat
  BY <1>1, GroupParts
<1>3. \A f : SumOf(f, n, c) <=> f = [i \in 0 .. n |-> IF i = 0 THEN 0 ELSE f[i - 1] + gs[i].next_entry_count]
  <2> SUFFICES ASSUME NEW f
               PROVE  [i \in 0 .. n |-> IF i = 0 THEN 0 ELSE f[i - 1] + c[i]]
                        = [i \in 0 .. n |-> IF i = 0 THEN 0 ELSE f[i - 1] + gs[i].next_entry_count]
    BY DEF SumOf
  <2>1. \A i \in 0 .. n : i = 0 \/ i \in 1 .. n
    BY <1>1
  <2> HIDE DEF c
  <2>2. QED
    BY <1>2, <2>1
<1> HIDE DEF c
<1>4. \E f : SumOf(f, n, c)
  BY <1>1, SumExists
<1>5. SumOf(entry_count, n, c)
  BY <1>3, <1>4
<1> HIDE DEF entry_count
<1>6. entry_count[n] \in Nat /\ \A m \in 1 .. n : c[m] <= entry_count[n]
  BY <1>1, <1>2, <1>5, Summing
<1>7. QED
  BY <1>1, <1>2, <1>6 DEF entry_count

(* What training yields when no prediction leaves the range of int: a      *)
(* group for every key, never descending.                                  *)
LEMMA RouteIs ==
  ASSUME NEW n \in Nat, n >= 1, NEW trained, NEW r \in Routes(n, trained)
  PROVE  r \in [Keys -> 1 .. n] /\ (~ MayOverflow => Monotone(r))
<1> DEFINE cuts == IF MayOverflow THEN {c \in Keys : \A t \in trained : c > t} ELSE {}
           Below(k, f) == {s \in 1 .. n - 1 : k >= f[s]}
           Line(c, f) == [k \in Keys |-> IF k >= c THEN 1 ELSE 1 + Cardinality(Below(k, f))]
<1>1. Routes(n, trained)
        = {Line(c, f) : c \in cuts \union {MaxKey + 1}, f \in [1 .. n - 1 -> 1 .. MaxKey + 1]}
  BY DEF Routes
<1> HIDE DEF Line
<1>2. \E c \in cuts \union {MaxKey + 1} : \E f \in [1 .. n - 1 -> 1 .. MaxKey + 1] : r = Line(c, f)
  BY <1>1
<1>3. PICK c \in cuts \union {MaxKey + 1}, f \in [1 .. n - 1 -> 1 .. MaxKey + 1] :
        r = [k \in Keys |-> IF k >= c THEN 1 ELSE 1 + Cardinality(Below(k, f))]
  BY <1>2 DEF Line
<1>4. IsFiniteSet(1 .. n - 1) /\ Cardinality(1 .. n - 1) = n - 1
  <2>1. n - 1 \in Nat
    OBVIOUS
  <2>2. QED
    BY <2>1, FS_Interval
<1>5. \A k \in Keys : /\ Cardinality(Below(k, f)) \in Nat /\ Cardinality(Below(k, f)) <= n - 1
                      /\ IsFiniteSet(Below(k, f))
  <2> SUFFICES ASSUME NEW k \in Keys
               PROVE  /\ Cardinality(Below(k, f)) \in Nat /\ Cardinality(Below(k, f)) <= n - 1
                      /\ IsFiniteSet(Below(k, f))
    OBVIOUS
  <2>1. Below(k, f) \subseteq 1 .. n - 1
    OBVIOUS
  <2> HIDE DEF Below
  <2>2. IsFiniteSet(Below(k, f)) /\ Cardinality(Below(k, f)) <= Cardinality(1 .. n - 1)
    BY <1>4, <2>1, FS_Subset
  <2>3. Cardinality(Below(k, f)) \in Nat
    BY <2>2, FS_CardinalityType
  <2>4. QED
    BY <1>4, <2>2, <2>3
<1>6. r \in [Keys -> 1 .. n]
  <2>1. \A k \in Keys : (IF k >= c THEN 1 ELSE 1 + Cardinality(Below(k, f))) \in 1 .. n
    <3> HIDE DEF Below
    <3>1. QED
      BY <1>5
  <2> HIDE DEF Below
  <2>2. QED
    BY <1>3, <2>1
<1>7. ASSUME ~ MayOverflow PROVE Monotone(r)
  <2>1. c = MaxKey + 1
    BY <1>7
  <2>2. \A k \in Keys : k \in Int /\ ~ (k >= c)
    BY <2>1, Constants DEF Keys
  <2>3. \A k \in Keys : r[k] = 1 + Cardinality(Below(k, f))
    <3> HIDE DEF Below
    <3>1. QED
      BY <1>3, <2>2
  <2>4. ASSUME NEW j \in Keys, NEW k \in Keys, j <= k
        PROVE  r[j] <= r[k]
    <3>1. \A s \in 1 .. n - 1 : f[s] \in Int
      BY Constants
    <3>2. Below(j, f) \subseteq Below(k, f)
      BY <2>2, <2>4, <3>1
    <3> HIDE DEF Below
    <3>3. Cardinality(Below(j, f)) <= Cardinality(Below(k, f))
      BY <1>5, <3>2, FS_Subset
    <3>4. QED
      BY <1>5, <2>3, <3>3
  <2>5. QED
    BY <2>4 DEF Monotone
<1>8. QED
  BY <1>6, <1>7

(* The members of a sequence picked at some of its places. *)
LEMMA PickedIs ==
  ASSUME NEW ps, NEW n \in Nat, DOMAIN ps = 1 .. n, \A m \in 1 .. n : ps[m] \in Pointer,
         NEW places \in SUBSET (1 .. n)
  PROVE  LET o == Ordered(places)
             mine == Picked(ps, places)
         IN  /\ Len(mine) = Cardinality(places) /\ Len(mine) \in Nat /\ DOMAIN mine = 1 .. Len(mine)
             /\ \A q \in 1 .. Len(mine) : o[q] \in places /\ mine[q] = ps[o[q]] /\ mine[q] \in Pointer
             /\ \A p, q \in 1 .. Len(mine) : p < q => o[p] < o[q]
             /\ \A x \in places : \E q \in 1 .. Len(mine) : o[q] = x
             /\ mine # <<>> => 1 \in 1 .. Len(mine)
             /\ 1 \in 1 .. Len(mine) => mine # <<>>
<1> DEFINE o == Ordered(places)
           mine == Picked(ps, places)
           c == Cardinality(places)
<1>1. IsFiniteSet(places) /\ places \in SUBSET Int
  <2>1. IsFiniteSet(1 .. n)
    BY FS_Interval
  <2>2. IsFiniteSet(places)
    BY <2>1, FS_Subset
  <2>3. QED
    BY <2>2
<1>2. /\ c \in Nat /\ DOMAIN o = 1 .. c
      /\ \A q \in 1 .. c : o[q] \in places
      /\ \A p, q \in 1 .. c : p < q => o[p] < o[q]
      /\ \A x \in places : \E q \in 1 .. c : o[q] = x
  BY <1>1, OrderedIs
<1>3. mine = [q \in 1 .. c |-> ps[o[q]]]
  BY DEF Picked
<1> HIDE DEF o, c, mine
<1>4. \A q \in 1 .. c : ps[o[q]] \in Pointer
  BY <1>2
<1>5. mine \in [1 .. c -> Pointer] /\ DOMAIN mine = 1 .. c /\ \A q \in 1 .. c : mine[q] = ps[o[q]]
  BY <1>3, <1>4
<1>6. mine \in Seq(Pointer) /\ Len(mine) = c
  BY <1>2, <1>5, FunctionSeq
<1>7. mine # <<>> => 1 \in 1 .. c
  <2>1. mine # <<>> => c \in Nat \ {0}
    BY <1>6, EmptySeq
  <2>2. QED
    BY <2>1
<1>8. 1 \in 1 .. c => mine # <<>>
  <2>1. Len(<<>>) = 0
    OBVIOUS
  <2>2. QED
    BY <1>2, <1>6, <2>1
<1>9. QED
  BY <1>2, <1>4, <1>5, <1>6, <1>7, <1>8 DEF o, c, mine

(* The pointers dealt out to n groups by the root model. *)
Mine(ps, r, i) == {j \in DOMAIN ps : r[ps[j].key] = i}

Dealt(ps, r, n) ==
  [i \in 1 .. n |->
     LET mine == Picked(ps, {j \in DOMAIN ps : r[ps[j].key] = i})
     IN  [bents |-> Singles(mine), next_entry_count |-> Len(mine),
          min_key |-> IF mine = <<>> THEN 0 ELSE mine[1].key]]

(* The groups that ExpandTree makes: entries of one pointer each, and      *)
(* exact counts.                                                           *)
LEMMA DealtIs ==
  ASSUME NEW c \in Nat, NEW ps, DOMAIN ps = 1 .. c,
         \A m \in 1 .. c : ps[m] \in Pointer,
         NEW r, NEW n \in Nat
  PROVE  LET hs == Dealt(ps, r, n)
         IN  /\ hs \in Tree /\ Len(hs) = n /\ DOMAIN hs = 1 .. n /\ Counted(hs)
             /\ \A i \in 1 .. n :
                  /\ Single(hs[i])
                  /\ hs[i].bents = Singles(Picked(ps, Mine(ps, r, i)))
<1> DEFINE hs == Dealt(ps, r, n)
           mine(i) == Picked(ps, Mine(ps, r, i))
           new(i) == [bents |-> Singles(mine(i)), next_entry_count |-> Len(mine(i)),
                      min_key |-> IF mine(i) = <<>> THEN 0 ELSE mine(i)[1].key]
<1>1. hs = [i \in 1 .. n |-> new(i)]
  BY DEF Dealt, Mine
<1>2. ASSUME NEW i \in 1 .. n
      PROVE  /\ new(i) \in Group /\ new(i).next_entry_count = Cardinality(Places(<<new(i)>>))
             /\ Single(new(i)) /\ new(i).bents = Singles(mine(i))
  <2> DEFINE mn == mine(i)
             l == Len(mn)
             nbs == Singles(mn)
  <2>1. Mine(ps, r, i) \in SUBSET (1 .. c)
    BY DEF Mine
  <2>2. /\ l \in Nat /\ DOMAIN mn = 1 .. l
        /\ \A q \in 1 .. l : mn[q] \in Pointer
        /\ mn # <<>> => 1 \in 1 .. l
    <3>1. \A m \in 1 .. c : ps[m] \in Pointer
      BY DEF Pointer
    <3>2. QED
      BY <2>1, <3>1, PickedIs
  <2> HIDE DEF mn
  <2>3. /\ nbs \in Seq(Bents) /\ DOMAIN nbs = 1 .. l
        /\ \A m \in 1 .. l : DOMAIN nbs[m] = {1} /\ Len(nbs[m]) = 1
    BY <2>2, SinglesAre
  <2> HIDE DEF l, nbs
  <2> DEFINE low == IF mn = <<>> THEN 0 ELSE mn[1].key
             g == [bents |-> nbs, next_entry_count |-> l, min_key |-> low]
  <2>4. low \in 0 .. MaxKey
    <3>1. CASE mn = <<>>
      BY <3>1, Constants
    <3>2. CASE mn # <<>>
      BY <2>2, <3>2 DEF Pointer
    <3>3. QED
      BY <3>1, <3>2
  <2> HIDE DEF low
  <2>5. g \in Group /\ g.bents = nbs /\ g.next_entry_count = l
    BY <2>2, <2>3, <2>4 DEF Group
  <2>6. new(i) = g
    BY DEF g, low, l, nbs, mn
  <2> HIDE DEF g
  <2>7. Cardinality(Places(<<g>>)) = l
    BY <2>2, <2>3, <2>5, CountSingles
  <2>8. Single(g)
    BY <2>3, <2>5 DEF Single
  <2> HIDE DEF new
  <2>9. QED
    BY <2>5, <2>6, <2>7, <2>8 DEF nbs, mn
<1> HIDE DEF new
<1>3. hs \in [1 .. n -> Group] /\ DOMAIN hs = 1 .. n /\ \A i \in 1 .. n : hs[i] = new(i)
  BY <1>1, <1>2
<1> HIDE DEF hs
<1>4. hs \in Tree /\ Len(hs) = n
  BY <1>3, FunctionSeq DEF Tree
<1>5. Counted(hs)
  BY <1>2, <1>3 DEF Counted
<1>6. QED
  BY <1>2, <1>3, <1>4, <1>5 DEF hs

(* They hold what the tree held, in order, and the new model predicts each *)
(* pointer's group: the model does not descend, so pointers dealt out by   *)
(* it stay in order over the groups.                                       *)
LEMMA DealtContent ==
  ASSUME NEW ts, Sound(ts), Inhabited(ts), NEW S, Holds(ts, S), NEW n \in Nat, n >= 1,
         NEW r \in [Keys -> 1 .. n], Monotone(r), \A P \in Places(ts) : Key(ts, P) \in Keys
  PROVE  Content(Dealt(Pointers(ts), r, n), S, r)
<1> DEFINE visit == Listed(Places(ts), Lexical(Places(ts)))
           ps == Pointers(ts)
           c == Len(ps)
           hs == Dealt(ps, r, n)
<1>1. ts \in Tree /\ Chain(ts)
  BY DEF Sound
<1>2. /\ c \in Nat /\ DOMAIN ps = 1 .. c /\ c = Cardinality(Places(ts))
      /\ \A m \in 1 .. c : ps[m] \in Pointer
  BY <1>1, PointersLen
<1>3. /\ DOMAIN visit = 1 .. c
      /\ \A m \in 1 .. c : visit[m] \in Places(ts) /\ ps[m] = PointerAt(ts, visit[m])
      /\ \A m, q \in 1 .. c : m < q => Before(visit[m], visit[q])
      /\ \A P \in Places(ts) : \E m \in 1 .. c : visit[m] = P
  BY <1>1, <1>2, PointersAre
<1> HIDE DEF visit, ps, c
<1>4. \A m \in 1 .. c : ps[m].key = Key(ts, visit[m]) /\ ps[m].key \in Keys /\ ps[m].key \in Int
  <2>1. \A m \in 1 .. c : ps[m].key = Key(ts, visit[m])
    BY <1>3 DEF Key
  <2>2. Keys \subseteq Int
    BY Constants DEF Keys
  <2>3. QED
    BY <1>3, <2>1, <2>2
<1>5. \A m, q \in 1 .. c : m < q => ps[m].key < ps[q].key
  BY <1>1, <1>3, <1>4 DEF Chain
<1>6. /\ hs \in Tree /\ Len(hs) = n /\ DOMAIN hs = 1 .. n
      /\ \A i \in 1 .. n : hs[i].bents = Singles(Picked(ps, Mine(ps, r, i)))
  BY <1>2, DealtIs
<1> HIDE DEF hs
<1> DEFINE o(i) == Ordered(Mine(ps, r, i))
           l(i) == Len(Picked(ps, Mine(ps, r, i)))
<1>7. ASSUME NEW i \in 1 .. n
      PROVE  /\ l(i) \in Nat /\ DOMAIN hs[i].bents = 1 .. l(i)
             /\ \A q \in 1 .. l(i) :
                  /\ DOMAIN hs[i].bents[q] = {1} /\ hs[i].bents[q][1] = ps[o(i)[q]]
                  /\ o(i)[q] \in 1 .. c /\ r[ps[o(i)[q]].key] = i
             /\ \A p, q \in 1 .. l(i) : p < q => o(i)[p] < o(i)[q]
             /\ \A x \in 1 .. c : r[ps[x].key] = i => \E q \in 1 .. l(i) : o(i)[q] = x
  <2> DEFINE M == Mine(ps, r, i)
             mn == Picked(ps, M)
             nbs == Singles(mn)
             k == Len(mn)
             oo == Ordered(M)
  <2>1. M \in SUBSET (1 .. c) /\ \A x : x \in M <=> x \in 1 .. c /\ r[ps[x].key] = i
    BY <1>2 DEF Mine
  <2> HIDE DEF M
  <2>2. /\ k \in Nat /\ DOMAIN mn = 1 .. k
        /\ \A q \in 1 .. k : oo[q] \in M /\ mn[q] = ps[oo[q]] /\ mn[q] \in Pointer
        /\ \A p, q \in 1 .. k : p < q => oo[p] < oo[q]
        /\ \A x \in M : \E q \in 1 .. k : oo[q] = x
    <3>1. \A m \in 1 .. c : ps[m] \in Pointer
      BY <1>2 DEF Pointer
    <3>2. c \in Nat /\ DOMAIN ps = 1 .. c
      BY <1>2
    <3>3. k \in Nat /\ DOMAIN mn = 1 .. k
      BY <2>1, <3>1, <3>2, PickedIs
    <3>4. \A q \in 1 .. k : oo[q] \in M /\ mn[q] = ps[oo[q]] /\ mn[q] \in Pointer
      BY <2>1, <3>1, <3>2, PickedIs
    <3>5. \A p, q \in 1 .. k : p < q => oo[p] < oo[q]
      BY <2>1, <3>1, <3>2, PickedIs
    <3>6. \A x \in M : \E q \in 1 .. k : oo[q] = x
      <4>1. \A x \in M : \E q \in 1 .. Len(Picked(ps, M)) : Ordered(M)[q] = x
        BY <2>1, <3>1, <3>2, PickedIs
      <4>2. QED
        BY <4>1
    <3>7. QED
      BY <3>3, <3>4, <3>5, <3>6
  <2> HIDE DEF mn, oo
  <2>3. /\ DOMAIN nbs = 1 .. k
        /\ \A m \in 1 .. k : DOMAIN nbs[m] = {1} /\ nbs[m][1] = mn[m]
    BY <2>2, SinglesAre
  <2>4. hs[i].bents = nbs
    BY <1>6 DEF nbs, mn, M
  <2> HIDE DEF k, nbs
  <2>5. l(i) = k /\ o(i) = oo
    BY DEF k, mn, M, oo
  <2> HIDE DEF l, o
  <2>6. \A q \in 1 .. k : oo[q] \in 1 .. c /\ r[ps[oo[q]].key] = i
    BY <2>1, <2>2
  <2>7. \A q \in 1 .. k : DOMAIN nbs[q] = {1} /\ nbs[q][1] = ps[oo[q]]
    BY <2>2, <2>3
  <2>8. \A x \in 1 .. c : r[ps[x].key] = i => \E q \in 1 .. k : oo[q] = x
    BY <2>1, <2>2
  <2>9. QED
    BY <2>2, <2>3, <2>4, <2>5, <2>6, <2>7, <2>8
<1> HIDE DEF o, l
<1> DEFINE x(P) == o(P[1])[P[2]]
           h == [P \in Places(hs) |-> visit[x(P)]]
<1>8. ASSUME NEW P \in Places(hs)
      PROVE  /\ P[1] \in 1 .. n /\ P[2] \in 1 .. l(P[1]) /\ P[3] = 1 /\ P = <<P[1], P[2], 1>>
             /\ x(P) \in 1 .. c /\ r[ps[x(P)].key] = P[1] /\ PointerAt(hs, P) = ps[x(P)]
  <2>1. /\ P[1] \in DOMAIN hs /\ P[2] \in DOMAIN hs[P[1]].bents
        /\ P[3] \in DOMAIN hs[P[1]].bents[P[2]] /\ P = <<P[1], P[2], P[3]>>
    BY PlacesAre
  <2>2. P[1] \in 1 .. n
    BY <1>6, <2>1
  <2>3. P[2] \in 1 .. l(P[1])
    BY <1>7, <2>1, <2>2
  <2>4. /\ DOMAIN hs[P[1]].bents[P[2]] = {1} /\ hs[P[1]].bents[P[2]][1] = ps[x(P)]
        /\ x(P) \in 1 .. c /\ r[ps[x(P)].key] = P[1]
    BY <1>7, <2>2, <2>3
  <2>5. P[3] = 1
    BY <2>1, <2>4
  <2> HIDE DEF x
  <2>6. QED
    BY <2>1, <2>2, <2>3, <2>4, <2>5 DEF PointerAt
<1>9. \A i \in 1 .. n : \A q \in 1 .. l(i) : <<i, q, 1>> \in Places(hs)
  <2> SUFFICES ASSUME NEW i \in 1 .. n, NEW q \in 1 .. l(i)
               PROVE  <<i, q, 1>> \in Places(hs)
    OBVIOUS
  <2>1. i \in DOMAIN hs /\ q \in DOMAIN hs[i].bents /\ 1 \in DOMAIN hs[i].bents[q]
    BY <1>6, <1>7
  <2>2. QED
    BY <2>1, PlacesAre
<1>10. \A P \in Places(hs) : h[P] = visit[x(P)]
  OBVIOUS
<1> HIDE DEF h
<1>11. \A P \in Places(hs) : h[P] \in Places(ts) /\ PointerAt(hs, P) = PointerAt(ts, h[P])
  <2> SUFFICES ASSUME NEW P \in Places(hs)
               PROVE  h[P] \in Places(ts) /\ PointerAt(hs, P) = PointerAt(ts, h[P])
    OBVIOUS
  <2>1. x(P) \in 1 .. c /\ PointerAt(hs, P) = ps[x(P)] /\ h[P] = visit[x(P)]
    BY <1>8, <1>10
  <2> HIDE DEF x
  <2>2. QED
    BY <1>3, <2>1
<1>12. \A P, Q \in Places(hs) : Before(P, Q) => Before(h[P], h[Q])
  <2> SUFFICES ASSUME NEW P \in Places(hs), NEW Q \in Places(hs), Before(P, Q)
               PROVE  Before(h[P], h[Q])
    OBVIOUS
  <2>1. /\ P[1] \in 1 .. n /\ P[2] \in 1 .. l(P[1]) /\ P[3] = 1
        /\ x(P) \in 1 .. c /\ r[ps[x(P)].key] = P[1]
    BY <1>8
  <2>2. /\ Q[1] \in 1 .. n /\ Q[2] \in 1 .. l(Q[1]) /\ Q[3] = 1
        /\ x(Q) \in 1 .. c /\ r[ps[x(Q)].key] = Q[1]
    BY <1>8
  <2>3. x(P) < x(Q)
    <3>1. CASE P[1] < Q[1]
      <4> HIDE DEF x
      <4>1. PICK a \in 1 .. c, b \in 1 .. c : a = x(P) /\ b = x(Q)
        BY <2>1, <2>2
      <4>2. SUFFICES ASSUME ~ (a < b) PROVE FALSE
        BY <4>1
      <4>3. a \in Int /\ b \in Int /\ (b = a \/ b < a)
        BY <1>2, <4>2
      <4>4. ps[b].key <= ps[a].key
        BY <1>4, <1>5, <4>3
      <4>5. r[ps[b].key] <= r[ps[a].key]
        BY <1>4, <4>4 DEF Monotone
      <4>6. r[ps[a].key] = P[1] /\ r[ps[b].key] = Q[1]
        BY <2>1, <2>2, <4>1
      <4>7. QED
        BY <2>1, <2>2, <3>1, <4>5, <4>6
    <3>2. CASE ~ (P[1] < Q[1])
      <4>1. P[1] = Q[1] /\ P[2] < Q[2]
        BY <2>1, <2>2, <3>2 DEF Before
      <4>2. P[2] \in 1 .. l(P[1]) /\ Q[2] \in 1 .. l(P[1])
        BY <2>1, <2>2, <4>1
      <4>3. o(P[1])[P[2]] < o(P[1])[Q[2]]
        BY <1>7, <2>1, <4>1, <4>2
      <4>4. QED
        BY <4>1, <4>3
    <3>3. QED
      BY <3>1, <3>2
  <2>4. h[P] = visit[x(P)] /\ h[Q] = visit[x(Q)]
    BY <1>10
  <2> HIDE DEF x
  <2>5. QED
    BY <1>3, <2>1, <2>2, <2>3, <2>4
<1>13. \A Q \in Places(ts) : \E P \in Places(hs) : h[P] = Q
  <2> SUFFICES ASSUME NEW Q \in Places(ts)
               PROVE  \E P \in Places(hs) : h[P] = Q
    OBVIOUS
  <2>1. PICK m \in 1 .. c : visit[m] = Q
    BY <1>3
  <2>2. PICK i \in 1 .. n : r[ps[m].key] = i
    BY <1>4
  <2>3. PICK q \in 1 .. l(i) : o(i)[q] = m
    BY <1>7, <2>2
  <2> DEFINE P == <<i, q, 1>>
  <2>4. P \in Places(hs) /\ x(P) = m
    BY <1>9, <2>3
  <2> HIDE DEF P, x
  <2>5. h[P] = Q
    BY <1>10, <2>1, <2>4
  <2>6. QED
    BY <2>4, <2>5
<1>14. Sound(hs) /\ Holds(hs, S)
  BY <1>6, <1>11, <1>12, <1>13, Regrouped
<1>15. Inhabited(hs)
  <2>1. PICK i \in DOMAIN ts : ~ Bare(ts, i)
    BY DEF Inhabited
  <2>2. <<i, 1, 1>> \in Places(ts)
    BY <1>1, <2>1, FirstPlace
  <2>3. PICK P \in Places(hs) : h[P] = <<i, 1, 1>>
    BY <1>13, <2>2
  <2>4. P[1] \in DOMAIN hs /\ P[2] \in DOMAIN hs[P[1]].bents
    BY PlacesAre
  <2>5. hs[P[1]].bents # <<>>
    BY <2>4
  <2>6. QED
    BY <2>4, <2>5 DEF Inhabited, Bare
<1>16. Covers(hs, r)
  <2>1. ASSUME NEW i \in DOMAIN hs, NEW k \in Keys, ~ Bare(hs, i), EntryKey(hs[i], 0) <= k
        PROVE  i <= r[k]
    <3> DEFINE P == <<i, 1, 1>>
    <3>1. P \in Places(hs) /\ EntryKey(hs[i], 0) = Key(hs, P)
      BY <1>6, <2>1, FirstPlace
    <3>2. P[1] = i
      OBVIOUS
    <3> HIDE DEF P
    <3>3. /\ x(P) \in 1 .. c /\ r[ps[x(P)].key] = i /\ Key(hs, P) = ps[x(P)].key
      BY <1>8, <3>1, <3>2 DEF Key
    <3> HIDE DEF x
    <3>4. PICK a \in 1 .. c : a = x(P)
      BY <3>3
    <3>5. ps[a].key \in Keys /\ ps[a].key <= k /\ r[ps[a].key] = i
      BY <1>4, <2>1, <3>1, <3>3, <3>4
    <3>6. QED
      BY <3>5 DEF Monotone
  <2>2. QED
    BY <2>1 DEF Covers
<1>17. Content(hs, S, r)
  BY <1>14, <1>15, <1>16 DEF Content
<1>18. QED
  BY <1>17 DEF hs, ps

(* AdjustEntryKey over all groups. *)
AllAdjusted(gs) == [i \in DOMAIN gs |-> Adjusted(gs[i])]

(* Adjusting changes keys of pointers only. *)
LEMMA AllAdjustedIs ==
  ASSUME NEW gs \in Tree
  PROVE  /\ AllAdjusted(gs) \in Tree /\ DOMAIN AllAdjusted(gs) = DOMAIN gs
         /\ \A i \in DOMAIN gs : AllAdjusted(gs)[i] = Adjusted(gs[i])
<1>1. PICK n \in Nat : n = Len(gs) /\ DOMAIN gs = 1 .. n /\ \A i \in 1 .. n : gs[i] \in Group
  BY Parts
<1>2. \A i \in 1 .. n : Adjusted(gs[i]) \in Group
  BY <1>1, AdjustedIs
<1>3. AllAdjusted(gs) = [i \in 1 .. n |-> Adjusted(gs[i])]
  BY <1>1 DEF AllAdjusted
<1>4. AllAdjusted(gs) \in [1 .. n -> Group]
  BY <1>2, <1>3
<1>5. AllAdjusted(gs) \in Seq(Group)
  BY <1>4, FunctionSeq
<1>6. QED
  BY <1>1, <1>3, <1>5 DEF Tree

(* Once no first bucket is empty, every pointer's key is one of the keys. *)
LEMMA AllAdjustedContent ==
  ASSUME NEW gs, Sound(gs), NEW S, Holds(gs, S), Inhabited(gs),
         \A i \in DOMAIN gs : ~ Unreadable(gs[i])
  PROVE  LET ts == AllAdjusted(gs)
         IN  /\ Sound(ts) /\ Holds(ts, S) /\ Inhabited(ts)
             /\ \A P \in Places(ts) : Key(ts, P) \in Keys
<1> DEFINE ts == AllAdjusted(gs)
<1>1. gs \in Tree
  BY DEF Sound
<1>2. ts \in Tree /\ DOMAIN ts = DOMAIN gs /\ \A i \in DOMAIN gs : ts[i] = Adjusted(gs[i])
  BY <1>1, AllAdjustedIs
<1> HIDE DEF ts
<1>3. /\ Sound(ts) /\ Holds(ts, S)
      /\ \A i \in DOMAIN gs : Bare(ts, i) <=> Bare(gs, i)
  BY <1>2, AdjustedTree
<1>4. Inhabited(ts)
  BY <1>2, <1>3 DEF Inhabited
<1>5. ASSUME NEW P \in Places(ts) PROVE Key(ts, P) \in Keys
  <2>1. P[1] \in DOMAIN ts /\ ~ Bare(ts, P[1]) /\ Key(ts, P) >= EntryKey(ts[P[1]], 0)
    BY <1>3, FromFirst
  <2>2. PICK i \in DOMAIN gs : i = P[1]
    BY <1>2, <2>1
  <2>3. ts[i] = Adjusted(gs[i]) /\ gs[i] \in Group /\ ~ Unreadable(gs[i])
    BY <1>1, <1>2, Parts
  <2>4. Adjusts(ts[i], gs[i]) /\ gs[i].bents # <<>>
    <3>1. ~ Bare(gs, i)
      BY <1>3, <2>1, <2>2
    <3>2. QED
      BY <2>3, <3>1, AdjustedIs DEF Bare
  <2>5. ts[i].bents[1][1].key \in gs[i].bents[1][1].keys
    BY <2>3, <2>4 DEF Adjusts
  <2>6. gs[i].bents[1][1].keys \subseteq Keys
    <3>1. ~ Bare(gs, i)
      BY <2>4 DEF Bare
    <3>2. <<i, 1, 1>> \in Places(gs)
      BY <1>1, <3>1, FirstPlace
    <3>3. KeysAt(gs, <<i, 1, 1>>) \subseteq Keys
      BY <1>1, <3>2, PlacesNumbers
    <3>4. QED
      BY <3>3 DEF KeysAt, PointerAt
  <2>7. EntryKey(ts[i], 0) \in Keys
    BY <2>5, <2>6 DEF EntryKey
  <2>8. Key(ts, P) \in 0 .. MaxKey /\ Key(ts, P) >= EntryKey(ts[i], 0)
    BY <1>2, <2>1, <2>2, PlacesNumbers
  <2>9. QED
    BY <2>7, <2>8, Constants DEF Keys
<1>6. QED
  BY <1>3, <1>4, <1>5 DEF ts

(* The number of new groups: never none. *)
LEMMA CeilIs ==
  ASSUME NEW a \in Nat, NEW b \in Nat, b >= 1
  PROVE  Ceil(a, b) \in Nat /\ (a >= 1 => Ceil(a, b) >= 1)
<1>1. a + b - 1 \in Nat /\ (a >= 1 => a + b - 1 >= b)
  OBVIOUS
<1>2. QED
  BY <1>1 DEF Ceil

(* ExpandTree never makes a tree of no groups. *)
LEMMA GroupsNeeded ==
  ASSUME NEW gs \in Tree, Counted(gs), Inhabited(gs), NEW c \in Nat,
         \A i \in DOMAIN gs : gs[i].next_entry_count <= c
  PROVE  Ceil(c, MinEntryCount) \in Nat /\ Ceil(c, MinEntryCount) >= 1
<1>1. PICK i \in DOMAIN gs : ~ Bare(gs, i)
  BY DEF Inhabited
<1>2. gs[i] \in Group
  BY Parts
<1>3. PICK n \in Nat : n = Cardinality(Places(<<gs[i]>>)) /\ IsFiniteSet(Places(<<gs[i]>>))
  BY <1>2, OneGroup
<1>4. <<1, 1, 1>> \in Places(<<gs[i]>>)
  <2>1. 1 \in DOMAIN gs[i].bents /\ gs[i].bents[1] \in Bents
    BY <1>1, <1>2, FirstPlace, GroupParts
  <2>2. 1 \in DOMAIN gs[i].bents[1]
    BY <2>1, BentParts
  <2>3. QED
    BY <2>1, <2>2, PlacesOfOne
<1>5. n # 0
  BY <1>3, <1>4, FS_EmptySet
<1>6. gs[i].next_entry_count = n /\ n <= c
  BY <1>3 DEF Counted
<1>7. c >= 1
  BY <1>5, <1>6
<1>8. QED
  BY <1>7, CeilIs, Constants

-----------------------------------------------------------------------------
(* Bulk loading *)

(* The tree after ExpandTree, of which only the content needs readable keys. *)
LEMMA TreeExpanded ==
  ASSUME ~ MayOverflow, NEW gs \in Tree, Counted(gs), NEW S, NEW r0, Content(gs, S, r0),
         NEW c \in Nat, \A i \in DOMAIN gs : gs[i].next_entry_count <= c,
         NEW n, n = Ceil(c, MinEntryCount), NEW trained, NEW r \in Routes(n, trained)
  PROVE  LET hs == Dealt(Pointers(AllAdjusted(gs)), r, n)
         IN  /\ hs \in Tree /\ Len(hs) = n /\ n \in Nat /\ n >= 1 /\ DOMAIN hs = 1 .. n
             /\ Counted(hs) /\ \A i \in 1 .. n : Single(hs[i])
             /\ r \in [Keys -> 1 .. n] /\ Monotone(r)
             /\ (\A i \in DOMAIN gs : ~ Unreadable(gs[i])) => Content(hs, S, r)
<1> DEFINE ts == AllAdjusted(gs)
           ps == Pointers(ts)
           hs == Dealt(ps, r, n)
<1>1. n \in Nat /\ n >= 1
  BY GroupsNeeded DEF Content
<1>2. r \in [Keys -> 1 .. n] /\ Monotone(r)
  BY <1>1, RouteIs
<1>3. ts \in Tree
  BY AllAdjustedIs
<1> HIDE DEF ts
<1>4. PICK m \in Nat : m = Len(ps) /\ DOMAIN ps = 1 .. m /\ \A q \in 1 .. m : ps[q] \in Pointer
  BY <1>3, PointersLen
<1> HIDE DEF ps
<1>5. /\ hs \in Tree /\ Len(hs) = n /\ DOMAIN hs = 1 .. n
      /\ Counted(hs) /\ \A i \in 1 .. n : Single(hs[i])
  BY <1>1, <1>4, DealtIs
<1>6. ASSUME \A i \in DOMAIN gs : ~ Unreadable(gs[i])
      PROVE  Content(hs, S, r)
  <2>1. Sound(ts) /\ Holds(ts, S) /\ Inhabited(ts) /\ \A P \in Places(ts) : Key(ts, P) \in Keys
    BY <1>6, AllAdjustedContent DEF Content, ts
  <2>2. Content(Dealt(Pointers(ts), r, n), S, r)
    BY <1>1, <1>2, <2>1, DealtContent
  <2>3. QED
    BY <2>2 DEF ps
<1>7. QED
  BY <1>1, <1>2, <1>5, <1>6 DEF ps, ts

(* The pairs that the model predicts into group i, and those before them. *)
Begins(d, r, i) == Cardinality({k \in d : r[k] < i})
Takes(d, r, i) == Cardinality({k \in d : r[k] = i})

(* A key's place in the sorted data. *)
LEMMA RankIs ==
  ASSUME NEW d \in SUBSET Keys, NEW m \in 1 .. Cardinality(d)
  PROVE  /\ Ordered(d)[m] \in d /\ m \in Nat
         /\ Cardinality({y \in d : y < Ordered(d)[m]}) = m - 1
         /\ Cardinality({y \in d : y <= Ordered(d)[m]}) = m
<1> DEFINE before == {x \in d \X d : x[1] < x[2]}
           k == Ordered(d)[m]
           low == {y \in d : y < k}
<1>1. d \in SUBSET Int /\ IsFiniteSet(d) /\ Cardinality(d) \in Nat
  BY KeysFinite DEF Keys
<1>2. k \in d
  BY <1>1, OrderedIs
<1>3. Orders(before, d)
  BY <1>1 DEF Orders
<1>4. Cardinality({y \in d : <<y, Listed(d, before)[m]>> \in before}) = m - 1
  BY <1>1, <1>3, ListingPlace
<1>5. k = Listed(d, before)[m]
  BY DEF Ordered
<1> HIDE DEF k
<1>6. {y \in d : <<y, k>> \in before} = low
  BY <1>2
<1>7. Cardinality(low) = m - 1
  BY <1>4, <1>5, <1>6
<1>8. IsFiniteSet(low) /\ k \notin low
  BY <1>1, <1>2, FS_Subset
<1>9. {y \in d : y <= k} = low \union {k}
  <2>1. k \in Int /\ \A y \in d : y \in Int
    BY <1>1, <1>2
  <2>2. \A y \in d : y <= k <=> y < k \/ y = k
    BY <2>1
  <2>3. QED
    BY <1>2, <2>2
<1> HIDE DEF low
<1>10. Cardinality(low \union {k}) = Cardinality(low) + 1
  BY <1>8, FS_AddElement
<1>11. m \in Nat /\ (m - 1) + 1 = m
  BY <1>1
<1>12. Cardinality({y \in d : y <= k}) = m
  BY <1>7, <1>9, <1>10, <1>11
<1>13. Cardinality({y \in d : y < k}) = m - 1
  BY <1>7 DEF low
<1>14. QED
  BY <1>2, <1>11, <1>12, <1>13 DEF k

(* The shares of the groups: as the model does not descend, those of the   *)
(* pairs predicted into a group are behind those of all earlier groups.    *)
LEMMA Shares ==
  ASSUME NEW d \in SUBSET Keys, NEW n \in Nat, NEW r \in [Keys -> 1 .. n], Monotone(r),
         NEW i \in 1 .. n
  PROVE  /\ Begins(d, r, i) \in Nat /\ Takes(d, r, i) \in Nat
         /\ Begins(d, r, i) + Takes(d, r, i) <= Cardinality(d)
         /\ \A h \in 1 .. n : i < h => Begins(d, r, i) + Takes(d, r, i) <= Begins(d, r, h)
         /\ \A m \in 1 .. Cardinality(d) :
              /\ r[Ordered(d)[m]] = i =>
                   Begins(d, r, i) < m /\ m <= Begins(d, r, i) + Takes(d, r, i)
              /\ r[Ordered(d)[m]] < i => m <= Begins(d, r, i)
<1> DEFINE lower == {k \in d : r[k] < i}
           own == {k \in d : r[k] = i}
           b == Begins(d, r, i)
           t == Takes(d, r, i)
<1>1. IsFiniteSet(d) /\ Cardinality(d) \in Nat
  BY KeysFinite
<1>2. \A k \in d : k \in Keys /\ k \in Int /\ r[k] \in 1 .. n
  BY DEF Keys
<1>3. \A T \in SUBSET d : IsFiniteSet(T) /\ Cardinality(T) \in Nat
  BY KeysFinite
<1>4. \A T \in SUBSET d : \A U \in SUBSET T : Cardinality(U) <= Cardinality(T)
  BY <1>3, FS_Subset
<1>5. b = Cardinality(lower) /\ t = Cardinality(own) /\ b \in Nat /\ t \in Nat
  BY <1>3 DEF Begins, Takes
<1>6. Cardinality(lower \union own) = b + t
  <2>1. lower \cap own = {}
    BY <1>2
  <2>2. IsFiniteSet(lower) /\ IsFiniteSet(own)
    BY <1>3
  <2>3. Cardinality(lower \union own) = Cardinality(lower) + Cardinality(own) - Cardinality(lower \cap own)
    BY <2>2, FS_Union
  <2>4. Cardinality(lower \cap own) = 0
    BY <2>1, FS_EmptySet
  <2>5. QED
    BY <1>5, <2>3, <2>4
<1>7. b + t <= Cardinality(d)
  <2>1. lower \union own \in SUBSET d
    OBVIOUS
  <2>2. QED
    BY <1>4, <1>6, <2>1
<1>8. ASSUME NEW h \in 1 .. n, i < h
      PROVE  b + t <= Begins(d, r, h)
  <2>1. lower \union own \in SUBSET {k \in d : r[k] < h}
    BY <1>2, <1>8
  <2>2. Cardinality(lower \union own) <= Cardinality({k \in d : r[k] < h})
    BY <1>4, <2>1
  <2>3. QED
    BY <1>6, <2>2 DEF Begins
<1>9. ASSUME NEW m \in 1 .. Cardinality(d)
      PROVE  /\ r[Ordered(d)[m]] = i => b < m /\ m <= b + t
             /\ r[Ordered(d)[m]] < i => m <= b
  <2> DEFINE k == Ordered(d)[m]
             below == {y \in d : y < k}
             upto == {y \in d : y <= k}
  <2>1. k \in d /\ m \in Nat /\ Cardinality(below) = m - 1 /\ Cardinality(upto) = m
    BY RankIs
  <2> HIDE DEF k
  <2>2. \A y \in d : (y <= k => r[y] <= r[k]) /\ (k <= y => r[k] <= r[y])
    BY <2>1 DEF Monotone
  <2>3. ASSUME r[k] = i PROVE b < m /\ m <= b + t
    <3>1. lower \in SUBSET below
      BY <1>2, <2>1, <2>2, <2>3
    <3>2. upto \in SUBSET (lower \union own)
      BY <1>2, <2>1, <2>2, <2>3
    <3>3. b <= m - 1
      BY <1>4, <1>5, <2>1, <3>1
    <3>4. m <= b + t
      <4>1. lower \union own \in SUBSET d
        OBVIOUS
      <4>2. QED
        BY <1>4, <1>6, <2>1, <3>2, <4>1
    <3>5. QED
      BY <1>5, <2>1, <3>3, <3>4
  <2>4. ASSUME r[k] < i PROVE m <= b
    <3>1. upto \in SUBSET lower
      BY <1>2, <2>1, <2>2, <2>4
    <3>2. QED
      BY <1>4, <1>5, <2>1, <3>1
  <2>5. QED
    BY <2>3, <2>4 DEF k
<1>10. QED
  BY <1>5, <1>7, <1>8, <1>9

(* A group of c entries with one pair each, the pairs of ks behind the s-th. *)
Loads(g, ks, s, c) ==
  /\ DOMAIN g.bents = 1 .. c /\ g.next_entry_count = c
  /\ \A j \in 1 .. c : /\ DOMAIN g.bents[j] = {1}
                       /\ g.bents[j][1].key = ks[s + j] /\ g.bents[j][1].keys = {ks[s + j]}

(* The groups that bulk_load makes of the keys d. *)
Loaded(d, r, n) ==
  [i \in 1 .. n |->
     LET mine  == Cardinality({k \in d : r[k] = i})
         start == Cardinality({k \in d : r[k] < i})
     IN  IF mine = 0 THEN [bents |-> <<>>, next_entry_count |-> 0, min_key |-> 0]
         ELSE GroupLoaded(Ordered(d), start, mine)]

(* group::bulk_load, by its fields. *)
LEMMA GroupLoadedIs ==
  ASSUME NEW n \in Nat, NEW ks, \A m \in 1 .. n : ks[m] \in Keys, NEW s \in Nat, NEW c \in Nat, c >= 1, s + c <= n
  PROVE  GroupLoaded(ks, s, c) \in Group /\ Loads(GroupLoaded(ks, s, c), ks, s, c)
<1> DEFINE made(x) == [key |-> x, keys |-> {x}, holes |-> {}, prefix |-> 0]
           ps == [j \in 1 .. c |-> made(ks[s + j])]
           g == GroupLoaded(ks, s, c)
<1>1. \A j \in 1 .. c : s + j \in 1 .. n /\ ks[s + j] \in Keys
  BY Z3
<1>2. \A x \in Keys : x \in 0 .. MaxKey /\ made(x) \in Pointer
  <2> SUFFICES ASSUME NEW x \in Keys
               PROVE  x \in 0 .. MaxKey /\ made(x) \in Pointer
    OBVIOUS
  <2>1. Cardinality({x}) = 1 /\ Cardinality({}) = 0
    BY FS_Singleton, FS_EmptySet
  <2>2. Cardinality({x}) + Cardinality({}) <= MaxEntries
    BY <2>1, Constants
  <2>3. x \in 0 .. MaxKey /\ {x} \in SUBSET Keys
    BY Constants DEF Keys
  <2>4. QED
    BY <2>2, <2>3, PointerMade
<1>3. DOMAIN ps = 1 .. c /\ \A j \in 1 .. c : ps[j] = made(ks[s + j])
  OBVIOUS
<1>4. g = [bents |-> Singles(ps), next_entry_count |-> c, min_key |-> ks[1]]
  <2>1. Singles(ps) = [j \in 1 .. c |-> <<[key |-> ks[s + j], keys |-> {ks[s + j]},
                                        holes |-> {}, prefix |-> 0]>>]
    BY DEF Singles
  <2>2. QED
    BY <2>1 DEF GroupLoaded
<1> HIDE DEF ps, g
<1>5. \A j \in 1 .. c : ps[j] \in Pointer
  <2> HIDE DEF made
  <2>1. QED
    BY <1>1, <1>2, <1>3
<1>6. /\ Singles(ps) \in Seq(Bents) /\ DOMAIN Singles(ps) = 1 .. c
      /\ \A j \in 1 .. c : Singles(ps)[j][1] = ps[j] /\ DOMAIN Singles(ps)[j] = {1}
  BY <1>3, <1>5, SinglesAre
<1>7. ks[1] \in 0 .. MaxKey
  <2>1. 1 \in 1 .. n
    OBVIOUS
  <2>2. QED
    BY <1>2, <2>1
<1>8. g \in Group
  BY <1>4, <1>6, <1>7 DEF Group
<1>9. Loads(g, ks, s, c)
  <2>1. g.bents = Singles(ps) /\ g.next_entry_count = c
    BY <1>4
  <2>2. \A j \in 1 .. c : ps[j].key = ks[s + j] /\ ps[j].keys = {ks[s + j]}
    BY <1>3
  <2>3. QED
    BY <1>6, <2>1, <2>2 DEF Loads
<1>10. QED
  BY <1>8, <1>9 DEF g

(* letree::bulk_load, by groups. *)
LEMMA LoadedIs ==
  ASSUME NEW d \in SUBSET Keys, NEW n \in Nat, NEW r \in [Keys -> 1 .. n], Monotone(r)
  PROVE  LET hs == Loaded(d, r, n)
         IN  /\ hs \in Tree /\ DOMAIN hs = 1 .. n /\ Len(hs) = n /\ Counted(hs)
             /\ \A i \in 1 .. n : Loads(hs[i], Ordered(d), Begins(d, r, i), Takes(d, r, i))
<1> DEFINE hs == Loaded(d, r, n)
           ks == Ordered(d)
           none == [bents |-> <<>>, next_entry_count |-> 0, min_key |-> 0]
           new(i) == IF Takes(d, r, i) = 0 THEN none ELSE GroupLoaded(ks, Begins(d, r, i), Takes(d, r, i))
<1>1. hs = [i \in 1 .. n |-> new(i)]
  BY DEF Loaded, Begins, Takes
<1>2. PICK c \in Nat : c = Cardinality(d) /\ \A m \in 1 .. c : ks[m] \in Keys
  <2>1. d \in SUBSET Int /\ IsFiniteSet(d) /\ Cardinality(d) \in Nat
    BY KeysFinite DEF Keys
  <2>2. DOMAIN ks = 1 .. Cardinality(d) /\ \A m \in DOMAIN ks : ks[m] \in d
    BY <2>1, OrderedIs
  <2>3. QED
    BY <2>1, <2>2
<1> HIDE DEF ks
<1>3. ASSUME NEW i \in 1 .. n
      PROVE  new(i) \in Group /\ Loads(new(i), ks, Begins(d, r, i), Takes(d, r, i))
  <2>1. PICK s \in Nat : s = Begins(d, r, i)
    BY Shares
  <2>2. PICK t \in Nat : t = Takes(d, r, i) /\ s + t <= c
    BY <1>2, <2>1, Shares
  <2>3. CASE t = 0
    <3>1. new(i) = none
      BY <2>2, <2>3
    <3>2. none \in Group
      BY Constants DEF Group
    <3>3. Loads(none, ks, s, t)
      BY <2>3 DEF Loads
    <3>4. QED
      BY <2>1, <2>2, <3>1, <3>2, <3>3
  <2>4. CASE t # 0
    <3>1. new(i) = GroupLoaded(ks, s, t)
      BY <2>1, <2>2, <2>4
    <3>2. GroupLoaded(ks, s, t) \in Group /\ Loads(GroupLoaded(ks, s, t), ks, s, t)
      BY <1>2, <2>2, <2>4, GroupLoadedIs
    <3>3. QED
      BY <2>1, <2>2, <3>1, <3>2
  <2>5. QED
    BY <2>3, <2>4
<1> HIDE DEF new
<1>4. hs \in [1 .. n -> Group] /\ DOMAIN hs = 1 .. n /\ \A i \in 1 .. n : hs[i] = new(i)
  BY <1>1, <1>3
<1> HIDE DEF hs
<1>5. hs \in Tree /\ Len(hs) = n
  BY <1>4, FunctionSeq DEF Tree
<1>6. Counted(hs)
  <2>1. ASSUME NEW i \in 1 .. n
        PROVE  hs[i].next_entry_count = Cardinality(Places(<<hs[i]>>))
    <3>1. PICK t \in Nat : t = Takes(d, r, i)
      BY Shares
    <3>2. /\ DOMAIN hs[i].bents = 1 .. t /\ hs[i].next_entry_count = t
          /\ \A j \in 1 .. t : DOMAIN hs[i].bents[j] = {1}
      BY <1>3, <1>4, <3>1 DEF Loads
    <3>3. Cardinality(Places(<<hs[i]>>)) = t
      BY <3>2, CountSingles
    <3>4. QED
      BY <3>2, <3>3
  <2>2. QED
    BY <1>4, <2>1 DEF Counted
<1>7. QED
  BY <1>3, <1>4, <1>5, <1>6 DEF hs, ks

(* The loaded tree holds the data, and its model predicts the group of     *)
(* every pair's entry.                                                     *)
LEMMA LoadedContent ==
  ASSUME NEW d \in SUBSET Keys, Cardinality(d) >= 1, NEW n \in Nat, n >= 1,
         NEW r \in [Keys -> 1 .. n], Monotone(r)
  PROVE  Content(Loaded(d, r, n), d, r)
<1> DEFINE hs == Loaded(d, r, n)
           ks == Ordered(d)
           s(i) == Begins(d, r, i)
           t(i) == Takes(d, r, i)
           x(P) == s(P[1]) + P[2]
<1>1. PICK c \in Nat : c = Cardinality(d)
  BY KeysFinite
<1>2. /\ \A m \in 1 .. c : ks[m] \in d /\ ks[m] \in Keys /\ ks[m] \in Nat
      /\ \A m, q \in 1 .. c : m < q => ks[m] < ks[q]
      /\ \A k \in d : \E m \in 1 .. c : ks[m] = k
  <2>1. d \in SUBSET Int /\ IsFiniteSet(d) /\ \A k \in d : k \in Nat /\ k \in Keys
    BY KeysFinite DEF Keys
  <2>2. /\ DOMAIN ks = 1 .. c /\ \A m \in DOMAIN ks : ks[m] \in d
        /\ \A m, q \in DOMAIN ks : m < q => ks[m] < ks[q]
        /\ \A k \in d : \E m \in DOMAIN ks : ks[m] = k
    BY <1>1, <2>1, OrderedIs
  <2> HIDE DEF ks
  <2>3. QED
    BY <2>1, <2>2
<1>3. \A i \in 1 .. n : s(i) \in Nat /\ t(i) \in Nat /\ s(i) + t(i) <= c
  BY <1>1, Shares
<1>4. \A i, h \in 1 .. n : i < h => s(i) + t(i) <= s(h)
  BY Shares
<1>5. \A i \in 1 .. n : \A m \in 1 .. c :
        /\ r[ks[m]] = i => s(i) < m /\ m <= s(i) + t(i)
        /\ r[ks[m]] < i => m <= s(i)
  BY <1>1, Shares
<1>6. /\ hs \in Tree /\ DOMAIN hs = 1 .. n /\ Len(hs) = n
      /\ \A i \in 1 .. n : Loads(hs[i], ks, s(i), t(i))
  BY LoadedIs
<1> HIDE DEF hs, ks, s, t
<1>7. \A i \in 1 .. n : \A j \in 1 .. t(i) :
        /\ DOMAIN hs[i].bents = 1 .. t(i) /\ DOMAIN hs[i].bents[j] = {1}
        /\ hs[i].bents[j][1].key = ks[s(i) + j] /\ hs[i].bents[j][1].keys = {ks[s(i) + j]}
  BY <1>6 DEF Loads
<1>8. \A i \in 1 .. n : DOMAIN hs[i].bents = 1 .. t(i)
  BY <1>6 DEF Loads
<1>9. ASSUME NEW P \in Places(hs)
      PROVE  /\ P[1] \in 1 .. n /\ P[2] \in 1 .. t(P[1]) /\ P[3] = 1
             /\ x(P) \in 1 .. c /\ Key(hs, P) = ks[x(P)] /\ KeysAt(hs, P) = {ks[x(P)]}
  <2>1. /\ P[1] \in DOMAIN hs /\ P[2] \in DOMAIN hs[P[1]].bents
        /\ P[3] \in DOMAIN hs[P[1]].bents[P[2]]
    BY PlacesAre
  <2>2. PICK i \in 1 .. n : i = P[1]
    BY <1>6, <2>1
  <2>3. PICK j \in 1 .. t(i) : j = P[2]
    BY <1>8, <2>1, <2>2
  <2>4. P[3] = 1
    BY <1>7, <2>1, <2>2, <2>3
  <2>5. s(i) + j \in 1 .. c
    BY <1>3
  <2>6. QED
    BY <1>7, <2>2, <2>3, <2>4, <2>5 DEF Key, KeysAt, PointerAt
<1>10. ASSUME NEW i \in 1 .. n, NEW j \in 1 .. t(i)
       PROVE  <<i, j, 1>> \in Places(hs) /\ x(<<i, j, 1>>) = s(i) + j
  <2>1. 1 \in DOMAIN hs[i].bents[j] /\ j \in DOMAIN hs[i].bents /\ i \in DOMAIN hs
    BY <1>6, <1>7
  <2>2. QED
    BY <2>1, PlacesAre
<1>11. ASSUME NEW P \in Places(hs), NEW Q \in Places(hs), Before(P, Q)
       PROVE  ks[x(P)] < ks[x(Q)]
  <2>1. /\ P[1] \in 1 .. n /\ P[2] \in 1 .. t(P[1]) /\ P[3] = 1 /\ x(P) \in 1 .. c
        /\ Q[1] \in 1 .. n /\ Q[2] \in 1 .. t(Q[1]) /\ Q[3] = 1 /\ x(Q) \in 1 .. c
    BY <1>9
  <2>2. x(P) < x(Q)
    <3>1. CASE P[1] < Q[1]
      BY <1>3, <1>4, <2>1, <3>1
    <3>2. CASE ~ (P[1] < Q[1])
      <4>1. P[1] = Q[1] /\ P[2] < Q[2]
        BY <1>11, <2>1, <3>2 DEF Before
      <4>2. QED
        BY <1>3, <2>1, <4>1
    <3>3. QED
      BY <3>1, <3>2
  <2> HIDE DEF x
  <2>3. QED
    BY <1>2, <2>1, <2>2
<1>12. \A P \in Places(hs) : x(P) \in 1 .. c /\ Key(hs, P) = ks[x(P)] /\ KeysAt(hs, P) = {ks[x(P)]}
  BY <1>9
<1>13. \A m \in 1 .. c : \E P \in Places(hs) : x(P) = m
  <2> SUFFICES ASSUME NEW m \in 1 .. c
               PROVE  \E P \in Places(hs) : x(P) = m
    OBVIOUS
  <2>1. PICK i \in 1 .. n : r[ks[m]] = i
    BY <1>2
  <2>2. PICK q \in Nat : q = s(i)
    BY <1>3
  <2>3. q < m /\ m <= q + t(i)
    BY <1>5, <2>1, <2>2
  <2>4. PICK j \in 1 .. t(i) : q + j = m
    <3>1. m - q \in 1 .. t(i) /\ q + (m - q) = m
      BY <1>3, <2>2, <2>3
    <3>2. QED
      BY <3>1
  <2>5. <<i, j, 1>> \in Places(hs) /\ x(<<i, j, 1>>) = m
    BY <1>10, <2>2, <2>4
  <2>6. QED
    BY <2>5
<1> HIDE DEF x
<1>14. Chain(hs)
  BY <1>11, <1>12 DEF Chain
<1>15. Floors(hs)
  BY <1>2, <1>12 DEF Floors
<1>16. Holds(hs, d)
  <2>1. ASSUME NEW k \in Keys, NEW P \in Places(hs), k \in KeysAt(hs, P) PROVE k \in d
    BY <1>2, <1>12, <2>1
  <2>2. ASSUME NEW k \in Keys, k \in d PROVE \E P \in Places(hs) : k \in KeysAt(hs, P)
    <3>1. PICK m \in 1 .. c : ks[m] = k
      BY <1>2, <2>2
    <3>2. PICK P \in Places(hs) : x(P) = m
      BY <1>13
    <3>3. QED
      BY <1>12, <3>1, <3>2
  <2>3. QED
    BY <2>1, <2>2 DEF Holds
<1>17. Inhabited(hs)
  <2>1. 1 \in 1 .. c
    BY <1>1
  <2>2. PICK P \in Places(hs) : x(P) = 1
    BY <1>13, <2>1
  <2>3. P[1] \in DOMAIN hs /\ P[2] \in DOMAIN hs[P[1]].bents
    BY PlacesAre
  <2>4. hs[P[1]].bents # <<>>
    BY <2>3
  <2>5. QED
    BY <2>3, <2>4 DEF Inhabited, Bare
<1>18. Covers(hs, r)
  <2>1. ASSUME NEW i \in DOMAIN hs, NEW k \in Keys, ~ Bare(hs, i), EntryKey(hs[i], 0) <= k
        PROVE  i <= r[k]
    <3>1. <<i, 1, 1>> \in Places(hs) /\ EntryKey(hs[i], 0) = Key(hs, <<i, 1, 1>>)
      BY <1>6, <2>1, FirstPlace
    <3>2. PICK m \in 1 .. c : m = x(<<i, 1, 1>>) /\ Key(hs, <<i, 1, 1>>) = ks[m]
      BY <1>12, <3>1
    <3>3. i \in 1 .. n /\ s(i) \in Nat /\ m = s(i) + 1
      BY <1>3, <1>6, <3>2 DEF x
    <3>4. ~ (r[ks[m]] < i)
      BY <1>5, <3>3
    <3>5. ks[m] \in Keys /\ ks[m] <= k
      BY <1>2, <2>1, <3>1, <3>2
    <3>6. r[ks[m]] <= r[k] /\ r[ks[m]] \in 1 .. n /\ r[k] \in 1 .. n
      BY <3>5 DEF Monotone
    <3>7. QED
      BY <3>3, <3>4, <3>6
  <2>2. QED
    BY <2>1 DEF Covers
<1>19. QED
  BY <1>6, <1>14, <1>15, <1>16, <1>17, <1>18 DEF Content, Sound, hs

(* The tree that starts without pairs. *)
LEMMA EmptyContent ==
  ASSUME NEW any \in 0 .. MaxKey, NEW r
  PROVE  LET g == [bents |-> <<<<[key |-> 0, keys |-> {}, holes |-> {}, prefix |-> InitPrefix]>>>>,
                   next_entry_count |-> 1, min_key |-> any]
         IN  /\ <<g>> \in Tree /\ Len(<<g>>) = 1 /\ Counted(<<g>>) /\ Content(<<g>>, {}, r)
<1> DEFINE x == [key |-> 0, keys |-> {}, holes |-> {}, prefix |-> InitPrefix]
           g == [bents |-> <<<<x>>>>, next_entry_count |-> 1, min_key |-> any]
           gs == <<g>>
<1>1. x \in Pointer
  <2>1. Cardinality({}) = 0 /\ {} \in SUBSET Keys
    BY FS_EmptySet
  <2>2. Cardinality({}) + Cardinality({}) <= MaxEntries
    BY <2>1, Constants
  <2>3. 0 \in 0 .. MaxKey
    BY Constants
  <2>4. QED
    BY <2>1, <2>2, <2>3, PointerMade
<1>2. x.key = 0 /\ x.keys = {}
  OBVIOUS
<1> HIDE DEF x
<1>3. <<x>> \in Bents /\ DOMAIN <<x>> = {1} /\ <<x>>[1] = x
  <2>1. <<x>> \in Seq(Pointer) /\ Len(<<x>>) = 1
    BY <1>1
  <2>2. QED
    BY <2>1, Constants DEF Bents
<1> DEFINE b == <<x>>
<1>4. <<b>> \in Seq(Bents) /\ DOMAIN <<b>> = {1} /\ <<b>>[1] = b
  BY <1>3
<1>5. g \in Group /\ g.bents = <<b>> /\ g.next_entry_count = 1
  BY <1>4 DEF Group
<1> HIDE DEF g, b
<1>6. gs \in Tree /\ Len(gs) = 1 /\ DOMAIN gs = {1} /\ gs[1] = g
  BY <1>5, OneGroup
<1>7. Cardinality(Places(<<g>>)) = 1
  <2>1. DOMAIN g.bents = 1 .. 1 /\ \A j \in 1 .. 1 : DOMAIN g.bents[j] = {1}
    BY <1>3, <1>4, <1>5 DEF b
  <2>2. QED
    BY <2>1, CountSingles
<1>8. Counted(gs)
  BY <1>5, <1>6, <1>7 DEF Counted
<1>9. \A P \in Places(gs) : P = <<1, 1, 1>> /\ Key(gs, P) = 0 /\ KeysAt(gs, P) = {}
  <2> SUFFICES ASSUME NEW P \in Places(gs)
               PROVE  P = <<1, 1, 1>> /\ PointerAt(gs, P) = x
    BY <1>2 DEF Key, KeysAt
  <2>1. PICK j \in DOMAIN g.bents : \E p \in DOMAIN g.bents[j] : P = <<1, j, p>>
    BY PlacesOfOne
  <2>2. PICK p \in DOMAIN g.bents[j] : P = <<1, j, p>>
    BY <2>1
  <2>3. j = 1 /\ p = 1 /\ g.bents[1][1] = x
    BY <1>3, <1>4, <1>5, <2>2 DEF b
  <2>4. QED
    BY <1>6, <2>2, <2>3 DEF PointerAt
<1> HIDE DEF gs
<1>10. Chain(gs)
  BY <1>9 DEF Chain, Before
<1>11. Floors(gs) /\ Holds(gs, {})
  BY <1>9 DEF Floors, Holds
<1>12. Inhabited(gs)
  <2>1. gs[1].bents # <<>>
    <3>1. DOMAIN gs[1].bents = {1}
      BY <1>4, <1>5, <1>6
    <3>2. QED
      BY <3>1
  <2>2. QED
    BY <1>6, <2>1 DEF Inhabited, Bare
<1>13. Covers(gs, r)
  <2>1. \A i \in DOMAIN gs : 1 .. i - 1 = {}
    BY <1>6
  <2>2. QED
    BY <2>1 DEF Covers
<1>14. QED
  BY <1>6, <1>8, <1>10, <1>11, <1>12, <1>13 DEF Content, Sound, gs, g, b, x

-----------------------------------------------------------------------------
(* The inductive invariant *)

(* Types, and what the groups say of their number of pointers, at every    *)
(* step.                                                                   *)
Shape ==
  /\ groups \in Tree /\ Len(groups) >= 1 /\ Counted(groups)
  /\ route \in [Keys -> 1 .. Len(groups)] /\ Monotone(route)
  /\ store \in SUBSET Keys /\ deletes \in 0 .. MaxDeletes /\ dirty \in BOOLEAN
  /\ put \in 0 .. MaxKey /\ tries \in 0 .. 2 /\ at \in 0 .. Len(groups)

Idle == stage = "idle" /\ put = 0 /\ at = 0

(* A Put that has found its group, or is about to. Coming by retry0 for    *)
(* the second time, it is in a group, or in a tree, that has just been     *)
(* expanded: entries of one pointer each, so that the bucket can split.    *)
Trying ==
  /\ stage = "try" /\ put \in Keys /\ put \notin store /\ tries \in 0 .. 1
  /\ tries = 0 => at = 0
  /\ at # 0 => Named(groups, route, put, at)
  /\ tries = 1 => \A i \in DOMAIN groups : at = 0 \/ at = i => Single(groups[i])

(* A Put that found its entry full, in the group that find_group named. *)
Expanding ==
  /\ stage \in {"group", "root"} /\ put \in Keys /\ put \notin store /\ tries = 1
  /\ at # 0 /\ Named(groups, route, put, at)

(* The invariant. Once a hole has misled a Put or hidden the least key of  *)
(* a bucket from AdjustEntryKey, the tree is not followed further: its     *)
(* types and its counts are kept, not its content.                         *)
IInv ==
  /\ Shape
  /\ dirty => stage \in {"idle", "try"}
  /\ ~ dirty => Content(groups, store, route) /\ (Idle \/ Trying \/ Expanding)

(* A tree as Init leaves it. *)
Begun ==
  /\ groups \in Tree /\ Len(groups) >= 1 /\ Counted(groups)
  /\ route \in [Keys -> 1 .. Len(groups)] /\ Monotone(route)
  /\ store \in SUBSET Keys /\ Content(groups, store, route)

(* An empty tree and a bulk-loaded one. *)
LEMMA InitIInv ==
  ASSUME ~ MayOverflow, Init
  PROVE  IInv
<1>1. /\ put = 0 /\ stage = "idle" /\ at = 0 /\ tries = 0 /\ deletes = 0 /\ dirty = FALSE
      /\ EmptyTree \/ BulkLoaded
  BY DEF Init
<1>2. put \in 0 .. MaxKey /\ deletes \in 0 .. MaxDeletes /\ Idle
  BY <1>1, Constants DEF Idle
<1>3. ASSUME EmptyTree
      PROVE  Begun
  <2>1. PICK any \in {0, MaxKey} :
          groups = <<[bents |-> <<<<[key |-> 0, keys |-> {}, holes |-> {}, prefix |-> InitPrefix]>>>>,
                      next_entry_count |-> 1, min_key |-> any]>>
    BY <1>3 DEF EmptyTree
  <2>2. any \in 0 .. MaxKey
    BY Constants
  <2>3. groups \in Tree /\ Len(groups) = 1 /\ Counted(groups) /\ Content(groups, {}, route)
    BY <2>1, <2>2, EmptyContent
  <2>4. store = {} /\ route = [k \in Keys |-> 1]
    BY <1>3 DEF EmptyTree
  <2>5. route \in [Keys -> 1 .. 1] /\ Monotone(route)
    BY <2>4 DEF Monotone
  <2>6. QED
    BY <2>3, <2>4, <2>5 DEF Begun
<1>4. ASSUME BulkLoaded
      PROVE  Begun
  <2>1. PICK d \in BulkLoads :
          LET n == Cardinality(d) \div MinEntryCount
          IN  /\ store = d
              /\ route \in Routes(n, d)
              /\ groups = [i \in 1 .. n |->
                   LET mine  == Cardinality({k \in d : route[k] = i})
                       start == Cardinality({k \in d : route[k] < i})
                   IN  IF mine = 0 THEN [bents |-> <<>>, next_entry_count |-> 0, min_key |-> 0]
                       ELSE GroupLoaded(Ordered(d), start, mine)]
    BY <1>4 DEF BulkLoaded
  <2> DEFINE n == Cardinality(d) \div MinEntryCount
  <2>2. store = d /\ route \in Routes(n, d) /\ groups = Loaded(d, route, n)
    BY <2>1 DEF Loaded
  <2>3. d \in SUBSET Keys /\ Cardinality(d) >= MinEntryCount
    BY LetreeAssumption DEF Keys
  <2>4. Cardinality(d) \in Nat
    BY <2>3, KeysFinite
  <2>5. n \in Nat /\ n >= 1 /\ Cardinality(d) >= 1
    BY <2>3, <2>4, Constants
  <2> HIDE DEF n
  <2>6. route \in [Keys -> 1 .. n] /\ Monotone(route)
    BY <2>2, <2>5, RouteIs
  <2>7. groups \in Tree /\ Len(groups) = n /\ Counted(groups)
    BY <2>2, <2>3, <2>5, <2>6, LoadedIs
  <2>8. Content(groups, d, route)
    BY <2>2, <2>3, <2>5, <2>6, LoadedContent
  <2>9. QED
    BY <2>2, <2>3, <2>5, <2>6, <2>7, <2>8 DEF Begun
<1>5. Begun
  BY <1>1, <1>3, <1>4
<1>6. Shape
  <2>1. 0 \in 0 .. Len(groups) /\ 0 \in 0 .. 2 /\ FALSE \in BOOLEAN
    BY <1>5, Parts DEF Begun
  <2>2. QED
    BY <1>1, <1>2, <1>5, <2>1 DEF Begun, Shape
<1>7. QED
  BY <1>1, <1>2, <1>5, <1>6 DEF Begun, IInv

-----------------------------------------------------------------------------
(* Every step keeps the invariant *)

(* What the hole that a Delete leaves makes of the tree. *)
LEMMA DeletedTree ==
  ASSUME NEW gs \in Tree, Counted(gs), NEW S, NEW r \in [Keys -> 1 .. Len(gs)],
         Content(gs, S, r), NEW k \in Keys, NEW g, NEW e, OwnsEntry(gs, k, g, e),
         k \in gs[g].bents[e][FindPos(gs[g].bents[e], k)].keys
  PROVE  LET b  == gs[g].bents[e]
             nb == [b EXCEPT ![FindPos(b, k)] = Vacated(b[FindPos(b, k)], k)]
             hs == [gs EXCEPT ![g].bents[e] = nb]
         IN  hs \in Tree /\ Len(hs) = Len(gs) /\ Counted(hs) /\ Content(hs, S \ {k}, r)
<1> DEFINE b == gs[g].bents[e]
           pos == FindPos(b, k)
           nb == [b EXCEPT ![pos] = Vacated(b[pos], k)]
           hs == [gs EXCEPT ![g].bents[e] = nb]
<1>1. Sound(gs)
  BY DEF Content
<1>2. g \in DOMAIN gs /\ e \in DOMAIN gs[g].bents /\ b \in Bents
  BY <1>1, Parts, GroupParts DEF Sound, OwnsEntry, OwnsGroup
<1>3. k \in Int
  BY DEF Keys
<1>4. pos \in DOMAIN b
  BY <1>1, <1>2, <1>3, PlaceOwned
<1>5. nb \in Bents /\ Removes(nb, b, pos, k)
  BY <1>2, <1>4, RemovedBent
<1> HIDE DEF nb
<1>6. Updates(hs, gs, g, e, nb, gs[g].next_entry_count)
  BY <1>2, <1>5, ReplacingOne, Zenon DEF hs
<1> HIDE DEF hs
<1>7. Len(hs) = Len(gs) /\ Counted(hs) /\ Content(hs, S \ {k}, r)
  BY <1>2, <1>5, <1>6, TreeAfterDelete DEF Updates
<1>8. QED
  BY <1>6, <1>7 DEF hs, nb, Updates

(* The tree after the bucket took the pair. *)
LEMMA FittedTree ==
  ASSUME NEW gs \in Tree, Counted(gs), NEW S, NEW r \in [Keys -> 1 .. Len(gs)], Monotone(r),
         Content(gs, S, r), NEW k \in Keys, NEW g, Named(gs, r, k, g), NEW e,
         OwnsEntry(gs, k, g, e), ~ FullBucket(gs[g].bents[e], k)
  PROVE  LET hs == [gs EXCEPT ![g].bents[e] = Insert(gs[g].bents[e], k)]
         IN  hs \in Tree /\ Len(hs) = Len(gs) /\ Counted(hs) /\ Content(hs, S \union {k}, r)
<1> DEFINE nb == Insert(gs[g].bents[e], k)
           hs == [gs EXCEPT ![g].bents[e] = nb]
<1>1. Sound(gs) /\ g \in DOMAIN gs /\ e \in DOMAIN gs[g].bents
  BY DEF Content, OwnsEntry, OwnsGroup
<1>2. nb \in Bents
  BY <1>1, InsertedBent
<1>3. Updates(hs, gs, g, e, nb, gs[g].next_entry_count)
  <2> HIDE DEF nb
  <2>1. QED
    BY <1>1, <1>2, ReplacingOne, Zenon
<1> HIDE DEF hs
<1>4. Len(hs) = Len(gs) /\ Counted(hs) /\ Content(hs, S \union {k}, r)
  BY <1>3, TreeAfterFits DEF Updates
<1>5. QED
  BY <1>3, <1>4 DEF hs, Updates

(* The tree after the bucket was split and took the pair. *)
LEMMA SplitTree ==
  ASSUME NEW gs \in Tree, Counted(gs), NEW S, NEW r \in [Keys -> 1 .. Len(gs)], Monotone(r),
         Content(gs, S, r), NEW k \in Keys, NEW g, Named(gs, r, k, g), NEW e,
         OwnsEntry(gs, k, g, e), FullBucket(gs[g].bents[e], k),
         Len(gs[g].bents[e]) < EntryCount
  PROVE  LET b == gs[g].bents[e]
             hs == [gs EXCEPT ![g].bents[e] = Insert(SplitAt(b, FindPos(b, k)), k),
                              ![g].next_entry_count = @ + 1]
         IN  hs \in Tree /\ Len(hs) = Len(gs) /\ Counted(hs) /\ Content(hs, S \union {k}, r)
<1> DEFINE b == gs[g].bents[e]
           sb == SplitAt(b, FindPos(b, k))
           nb == Insert(sb, k)
           ss == [gs EXCEPT ![g].bents[e] = sb]
           hs == [gs EXCEPT ![g].bents[e] = nb, ![g].next_entry_count = @ + 1]
<1>1. Sound(gs) /\ Holds(gs, S) /\ g \in DOMAIN gs /\ e \in DOMAIN gs[g].bents
  BY DEF Content, OwnsEntry, OwnsGroup
<1>2. sb \in Bents
  BY <1>1, SplitBent
<1>3. Updates(ss, gs, g, e, sb, gs[g].next_entry_count)
  <2> HIDE DEF sb
  <2>1. QED
    BY <1>1, <1>2, ReplacingOne, Zenon
<1> HIDE DEF ss
<1>4. Sound(ss) /\ OwnsEntry(ss, k, g, e) /\ ~ FullBucket(sb, k)
  BY <1>1, <1>3, BucketSplit DEF Updates
<1>5. ss[g].bents[e] = sb
  <2> HIDE DEF sb
  <2>1. QED
    BY <1>1, <1>3 DEF Updates, Replaces
<1>6. nb \in Bents
  <2> HIDE DEF sb
  <2>1. QED
    BY <1>4, <1>5, InsertedBent
<1>7. Updates(hs, gs, g, e, nb, gs[g].next_entry_count + 1)
  <2> HIDE DEF nb
  <2>1. QED
    BY <1>1, <1>6, ReplacingCounted, Zenon
<1> HIDE DEF hs
<1>8. Len(hs) = Len(gs) /\ Counted(hs) /\ Content(hs, S \union {k}, r)
  BY <1>7, TreeAfterSplits DEF Updates
<1>9. QED
  BY <1>7, <1>8 DEF hs, Updates

(* A Put begins. *)
LEMMA CallKeepsIInv ==
  ASSUME IInv, NEW k \in Keys, Call(k)
  PROVE  IInv'
<1>1. /\ ~ dirty /\ k \notin store /\ put' = k /\ stage' = "try" /\ at' = 0 /\ tries' = 0
      /\ groups' = groups /\ route' = route /\ store' = store /\ deletes' = deletes /\ dirty' = dirty
  BY DEF Call
<1>2. Shape /\ Content(groups, store, route)
  BY <1>1 DEF IInv
<1>3. k \in 0 .. MaxKey /\ 0 \in 0 .. Len(groups)
  BY <1>2, Constants, Parts DEF Keys, Shape
<1>4. Shape'
  BY <1>1, <1>2, <1>3 DEF Shape
<1>5. Content(groups', store', route')
  BY <1>1, <1>2
<1>6. Trying'
  BY <1>1 DEF Trying
<1>7. QED
  BY <1>1, <1>4, <1>5, <1>6 DEF IInv

(* Delete finds the bucket of the key in one pass of find_group,           *)
(* find_entry and Find_pos.                                                *)
LEMMA DeleteKeepsIInv ==
  ASSUME IInv, NEW k \in Keys, Delete(k)
  PROVE  IInv'
<1> DEFINE g == FindGroup(groups, route, k)
<1>1. /\ stage = "idle" /\ ~ dirty /\ deletes < MaxDeletes
      /\ store' = store \ {k} /\ deletes' = deletes + 1
      /\ route' = route /\ put' = put /\ stage' = stage /\ at' = at /\ tries' = tries /\ dirty' = dirty
  BY DEF Delete
<1>2. Shape /\ Content(groups, store, route) /\ Idle
  BY <1>1 DEF IInv, Trying, Expanding
<1>3. OwnsGroup(groups, k, g)
  BY <1>2, GroupFound DEF Shape, Content
<1>4. PICK m \in Predictions(groups[g]) :
        LET e   == FindEntry(groups[g], m, k) + 1
            pos == FindPos(groups[g].bents[e], k)
        IN  /\ k \in groups[g].bents[e][pos].keys
            /\ groups' = [groups EXCEPT ![g].bents[e][pos] = Vacated(groups[g].bents[e][pos], k)]
  BY DEF Delete
<1> HIDE DEF g
<1>5. /\ groups' \in Tree /\ Len(groups') = Len(groups) /\ Counted(groups')
      /\ Content(groups', store \ {k}, route)
  <2>1. PICK e : e = FindEntry(groups[g], m, k) + 1
    OBVIOUS
  <2>2. PICK pos : pos = FindPos(groups[g].bents[e], k)
    OBVIOUS
  <2>3. k \in groups[g].bents[e][pos].keys
    BY <1>4, <2>1, <2>2, Zenon
  <2>4. OwnsEntry(groups, k, g, e)
    BY <1>2, <1>3, <2>1, EntryNamed DEF Content
  <2> DEFINE b  == groups[g].bents[e]
             nb == [b EXCEPT ![FindPos(b, k)] = Vacated(b[FindPos(b, k)], k)]
             hs == [groups EXCEPT ![g].bents[e] = nb]
  <2>5. hs \in Tree /\ Len(hs) = Len(groups) /\ Counted(hs) /\ Content(hs, store \ {k}, route)
    BY <1>2, <2>2, <2>3, <2>4, DeletedTree DEF Shape
  <2>6. groups' = [groups EXCEPT ![g].bents[e][pos] = Vacated(groups[g].bents[e][pos], k)]
    BY <1>4, <2>1, <2>2, Zenon
  <2>7. groups' = hs
    BY <2>2, <2>6, DeepUpdate, Zenon
  <2>8. QED
    BY <2>5, <2>7
<1>6. deletes' \in 0 .. MaxDeletes
  BY <1>1, <1>2, Constants DEF Shape
<1>7. Shape' /\ Idle' /\ Content(groups', store', route')
  BY <1>1, <1>2, <1>5, <1>6 DEF Shape, Idle
<1>8. QED
  BY <1>1, <1>7 DEF IInv

(* The step of a Put that is trying: the pair goes in, or the entry is     *)
(* full, which after an expansion it cannot be.                            *)
LEMMA TryPutKeepsIInv ==
  ASSUME ~ MayOverflow, IInv, TryPut
  PROVE  IInv'
<1> DEFINE g == IF at = 0 THEN FindGroup(groups, route, put) ELSE at
<1>1. /\ stage = "try" /\ ~ dirty /\ tries' = tries + 1
      /\ route' = route /\ deletes' = deletes
  BY DEF TryPut
<1>2. Shape /\ Content(groups, store, route) /\ Trying
  BY <1>1 DEF IInv, Idle, Expanding
<1>3. put \in Keys /\ put \notin store /\ tries \in 0 .. 1
  BY <1>2 DEF Trying
<1>4. Named(groups, route, put, g)
  <2>1. CASE at = 0
    BY <1>2, <1>3, <2>1, GroupFound DEF Shape, Content, Named
  <2>2. CASE at # 0
    BY <1>2, <2>2 DEF Trying
  <2>3. QED
    BY <2>1, <2>2
<1>5. tries = 1 => Single(groups[g])
  <2>1. g \in DOMAIN groups /\ (at = 0 \/ at = g)
    BY <1>4 DEF Named, OwnsGroup
  <2>2. QED
    BY <1>2, <2>1 DEF Trying
<1>6. PICK m \in Predictions(groups[g]) :
        LET e == FindEntry(groups[g], m, put)
        IN  PutFits(g, e) \/ PutSplits(g, e) \/ PutFull(g, e)
  BY DEF TryPut
<1> HIDE DEF g
<1>7. PICK e : e = FindEntry(groups[g], m, put)
  OBVIOUS
<1>8. OwnsEntry(groups, put, g, e + 1) /\ g \in DOMAIN groups /\ e + 1 \in DOMAIN groups[g].bents
  BY <1>2, <1>3, <1>4, <1>7, EntryNamed DEF Content, Named
<1>9. tries' \in 0 .. 2 /\ 0 \in 0 .. MaxKey
  BY <1>1, <1>3, Constants
<1>10. ASSUME /\ groups' \in Tree /\ Len(groups') = Len(groups) /\ Counted(groups')
              /\ Content(groups', store \union {put}, route),
              Done, dirty' \in BOOLEAN
       PROVE  IInv'
  <2>1. put' = 0 /\ stage' = "idle" /\ at' = 0 /\ store' = store \union {put}
    BY <1>10 DEF Done
  <2>2. 0 \in 0 .. Len(groups')
    BY <1>10, Parts
  <2>3. Shape'
    BY <1>1, <1>2, <1>3, <1>9, <1>10, <2>1, <2>2 DEF Shape
  <2>4. Idle' /\ Content(groups', store', route')
    BY <1>1, <1>10, <2>1 DEF Idle
  <2>5. QED
    BY <1>1, <2>1, <2>3, <2>4 DEF IInv
<1>11. CASE PutFits(g, e)
  <2> DEFINE bent == groups[g].bents[e + 1]
  <2>1. /\ ~ FullBucket(groups[g].bents[e + 1], put) /\ Done
        /\ dirty' = Misled(bent[FindPos(bent, put)], put)
        /\ groups' = [groups EXCEPT ![g].bents[e + 1] = Insert(groups[g].bents[e + 1], put)]
    BY <1>11 DEF PutFits
  <2>2. LET hs == [groups EXCEPT ![g].bents[e + 1] = Insert(groups[g].bents[e + 1], put)]
        IN  /\ hs \in Tree /\ Len(hs) = Len(groups) /\ Counted(hs)
            /\ Content(hs, store \union {put}, route)
    BY <1>2, <1>3, <1>4, <1>8, <2>1, FittedTree DEF Shape
  <2>3. /\ groups' \in Tree /\ Len(groups') = Len(groups) /\ Counted(groups')
        /\ Content(groups', store \union {put}, route)
    BY <2>1, <2>2, Zenon
  <2>4. dirty' \in BOOLEAN
    BY <2>1 DEF Misled
  <2>5. QED
    BY <1>10, <2>1, <2>3, <2>4
<1>12. CASE PutSplits(g, e)
  <2>1. /\ FullBucket(groups[g].bents[e + 1], put) /\ Len(groups[g].bents[e + 1]) < EntryCount
        /\ Done /\ dirty' = dirty
        /\ groups' = [groups EXCEPT
             ![g].bents[e + 1] = Insert(SplitAt(groups[g].bents[e + 1], FindPos(groups[g].bents[e + 1], put)), put),
             ![g].next_entry_count = @ + 1]
    BY <1>12 DEF PutSplits
  <2>2. LET hs == [groups EXCEPT
             ![g].bents[e + 1] = Insert(SplitAt(groups[g].bents[e + 1], FindPos(groups[g].bents[e + 1], put)), put),
             ![g].next_entry_count = @ + 1]
        IN  /\ hs \in Tree /\ Len(hs) = Len(groups) /\ Counted(hs)
            /\ Content(hs, store \union {put}, route)
    BY <1>2, <1>3, <1>4, <1>8, <2>1, SplitTree DEF Shape
  <2>3. /\ groups' \in Tree /\ Len(groups') = Len(groups) /\ Counted(groups')
        /\ Content(groups', store \union {put}, route)
    BY <2>1, <2>2, Zenon
  <2>4. dirty' \in BOOLEAN
    BY <1>2, <2>1 DEF Shape
  <2>5. QED
    BY <1>10, <2>1, <2>3, <2>4
<1>13. CASE PutFull(g, e)
  <2>1. /\ Len(groups[g].bents[e + 1]) = EntryCount /\ stage' \in {"root", "group"} /\ at' = g
        /\ groups' = groups /\ put' = put /\ store' = store /\ dirty' = dirty
    BY <1>13 DEF PutFull
  <2>2. tries # 1
    <3>1. tries = 1 => Len(groups[g].bents[e + 1]) = 1
      BY <1>5, <1>8, Zenon DEF Single
    <3>2. EntryCount # 1
      BY Constants
    <3>3. QED
      BY <2>1, <3>1, <3>2
  <2>3. tries = 0 /\ tries' = 1
    BY <1>1, <1>3, <2>2
  <2>4. g # 0 /\ g \in 0 .. Len(groups)
    <3>1. groups \in Tree /\ g \in DOMAIN groups
      BY <1>2, <1>8 DEF Shape
    <3>2. Len(groups) \in Nat /\ DOMAIN groups = 1 .. Len(groups)
      BY <3>1, Parts
    <3>3. QED
      BY <3>1, <3>2
  <2>5. Shape'
    BY <1>1, <1>2, <1>9, <2>1, <2>4 DEF Shape
  <2>6. Expanding' /\ Content(groups', store', route')
    BY <1>1, <1>2, <1>3, <1>4, <2>1, <2>3, <2>4 DEF Expanding
  <2>7. ~ dirty'
    BY <1>1, <2>1
  <2>8. QED
    BY <2>5, <2>6, <2>7 DEF IInv
<1>14. QED
  BY <1>6, <1>7, <1>11, <1>12, <1>13

(* group::expand keeps the content and the group that the key belongs to. *)
LEMMA ExpandGroupKeepsIInv ==
  ASSUME IInv, ExpandGroup
  PROVE  IInv'
<1> DEFINE ps == Pointers(<<Adjusted(groups[at])>>)
           hs == [groups EXCEPT ![at].bents = Singles(ps), ![at].next_entry_count = Len(ps)]
<1>1. /\ stage = "group" /\ stage' = "try" /\ groups' = hs
      /\ route' = route /\ put' = put /\ at' = at /\ tries' = tries
      /\ store' = store /\ deletes' = deletes
      /\ dirty' = Unreadable(groups[at])
  BY DEF ExpandGroup
<1>2. Shape /\ Content(groups, store, route) /\ Expanding /\ ~ dirty
  BY <1>1 DEF IInv, Idle, Trying
<1>3. /\ put \in Keys /\ put \notin store /\ tries = 1 /\ at # 0 /\ Named(groups, route, put, at)
  BY <1>2 DEF Expanding
<1>4. at \in DOMAIN groups /\ ~ Bare(groups, at)
  BY <1>3 DEF Named, OwnsGroup
<1>5. /\ hs \in Tree /\ DOMAIN hs = DOMAIN groups /\ Len(hs) = Len(groups)
      /\ hs[at].bents = Singles(ps)
      /\ \A i \in DOMAIN groups : i # at => hs[i] = groups[i]
      /\ Counted(hs) /\ Single(hs[at])
  BY <1>2, <1>4, GroupExpanded DEF Shape
<1> HIDE DEF hs
<1>6. Content(hs, store, route) /\ \A k \in Keys : Named(groups, route, k, at) => Named(hs, route, k, at)
  BY <1>2, <1>4, <1>5, GroupExpandedContent DEF Shape
<1> HIDE DEF ps
<1>7. Shape'
  <2>1. dirty' \in BOOLEAN
    BY <1>1 DEF Unreadable
  <2>2. QED
    BY <1>1, <1>2, <1>5, <2>1 DEF Shape
<1>8. Named(groups', route', put', at') /\ Content(groups', store', route')
  BY <1>1, <1>3, <1>6
<1>9. Trying'
  BY <1>1, <1>3, <1>5, <1>8 DEF Trying
<1>10. QED
  BY <1>1, <1>7, <1>8, <1>9 DEF IInv

(* letree::ExpandTree keeps the content; the group is looked up again. *)
LEMMA ExpandTreeKeepsIInv ==
  ASSUME ~ MayOverflow, IInv, ExpandTree
  PROVE  IInv'
<1> DEFINE adjusted == [i \in DOMAIN groups |-> Adjusted(groups[i])]
           ps == Pointers(adjusted)
           entry_count[i \in 0 .. Len(groups)] ==
             IF i = 0 THEN 0 ELSE entry_count[i - 1] + groups[i].next_entry_count
           n == Ceil(entry_count[Len(groups)], MinEntryCount)
<1>1. PICK r \in Routes(n, {ps[i].key : i \in DOMAIN ps}) :
        /\ route' = r
        /\ groups' = [i \in 1 .. n |->
             LET mine == Picked(ps, {j \in DOMAIN ps : r[ps[j].key] = i})
             IN  [bents |-> Singles(mine), next_entry_count |-> Len(mine),
                  min_key |-> IF mine = <<>> THEN 0 ELSE mine[1].key]]
  BY DEF ExpandTree
<1>2. groups' = Dealt(Pointers(AllAdjusted(groups)), r, n)
  BY <1>1 DEF Dealt, AllAdjusted
<1> DEFINE trained == {ps[i].key : i \in DOMAIN ps}
<1>3. r \in Routes(n, trained)
  BY <1>1
<1> HIDE DEF trained, ps, adjusted
<1>4. /\ stage = "root" /\ stage' = "try" /\ at' = 0 /\ put' = put /\ tries' = tries
      /\ store' = store /\ deletes' = deletes
      /\ dirty' = \E i \in DOMAIN groups : Unreadable(groups[i])
  BY DEF ExpandTree
<1>5. Shape /\ Content(groups, store, route) /\ Expanding /\ ~ dirty
  BY <1>4 DEF IInv, Idle, Trying
<1>6. PICK c \in Nat : c = entry_count[Len(groups)] /\ \A i \in DOMAIN groups : groups[i].next_entry_count <= c
  BY <1>5, EntrySum DEF Shape
<1> HIDE DEF entry_count
<1>7. n = Ceil(c, MinEntryCount)
  BY <1>6
<1> HIDE DEF n
<1>8. /\ groups' \in Tree /\ Len(groups') = n /\ n \in Nat /\ n >= 1 /\ DOMAIN groups' = 1 .. n
      /\ Counted(groups') /\ \A i \in 1 .. n : Single(groups'[i])
      /\ r \in [Keys -> 1 .. n] /\ Monotone(r)
      /\ (\A i \in DOMAIN groups : ~ Unreadable(groups[i])) => Content(groups', store, r)
  BY <1>2, <1>3, <1>5, <1>6, <1>7, TreeExpanded DEF Shape
<1>9. put \in Keys /\ put \notin store /\ tries = 1
  BY <1>5 DEF Expanding
<1>10. Shape'
  <2>1. route' = r
    BY <1>1
  <2>2. /\ store \in SUBSET Keys /\ deletes \in 0 .. MaxDeletes
        /\ put \in 0 .. MaxKey /\ tries \in 0 .. 2
    BY <1>5 DEF Shape
  <2>3. /\ groups' \in Tree /\ Len(groups') >= 1 /\ Counted(groups')
        /\ r \in [Keys -> 1 .. Len(groups')] /\ Monotone(r)
    BY <1>8
  <2>4. dirty' \in BOOLEAN /\ at' \in 0 .. Len(groups')
    <3>1. Len(groups') \in Nat
      BY <1>8
    <3>2. QED
      BY <1>4, <3>1
  <2>5. QED
    BY <1>4, <2>1, <2>2, <2>3, <2>4 DEF Shape
<1>11. Trying'
  BY <1>4, <1>8, <1>9 DEF Trying
<1>12. ~ dirty' => Content(groups', store', route')
  BY <1>1, <1>4, <1>8
<1>13. QED
  BY <1>4, <1>10, <1>11, <1>12 DEF IInv

-----------------------------------------------------------------------------
(* The theorems *)

(* Every step keeps the invariant. *)
LEMMA NextKeepsIInv ==
  ASSUME ~ MayOverflow, IInv, [Next]_vars
  PROVE  IInv'
<1>1. CASE \E k \in Keys : Call(k) \/ Delete(k)
  BY <1>1, CallKeepsIInv, DeleteKeepsIInv
<1>2. CASE TryPut
  BY <1>2, TryPutKeepsIInv
<1>3. CASE ExpandGroup
  BY <1>3, ExpandGroupKeepsIInv
<1>4. CASE ExpandTree
  BY <1>4, ExpandTreeKeepsIInv
<1>5. CASE UNCHANGED vars
  <2>1. /\ groups' = groups /\ route' = route /\ put' = put /\ stage' = stage /\ at' = at
        /\ tries' = tries /\ store' = store /\ deletes' = deletes /\ dirty' = dirty
    BY <1>5 DEF vars
  <2>2. Shape' <=> Shape
    BY <2>1 DEF Shape
  <2>3. (Idle \/ Trying \/ Expanding)' <=> (Idle \/ Trying \/ Expanding)
    BY <2>1 DEF Idle, Trying, Expanding
  <2>4. Content(groups', store', route') <=> Content(groups, store, route)
    BY <2>1
  <2>5. QED
    BY <2>1, <2>2, <2>3, <2>4 DEF IInv
<1>6. QED
  BY <1>1, <1>2, <1>3, <1>4, <1>5 DEF Next

(* The inductive invariant of the tree: every key in the bucket where the  *)
(* searches look for it, whatever the models of groups predict and through *)
(* every expansion of letree.h, until a hole misleads a Put or hides an    *)
(* entry's key; exact counts; and a Put that comes by the labels retry0 at *)
(* most twice, since right after group::expand or ExpandTree no entry is   *)
(* full.                                                                   *)
THEOREM Invariance ==
  ASSUME ~ MayOverflow
  PROVE  Spec => []IInv
<1>1. Init => IInv
  BY InitIInv
<1>2. IInv /\ [Next]_vars => IInv'
  BY NextKeepsIInv
<1>3. QED
  BY <1>1, <1>2, PTL DEF Spec

(* The types from the invariant. *)
LEMMA IInvTypeOK ==
  ASSUME IInv
  PROVE  TypeOK
<1>1. Shape
  BY DEF IInv
<1>2. stage \in {"idle", "try", "group", "root"}
  <2>1. dirty \in BOOLEAN
    BY <1>1 DEF Shape
  <2>2. QED
    BY <2>1 DEF IInv, Idle, Trying, Expanding
<1>3. groups \in Tree
  BY <1>1 DEF Shape
<1>4. ASSUME NEW i \in DOMAIN groups
      PROVE  /\ groups[i].min_key \in 0 .. MaxKey
             /\ \A j \in DOMAIN groups[i].bents : Len(groups[i].bents[j]) \in 1 .. EntryCount
  <2>1. groups[i] \in Group
    BY <1>3, Parts
  <2>2. groups[i].min_key \in 0 .. MaxKey /\ \A j \in DOMAIN groups[i].bents : groups[i].bents[j] \in Bents
    BY <2>1, GroupParts
  <2>3. QED
    BY <2>2 DEF Bents
<1>5. ASSUME NEW place \in Places(groups)
      PROVE  /\ PointerAt(groups, place).key \in 0 .. MaxKey
             /\ PointerAt(groups, place).prefix \in {0, InitPrefix}
             /\ PointerAt(groups, place).keys \subseteq Keys
             /\ PointerAt(groups, place).holes \subseteq Keys
             /\ Cardinality(PointerAt(groups, place).keys)
                  + Cardinality(PointerAt(groups, place).holes) <= MaxEntries
  BY <1>3, PointerRecord, PointerParts
<1>6. QED
  BY <1>1, <1>2, <1>4, <1>5 DEF Shape, TypeOK

(* Types at every step: entries never outgrow entry_count nor buckets      *)
(* max_entries, the group a Put is in exists, and no Put tries more than   *)
(* twice (the retry0 loops of letree::Put and group::Put end).             *)
THEOREM TypeCorrect ==
  ASSUME ~ MayOverflow
  PROVE  Spec => []TypeOK
<1>1. Spec => []IInv
  BY Invariance
<1>2. IInv => TypeOK
  BY IInvTypeOK
<1>3. QED
  BY <1>1, <1>2, PTL

(* Wherever a search of a group ends, it is at a bucket of the group. *)
LEMMA SearchEnds ==
  ASSUME NEW gs, Sound(gs), NEW g \in DOMAIN gs, ~ Bare(gs, g), NEW k \in Keys,
         NEW m \in Predictions(gs[g])
  PROVE  LET e == FindEntry(gs[g], m, k) + 1
             pos == FindPos(gs[g].bents[e], k)
         IN  <<g, e, pos>> \in Places(gs) /\ KeysAt(gs, <<g, e, pos>>) = gs[g].bents[e][pos].keys
<1> DEFINE e == FindEntry(gs[g], m, k) + 1
           b == gs[g].bents[e]
           pos == FindPos(b, k)
<1>1. gs \in Tree /\ gs[g] \in Group /\ k \in Int
  BY Parts DEF Sound, Keys
<1>2. e \in 1 .. Len(gs[g].bents)
  BY <1>1, GroupAscends, EntryIs
<1> HIDE DEF e
<1>3. e \in DOMAIN gs[g].bents /\ b \in Bents
  BY <1>1, <1>2, GroupParts
<1>4. \A p \in DOMAIN b : /\ <<g, e, p>> \in Places(gs) /\ Key(gs, <<g, e, p>>) = b[p].key
                          /\ KeysAt(gs, <<g, e, p>>) = b[p].keys
  BY <1>3, PlacesAre DEF Key, KeysAt
<1>5. ASSUME NEW p \in DOMAIN b, NEW q \in DOMAIN b, p < q
      PROVE  b[p].key < b[q].key
  <2>1. Before(<<g, e, p>>, <<g, e, q>>)
    BY <1>5 DEF Before
  <2>2. QED
    BY <1>4, <2>1 DEF Sound, Chain
<1>6. pos \in DOMAIN b
  BY <1>1, <1>3, <1>5, PosIs
<1>7. QED
  BY <1>4, <1>6 DEF e

(* Gets from the invariant. *)
LEMMA IInvGetFinds ==
  ASSUME IInv
  PROVE  GetFinds
<1> SUFFICES ASSUME ~ dirty, NEW k \in Keys
             PROVE  LET slow == FindGroup(groups, route, k)
                    IN  /\ FastHit(k) => k \in store
                        /\ \A m \in Predictions(groups[slow]) : GroupGet(slow, m, k) <=> k \in store
  BY DEF GetFinds
<1> DEFINE slow == FindGroup(groups, route, k)
<1>1. Shape /\ Content(groups, store, route)
  BY DEF IInv
<1>2. /\ Sound(groups) /\ Holds(groups, store) /\ Inhabited(groups) /\ Covers(groups, route)
      /\ groups \in Tree /\ route \in [Keys -> 1 .. Len(groups)]
  BY <1>1 DEF Content, Shape
<1>3. ASSUME FastHit(k)
      PROVE  k \in store
  <2>1. PICK g : g = route[k] /\ ~ Bare(groups, g) /\ \E m \in Predictions(groups[g]) : GroupGet(g, m, k)
    BY <1>3 DEF FastHit
  <2>2. PICK m \in Predictions(groups[g]) : GroupGet(g, m, k)
    BY <2>1
  <2>3. g \in DOMAIN groups
    BY <1>2, <2>1, Parts
  <2>4. PICK e : e = FindEntry(groups[g], m, k) + 1
    OBVIOUS
  <2>5. PICK pos : pos = FindPos(groups[g].bents[e], k)
    OBVIOUS
  <2>6. <<g, e, pos>> \in Places(groups) /\ KeysAt(groups, <<g, e, pos>>) = groups[g].bents[e][pos].keys
    BY <1>2, <2>1, <2>3, <2>4, <2>5, SearchEnds
  <2>7. k \in KeysAt(groups, <<g, e, pos>>)
    BY <2>2, <2>4, <2>5, <2>6 DEF GroupGet
  <2>8. QED
    BY <1>2, <2>6, <2>7 DEF Holds
<1>4. OwnsGroup(groups, k, slow)
  BY <1>2, GroupFound
<1> HIDE DEF slow
<1>5. ASSUME NEW m \in Predictions(groups[slow])
      PROVE  GroupGet(slow, m, k) <=> k \in store
  BY <1>2, <1>4, GetAgrees DEF GroupGet
<1>6. QED
  BY <1>3, <1>5 DEF slow

(* Get by find_fast and find_slow finds each key of the store and no       *)
(* other, before, between and after expansions and from every prediction,  *)
(* with holes in the buckets, until a Put meets a hole of a greater key    *)
(* (PutBufKV) or AdjustEntryKey a hole in slot 0 (min_key).                *)
THEOREM GetFindsAlways ==
  ASSUME ~ MayOverflow
  PROVE  Spec => []GetFinds
<1>1. Spec => []IInv
  BY Invariance
<1>2. IInv => GetFinds
  BY IInvGetFinds
<1>3. QED
  BY <1>1, <1>2, PTL

(* Searches from the invariant. *)
LEMMA IInvPredictionIrrelevant ==
  ASSUME IInv
  PROVE  PredictionIrrelevant
<1> SUFFICES ASSUME ~ dirty, NEW i \in DOMAIN groups, NEW k \in Keys,
                    NEW m \in Predictions(groups[i])
             PROVE  FindEntry(groups[i], m, k)
                      = Max({LinearUpper(groups[i], 0, Len(groups[i].bents), k) - 1, 0})
  BY DEF PredictionIrrelevant
<1>1. Sound(groups) /\ groups \in Tree
  BY DEF IInv, Content, Shape
<1>2. groups[i] \in Group
  BY <1>1, Parts
<1>3. ~ Bare(groups, i)
  <2>1. Len(groups[i].bents) \in Nat /\ m \in 0 .. Len(groups[i].bents) - 1
    BY <1>2, GroupParts DEF Predictions
  <2>2. groups[i].bents # <<>>
    BY <2>1
  <2>3. QED
    BY <2>2 DEF Bare
<1>4. Ascends(groups[i]) /\ k \in Int
  BY <1>1, <1>3, GroupAscends DEF Keys
<1>5. QED
  BY <1>4, EntryFound

(* find_entry corrects any prediction: the exponential search ends at the  *)
(* entry where a linear search of the whole group does.  Not claimed once  *)
(* min_key has read a hole in slot 0 or a Put was misled by one, for then  *)
(* the keys of entries may descend.                                        *)
THEOREM PredictionIrrelevantAlways ==
  ASSUME ~ MayOverflow
  PROVE  Spec => []PredictionIrrelevant
<1>1. Spec => []IInv
  BY Invariance
<1>2. IInv => PredictionIrrelevant
  BY IInvPredictionIrrelevant
<1>3. QED
  BY <1>1, <1>2, PTL

(* The pointers of a sound tree are in order, one bucket after the other. *)
LEMMA PointersSeparate ==
  ASSUME NEW gs, Sound(gs)
  PROVE  /\ \A m, n \in DOMAIN Pointers(gs) : m < n =>
              /\ Pointers(gs)[m].key < Pointers(gs)[n].key
              /\ \A k \in Pointers(gs)[m].keys : k < Pointers(gs)[n].key
         /\ \A n \in DOMAIN Pointers(gs) : \A k \in Pointers(gs)[n].keys : k >= Pointers(gs)[n].key
<1> DEFINE visit == Listed(Places(gs), Lexical(Places(gs)))
           ps == Pointers(gs)
<1>1. gs \in Tree
  BY DEF Sound
<1>2. PICK c \in Nat :
        /\ c = Cardinality(Places(gs)) /\ DOMAIN visit = 1 .. c /\ DOMAIN ps = 1 .. c
        /\ \A n \in DOMAIN visit : visit[n] \in Places(gs) /\ ps[n] = PointerAt(gs, visit[n])
        /\ \A m, n \in DOMAIN visit : m < n => Before(visit[m], visit[n])
  BY <1>1, PointersAre
<1> HIDE DEF visit, ps
<1>3. \A n \in 1 .. c : /\ visit[n] \in Places(gs) /\ ps[n].key = Key(gs, visit[n])
                        /\ ps[n].keys = KeysAt(gs, visit[n])
  BY <1>2 DEF Key, KeysAt
<1>4. \A m, n \in 1 .. c : m < n => Before(visit[m], visit[n])
  BY <1>2
<1>5. ASSUME NEW m \in 1 .. c, NEW n \in 1 .. c, m < n
      PROVE  ps[m].key < ps[n].key /\ \A k \in ps[m].keys : k < ps[n].key
  BY <1>3, <1>4, <1>5 DEF Sound, Chain
<1>6. \A n \in 1 .. c : \A k \in ps[n].keys : k >= ps[n].key
  BY <1>3 DEF Sound, Floors
<1>7. QED
  BY <1>2, <1>5, <1>6 DEF ps

(* Order and counts from the invariant. *)
LEMMA IInvGroupsMatchEntries ==
  ASSUME IInv
  PROVE  GroupsMatchEntries
<1>1. groups \in Tree /\ Counted(groups)
  BY DEF IInv, Shape
<1>2. EntriesOrdered
  <2> DEFINE ps == Pointers(groups)
  <2> SUFFICES ASSUME ~ dirty, NEW i \in 1 .. Len(ps) - 1
               PROVE  /\ ps[i].key < ps[i + 1].key
                      /\ \A k \in ps[i].keys : k < ps[i + 1].key
                      /\ \A k \in ps[i + 1].keys : k >= ps[i + 1].key
    BY DEF EntriesOrdered
  <2>1. Sound(groups)
    BY DEF IInv, Content
  <2>2. Len(ps) \in Nat /\ DOMAIN ps = 1 .. Len(ps)
    BY <1>1, PointersLen
  <2>3. i \in DOMAIN ps /\ i + 1 \in DOMAIN ps /\ i < i + 1
    BY <2>2
  <2>4. QED
    BY <2>1, <2>3, PointersSeparate
<1>3. NextCountExact
  <2> SUFFICES ASSUME NEW i \in DOMAIN groups
               PROVE  groups[i].next_entry_count = Len(Pointers(<<groups[i]>>))
    BY DEF NextCountExact
  <2>1. groups[i] \in Group
    BY <1>1, Parts
  <2>2. Len(Pointers(<<groups[i]>>)) = Cardinality(Places(<<groups[i]>>))
    BY <2>1, OneGroup, PointersLen
  <2>3. QED
    BY <1>1, <2>2 DEF Counted
<1>4. QED
  BY <1>2, <1>3 DEF GroupsMatchEntries

(* What the groups say of their entries is true: the pointers' keys ascend *)
(* over the whole tree and bound their buckets, as the asserts in          *)
(* ExpandTree have it, until a hole misleads a Put or hides an entry's     *)
(* key; and next_entry_count is, always, the number of pointers that an    *)
(* expansion will find.                                                    *)
THEOREM GroupsMatchEntriesAlways ==
  ASSUME ~ MayOverflow
  PROVE  Spec => []GroupsMatchEntries
<1>1. Spec => []IInv
  BY Invariance
<1>2. IInv => GroupsMatchEntries
  BY IInvGroupsMatchEntries
<1>3. QED
  BY <1>1, <1>2, PTL

-----------------------------------------------------------------------------
(* Sorted sequences of sets of numbers, for the iterator *)

(* s has the members of S in ascending order. *)
Sorted(s, S) ==
  /\ s \in Seq(S)
  /\ \A m, n \in 1 .. Len(s) : m < n => s[m] < s[n]
  /\ \A x \in S : \E n \in 1 .. Len(s) : s[n] = x

(* What that says by places. *)
LEMMA SortedParts ==
  ASSUME NEW S, NEW s, Sorted(s, S)
  PROVE  /\ Len(s) \in Nat /\ DOMAIN s = 1 .. Len(s) /\ \A n \in 1 .. Len(s) : s[n] \in S
         /\ \A m, n \in 1 .. Len(s) : m < n => s[m] < s[n]
         /\ \A x \in S : \E n \in 1 .. Len(s) : s[n] = x
<1>1. s \in Seq(S)
  BY DEF Sorted
<1>2. Len(s) \in Nat /\ DOMAIN s = 1 .. Len(s) /\ \A n \in 1 .. Len(s) : s[n] \in S
  BY <1>1, LenProperties, ElementOfSeq
<1>3. QED
  BY <1>2 DEF Sorted

(* Ordered sorts. *)
LEMMA OrderedSorted ==
  ASSUME NEW S \in SUBSET Int, IsFiniteSet(S)
  PROVE  Sorted(Ordered(S), S)
<1> DEFINE o == Ordered(S)
<1>1. PICK c \in Nat :
        /\ c = Cardinality(S) /\ DOMAIN o = 1 .. c /\ \A n \in 1 .. c : o[n] \in S
        /\ \A m, n \in 1 .. c : m < n => o[m] < o[n]
        /\ \A x \in S : \E n \in 1 .. c : o[n] = x
  BY OrderedIs
<1>2. o \in [1 .. c -> S]
  <2> DEFINE before == {d \in S \X S : d[1] < d[2]}
  <2>1. o = Listed(S, before)
    BY DEF Ordered
  <2> HIDE DEF o, before
  <2>2. \A n \in 1 .. Cardinality(S) : Listed(S, before)[n] \in S
    BY <1>1, <2>1
  <2>3. Listed(S, before) \in [1 .. Cardinality(S) -> S]
    BY <2>2 DEF Listed
  <2>4. QED
    BY <1>1, <2>1, <2>3
<1> HIDE DEF o
<1>3. o \in Seq(S) /\ Len(o) = c
  BY <1>2, FunctionSeq
<1>4. Sorted(o, S)
  BY <1>1, <1>3 DEF Sorted
<1>5. QED
  BY <1>4 DEF o

(* Two sorted sequences of a set agree at every place. *)
LEMMA SortedAgree ==
  ASSUME NEW S \in SUBSET Int, NEW s, Sorted(s, S), NEW t, Sorted(t, S)
  PROVE  \A n \in 1 .. Len(s) : n \in 1 .. Len(t) /\ s[n] = t[n]
<1> DEFINE Bad == {n \in 1 .. Len(s) : ~ (n \in 1 .. Len(t) /\ s[n] = t[n])}
<1>1. /\ Len(s) \in Nat /\ \A n \in 1 .. Len(s) : s[n] \in S
      /\ \A m, n \in 1 .. Len(s) : m < n => s[m] < s[n]
      /\ \A x \in S : \E n \in 1 .. Len(s) : s[n] = x
  BY SortedParts
<1>2. /\ Len(t) \in Nat /\ \A n \in 1 .. Len(t) : t[n] \in S
      /\ \A m, n \in 1 .. Len(t) : m < n => t[m] < t[n]
      /\ \A x \in S : \E n \in 1 .. Len(t) : t[n] = x
  BY SortedParts
<1>3. SUFFICES ASSUME Bad # {}
               PROVE  FALSE
  OBVIOUS
<1>4. PICK n \in Bad : \A m \in Bad : n <= m
  <2>1. Bad \in SUBSET Nat
    BY <1>1
  <2> HIDE DEF Bad
  <2>2. QED
    BY <1>3, <2>1, Least
<1>5. n \in 1 .. Len(s) /\ n \in Nat /\ s[n] \in Int
  <2>1. n \in 1 .. Len(s)
    OBVIOUS
  <2>2. n \in Nat /\ s[n] \in S
    BY <1>1, <2>1
  <2>3. QED
    BY <2>1, <2>2
<1>6. \A m \in 1 .. Len(s) : m < n => m \in 1 .. Len(t) /\ s[m] = t[m]
  <2>1. \A m \in 1 .. Len(s) : m \in Nat
    BY <1>1
  <2>2. QED
    BY <1>4, <1>5, <2>1
<1>7. PICK m \in 1 .. Len(t) : t[m] = s[n]
  BY <1>1, <1>2, <1>5
<1>8. ~ (m < n)
  <2>1. SUFFICES ASSUME m < n PROVE FALSE
    OBVIOUS
  <2>2. m \in 1 .. Len(s)
    BY <1>1, <1>2, <1>5, <2>1
  <2>3. s[m] = t[m] /\ s[m] < s[n]
    BY <1>1, <1>5, <1>6, <2>1, <2>2
  <2>4. QED
    BY <1>5, <1>7, <2>3
<1>9. n \in 1 .. Len(t) /\ n < m
  <2>1. n \in 1 .. Len(t)
    BY <1>2, <1>5, <1>7, <1>8
  <2>2. n # m
    BY <1>4, <1>7, <2>1
  <2>3. QED
    BY <1>2, <1>5, <1>8, <2>1, <2>2
<1>10. t[n] < s[n] /\ t[n] \in Int
  BY <1>2, <1>7, <1>9
<1>11. PICK q \in 1 .. Len(s) : s[q] = t[n]
  BY <1>1, <1>2, <1>9
<1>12. q < n
  <2>1. q \in Nat
    BY <1>1
  <2>2. q # n /\ ~ (n < q)
    BY <1>1, <1>5, <1>10, <1>11
  <2>3. QED
    BY <1>5, <2>1, <2>2
<1>13. q \in 1 .. Len(t) /\ t[q] = t[n] /\ t[q] < t[n]
  BY <1>2, <1>6, <1>9, <1>11, <1>12
<1>14. QED
  BY <1>10, <1>13

(* So there is one, which Ordered yields. *)
LEMMA SortedIs ==
  ASSUME NEW S \in SUBSET Int, IsFiniteSet(S), NEW s, Sorted(s, S)
  PROVE  s = Ordered(S)
<1> DEFINE o == Ordered(S)
<1>1. Sorted(o, S)
  BY OrderedSorted
<1> HIDE DEF o
<1>2. \A n \in 1 .. Len(s) : n \in 1 .. Len(o) /\ s[n] = o[n]
  BY <1>1, SortedAgree
<1>3. \A n \in 1 .. Len(o) : n \in 1 .. Len(s) /\ o[n] = s[n]
  BY <1>1, SortedAgree
<1>4. Len(s) \in Nat /\ Len(o) \in Nat /\ DOMAIN s = 1 .. Len(s) /\ DOMAIN o = 1 .. Len(o)
  BY <1>1, SortedParts
<1>5. s \in Seq(S) /\ o \in Seq(S)
  BY <1>1 DEF Sorted
<1>6. Len(s) = Len(o)
  <2>1. Len(s) <= Len(o)
    <3>1. CASE Len(s) = 0
      BY <1>4, <3>1
    <3>2. CASE Len(s) # 0
      <4>1. Len(s) \in 1 .. Len(s)
        BY <1>4, <3>2
      <4>2. QED
        BY <1>2, <1>4, <4>1
    <3>3. QED
      BY <3>1, <3>2
  <2>2. Len(o) <= Len(s)
    <3>1. CASE Len(o) = 0
      BY <1>4, <3>1
    <3>2. CASE Len(o) # 0
      <4>1. Len(o) \in 1 .. Len(o)
        BY <1>4, <3>2
      <4>2. QED
        BY <1>3, <1>4, <4>1
    <3>3. QED
      BY <3>1, <3>2
  <2>3. Len(s) \in Nat /\ Len(o) \in Nat
    BY <1>4
  <2>4. QED
    BY <2>1, <2>2, <2>3
<1>7. s = o
  BY <1>2, <1>5, <1>6, SeqEqual
<1>8. QED
  BY <1>7 DEF o

(* Sorted sequences one behind the other. *)
LEMMA SortedConcat ==
  ASSUME NEW S \in SUBSET Int, NEW T \in SUBSET Int, NEW s, Sorted(s, S), NEW t, Sorted(t, T),
         \A x \in S : \A y \in T : x < y
  PROVE  Sorted(s \o t, S \union T)
<1> DEFINE U == S \union T
           u == s \o t
<1>1. /\ Len(s) \in Nat /\ \A n \in 1 .. Len(s) : s[n] \in S
      /\ \A m, n \in 1 .. Len(s) : m < n => s[m] < s[n]
      /\ \A x \in S : \E n \in 1 .. Len(s) : s[n] = x
  BY SortedParts
<1>2. /\ Len(t) \in Nat /\ \A n \in 1 .. Len(t) : t[n] \in T
      /\ \A m, n \in 1 .. Len(t) : m < n => t[m] < t[n]
      /\ \A x \in T : \E n \in 1 .. Len(t) : t[n] = x
  BY SortedParts
<1>3. s \in Seq(U) /\ t \in Seq(U)
  <2>1. s \in Seq(S) /\ t \in Seq(T)
    BY DEF Sorted
  <2>2. QED
    BY <2>1
<1>4. /\ u \in Seq(U) /\ Len(u) = Len(s) + Len(t)
      /\ \A i \in 1 .. Len(s) + Len(t) : u[i] = IF i <= Len(s) THEN s[i] ELSE t[i - Len(s)]
  BY <1>3, ConcatProperties
<1> HIDE DEF u
<1>5. ASSUME NEW m \in 1 .. Len(u), NEW n \in 1 .. Len(u), m < n
      PROVE  u[m] < u[n]
  <2>1. /\ m \in Nat /\ n \in Nat /\ m >= 1 /\ n >= 1
        /\ m <= Len(s) + Len(t) /\ n <= Len(s) + Len(t)
    BY <1>1, <1>2, <1>4
  <2>2. CASE n <= Len(s)
    BY <1>1, <1>4, <1>5, <2>1, <2>2
  <2>3. CASE m <= Len(s) /\ ~ (n <= Len(s))
    <3>1. m \in 1 .. Len(s) /\ n - Len(s) \in 1 .. Len(t)
      BY <1>1, <1>2, <2>1, <2>3
    <3>2. u[m] = s[m] /\ u[n] = t[n - Len(s)]
      BY <1>4, <2>3
    <3>3. QED
      BY <1>1, <1>2, <3>1, <3>2
  <2>4. CASE ~ (m <= Len(s)) /\ ~ (n <= Len(s))
    <3>1. m - Len(s) \in 1 .. Len(t) /\ n - Len(s) \in 1 .. Len(t) /\ m - Len(s) < n - Len(s)
      BY <1>1, <1>2, <1>5, <2>1, <2>4
    <3>2. u[m] = t[m - Len(s)] /\ u[n] = t[n - Len(s)]
      BY <1>4, <2>4
    <3>3. QED
      BY <1>2, <3>1, <3>2
  <2>5. QED
    BY <1>1, <1>5, <2>1, <2>2, <2>3, <2>4
<1>6. ASSUME NEW x \in U
      PROVE  \E n \in 1 .. Len(u) : u[n] = x
  <2>1. CASE x \in S
    <3>1. PICK n \in 1 .. Len(s) : s[n] = x
      BY <1>1, <2>1
    <3>2. n \in 1 .. Len(u) /\ n <= Len(s)
      BY <1>1, <1>2, <1>4
    <3>3. QED
      BY <1>4, <3>1, <3>2
  <2>2. CASE x \in T
    <3>1. PICK n \in 1 .. Len(t) : t[n] = x
      BY <1>2, <2>2
    <3>2. n + Len(s) \in 1 .. Len(u) /\ ~ (n + Len(s) <= Len(s)) /\ (n + Len(s)) - Len(s) = n
      BY <1>1, <1>2, <1>4
    <3>3. u[n + Len(s)] = x
      BY <1>4, <3>1, <3>2
    <3>4. QED
      BY <3>2, <3>3
  <2>3. QED
    BY <2>1, <2>2
<1>7. QED
  BY <1>4, <1>5, <1>6 DEF Sorted, u

-----------------------------------------------------------------------------
(* The keys of pointers, in order *)

(* The order of pairs: place first, then key. *)
LexicalBefore(P, Q) == P[1] < Q[1] \/ (P[1] = Q[1] /\ P[2] < Q[2])

(* It is the lexical one. *)
LEMMA LexicalPairs ==
  ASSUME NEW S \in SUBSET (Int \X Int), NEW P \in S, NEW Q \in S
  PROVE  <<P, Q>> \in Lexical(S) <=> LexicalBefore(P, Q)
<1>1. PICK a \in Int, b \in Int : P = <<a, b>>
  OBVIOUS
<1>2. <<P, Q>> \in Lexical(S) <=>
        \E n \in 1 .. 2 : P[n] < Q[n] /\ \A m \in 1 .. n - 1 : P[m] = Q[m]
  <2>1. DOMAIN P = 1 .. 2
    BY <1>1
  <2>2. QED
    BY <2>1 DEF Lexical
<1>3. (\E n \in 1 .. 2 : P[n] < Q[n] /\ \A m \in 1 .. n - 1 : P[m] = Q[m])
      <=> (P[1] < Q[1] \/ (P[2] < Q[2] /\ P[1] = Q[1]))
  <2>1. 1 .. 2 = {1, 2} /\ 1 .. 1 - 1 = {} /\ 1 .. 2 - 1 = {1}
    OBVIOUS
  <2>2. QED
    BY <2>1
<1>4. QED
  BY <1>2, <1>3 DEF LexicalBefore

(* It is total. *)
LEMMA PairsOrders ==
  ASSUME NEW S \in SUBSET (Int \X Int)
  PROVE  Orders(Lexical(S), S)
<1>1. \A P \in S : \E a, b \in Int : P = <<a, b>> /\ P[1] = a /\ P[2] = b
  OBVIOUS
<1>2. \A P \in S : ~ LexicalBefore(P, P)
  BY <1>1 DEF LexicalBefore
<1>3. ASSUME NEW P \in S, NEW Q \in S, NEW R \in S, LexicalBefore(P, Q), LexicalBefore(Q, R)
      PROVE  LexicalBefore(P, R)
  <2>1. P[1] \in Int /\ P[2] \in Int /\ Q[1] \in Int /\ Q[2] \in Int /\ R[1] \in Int /\ R[2] \in Int
    BY <1>1
  <2>2. QED
    BY <1>3, <2>1 DEF LexicalBefore
<1>4. ASSUME NEW P \in S, NEW Q \in S
      PROVE  P = Q \/ LexicalBefore(P, Q) \/ LexicalBefore(Q, P)
  <2>1. PICK a \in Int, b \in Int : P = <<a, b>> /\ P[1] = a /\ P[2] = b
    BY <1>1
  <2>2. PICK c \in Int, d \in Int : Q = <<c, d>> /\ Q[1] = c /\ Q[2] = d
    BY <1>1
  <2>3. QED
    BY <2>1, <2>2 DEF LexicalBefore
<1>5. \A P, Q \in S : <<P, Q>> \in Lexical(S) <=> LexicalBefore(P, Q)
  BY LexicalPairs
<1>6. QED
  BY <1>2, <1>3, <1>4, <1>5 DEF Orders

(* The keys of a sequence of n pointers. *)
AllKeys(ps, n) == {x \in Keys : \E m \in 1 .. n : x \in ps[m].keys}

(* An iterator over buckets that lie one above the other yields their keys *)
(* sorted.                                                                 *)
LEMMA KeysOfIs ==
  ASSUME NEW n \in Nat, NEW ps, DOMAIN ps = 1 .. n, \A m \in 1 .. n : ps[m].keys \in SUBSET Keys,
         \A m, q \in 1 .. n : m < q => \A x \in ps[m].keys : \A y \in ps[q].keys : x < y
  PROVE  Sorted(KeysOf(ps), AllKeys(ps, n))
<1> DEFINE pairs == UNION {{<<i, k>> : k \in ps[i].keys} : i \in DOMAIN ps}
           visit == Listed(pairs, Lexical(pairs))
           s == KeysOf(ps)
           S == AllKeys(ps, n)
<1>1. s = [i \in DOMAIN visit |-> visit[i][2]]
  BY DEF KeysOf
<1>2. \A P : P \in pairs <=> \E i \in 1 .. n : \E k \in ps[i].keys : P = <<i, k>>
  OBVIOUS
<1>3. IsFiniteSet(pairs)
  <2> DEFINE F == [i \in DOMAIN ps |-> {<<i, k>> : k \in ps[i].keys}]
  <2>1. ASSUME NEW i \in DOMAIN ps PROVE IsFiniteSet(F[i])
    <3> DEFINE f == [k \in ps[i].keys |-> <<i, k>>]
    <3>1. IsFiniteSet(ps[i].keys) /\ DOMAIN f = ps[i].keys
      BY KeysFinite
    <3>2. {f[k] : k \in ps[i].keys} = F[i]
      OBVIOUS
    <3> HIDE DEF f, F
    <3>3. IsFiniteSet({f[k] : k \in ps[i].keys})
      BY <3>1, FiniteImage
    <3>4. QED
      BY <3>2, <3>3
  <2>2. UNION {F[i] : i \in DOMAIN ps} = pairs /\ DOMAIN F = DOMAIN ps
    OBVIOUS
  <2>3. IsFiniteSet(DOMAIN ps)
    BY FS_Interval
  <2> HIDE DEF F, pairs
  <2>4. IsFiniteSet(UNION {F[i] : i \in DOMAIN ps})
    BY <2>1, <2>2, <2>3, FiniteFamily
  <2>5. QED
    BY <2>2, <2>4
<1> HIDE DEF pairs
<1>4. pairs \in SUBSET (Int \X Int)
  <2>1. \A k \in Keys : k \in Int
    BY DEF Keys
  <2>2. \A i \in 1 .. n : i \in Int
    OBVIOUS
  <2>3. QED
    BY <1>2, <2>1, <2>2
<1>5. Cardinality(pairs) \in Nat /\ Lists(visit, pairs, Lexical(pairs))
  BY <1>3, <1>4, PairsOrders, Listing
<1> HIDE DEF visit, s
<1>6. PICK c \in Nat :
        /\ DOMAIN visit = 1 .. c /\ \A j \in 1 .. c : visit[j] \in pairs
        /\ \A j, l \in 1 .. c : j < l => <<visit[j], visit[l]>> \in Lexical(pairs)
        /\ \A P \in pairs : \E j \in 1 .. c : visit[j] = P
  BY <1>5 DEF Lists
<1>7. \A j \in 1 .. c : \E i \in 1 .. n : \E k \in ps[i].keys : visit[j] = <<i, k>> /\ s[j] = k
  <2> SUFFICES ASSUME NEW j \in 1 .. c
               PROVE  \E i \in 1 .. n : \E k \in ps[i].keys : visit[j] = <<i, k>> /\ s[j] = k
    OBVIOUS
  <2>1. s[j] = visit[j][2]
    BY <1>1, <1>6
  <2>2. PICK i \in 1 .. n : \E k \in ps[i].keys : visit[j] = <<i, k>>
    BY <1>2, <1>6
  <2>3. PICK k \in ps[i].keys : visit[j] = <<i, k>>
    BY <2>2
  <2>4. s[j] = k
    BY <2>1, <2>3
  <2>5. QED
    BY <2>3, <2>4
<1>8. \A j \in 1 .. c : s[j] \in S
  BY <1>7 DEF AllKeys
<1>9. s \in [1 .. c -> S]
  <2> HIDE DEF S
  <2>1. QED
    BY <1>1, <1>6, <1>8
<1>10. s \in Seq(S) /\ Len(s) = c
  BY <1>9, FunctionSeq
<1>11. ASSUME NEW j \in 1 .. c, NEW l \in 1 .. c, j < l
       PROVE  s[j] < s[l]
  <2>1. PICK i \in 1 .. n : \E k \in ps[i].keys : visit[j] = <<i, k>> /\ s[j] = k
    BY <1>7
  <2>2. PICK k \in ps[i].keys : visit[j] = <<i, k>> /\ s[j] = k
    BY <2>1
  <2>3. PICK h \in 1 .. n : \E x \in ps[h].keys : visit[l] = <<h, x>> /\ s[l] = x
    BY <1>7
  <2>4. PICK x \in ps[h].keys : visit[l] = <<h, x>> /\ s[l] = x
    BY <2>3
  <2>5. <<visit[j], visit[l]>> \in Lexical(pairs) /\ visit[j] \in pairs /\ visit[l] \in pairs
    BY <1>6, <1>11
  <2>6. LexicalBefore(visit[j], visit[l])
    BY <1>4, <2>5, LexicalPairs
  <2>7. i < h \/ (i = h /\ k < x)
    BY <2>2, <2>4, <2>6 DEF LexicalBefore
  <2>8. CASE i < h
    BY <2>2, <2>4, <2>8
  <2>9. CASE i = h /\ k < x
    BY <2>2, <2>4, <2>9
  <2>10. QED
    BY <2>7, <2>8, <2>9
<1>12. ASSUME NEW x \in S
       PROVE  \E j \in 1 .. c : s[j] = x
  <2>1. PICK i \in 1 .. n : x \in ps[i].keys
    BY DEF AllKeys
  <2>2. PICK j \in 1 .. c : visit[j] = <<i, x>>
    BY <1>2, <1>6, <2>1
  <2>3. s[j] = visit[j][2]
    BY <1>1, <1>6
  <2>4. QED
    BY <2>2, <2>3
<1>13. Sorted(s, S)
  <2> HIDE DEF S
  <2>1. QED
    BY <1>10, <1>11, <1>12 DEF Sorted
<1>14. QED
  BY <1>13 DEF s

(* The keys that a tree holds. *)
TreeKeys(gs) == {x \in Keys : \E P \in Places(gs) : x \in KeysAt(gs, P)}

(* So it does over the pointers of a sound tree. *)
LEMMA TreeKeysSorted ==
  ASSUME NEW gs, Sound(gs)
  PROVE  Sorted(KeysOf(Pointers(gs)), TreeKeys(gs))
<1> DEFINE ps == Pointers(gs)
           visit == Listed(Places(gs), Lexical(Places(gs)))
<1>1. gs \in Tree
  BY DEF Sound
<1>2. PICK c \in Nat :
        /\ DOMAIN visit = 1 .. c /\ DOMAIN ps = 1 .. c
        /\ \A n \in 1 .. c : visit[n] \in Places(gs) /\ ps[n] = PointerAt(gs, visit[n])
        /\ \A P \in Places(gs) : \E n \in 1 .. c : visit[n] = P
  BY <1>1, PointersAre
<1> HIDE DEF visit
<1>3. /\ \A m, n \in 1 .. c : m < n => \A k \in ps[m].keys : k < ps[n].key
      /\ \A n \in 1 .. c : \A k \in ps[n].keys : k >= ps[n].key
  BY <1>2, PointersSeparate
<1> HIDE DEF ps
<1>4. \A n \in 1 .. c : ps[n].keys = KeysAt(gs, visit[n]) /\ ps[n].key = Key(gs, visit[n])
  BY <1>2 DEF KeysAt, Key
<1>5. \A n \in 1 .. c : ps[n].keys \in SUBSET Keys /\ ps[n].key \in Nat
  BY <1>1, <1>2, <1>4, PlacesNumbers
<1>6. \A m, n \in 1 .. c : m < n => \A x \in ps[m].keys : \A y \in ps[n].keys : x < y
  <2>1. \A k \in Keys : k \in Nat
    BY DEF Keys
  <2> SUFFICES ASSUME NEW m \in 1 .. c, NEW n \in 1 .. c, m < n,
                      NEW x \in ps[m].keys, NEW y \in ps[n].keys
               PROVE  x < y
    OBVIOUS
  <2>2. x < ps[n].key /\ y >= ps[n].key
    BY <1>3
  <2>3. x \in Nat /\ y \in Nat /\ ps[n].key \in Nat
    BY <1>5, <2>1
  <2>4. QED
    BY <2>2, <2>3
<1>7. Sorted(KeysOf(ps), AllKeys(ps, c))
  BY <1>2, <1>5, <1>6, KeysOfIs
<1>8. AllKeys(ps, c) = TreeKeys(gs)
  BY <1>2, <1>4 DEF AllKeys, TreeKeys
<1>9. QED
  BY <1>7, <1>8 DEF ps

-----------------------------------------------------------------------------
(* The iterator from a key *)

(* The keys behind a place: in later groups, in later entries of its group and *)
(* in later pointers of its entry.                                             *)
GroupsBehind(gs, g) == {x \in Keys : \E P \in Places(gs) : P[1] > g /\ x \in KeysAt(gs, P)}
EntriesBehind(gs, g, e) ==
  {x \in Keys : \E P \in Places(gs) : P[1] = g /\ P[2] > e /\ x \in KeysAt(gs, P)}
PointersBehind(gs, g, e, pos) ==
  {x \in Keys : \E P \in Places(gs) : P[1] = g /\ P[2] = e /\ P[3] > pos /\ x \in KeysAt(gs, P)}

(* A part of a sound tree, its places counted anew. *)
LEMMA PartOfTree ==
  ASSUME NEW gs, Sound(gs), NEW hs \in Tree, NEW h,
         \A P \in Places(hs) : h[P] \in Places(gs) /\ PointerAt(hs, P) = PointerAt(gs, h[P]),
         \A P, Q \in Places(hs) : Before(P, Q) => Before(h[P], h[Q])
  PROVE  Sound(hs)
<1>1. \A P \in Places(hs) : Key(hs, P) = Key(gs, h[P]) /\ KeysAt(hs, P) = KeysAt(gs, h[P])
  BY DEF Key, KeysAt
<1>2. \A P \in Places(hs) : \A x \in KeysAt(hs, P) : x >= Key(hs, P)
  BY <1>1 DEF Sound, Floors
<1>3. \A P, Q \in Places(hs) : Before(P, Q) =>
        Key(hs, P) < Key(hs, Q) /\ \A x \in KeysAt(hs, P) : x < Key(hs, Q)
  BY <1>1 DEF Sound, Chain
<1>4. QED
  BY <1>2, <1>3 DEF Sound, Chain, Floors

(* The later groups are a sound tree of their own. *)
LEMMA RestOfGroups ==
  ASSUME NEW gs, Sound(gs), NEW g \in DOMAIN gs
  PROVE  LET hs == SubSeq(gs, g + 1, Len(gs))
         IN  Sound(hs) /\ TreeKeys(hs) = GroupsBehind(gs, g)
<1> DEFINE hs == SubSeq(gs, g + 1, Len(gs))
           h == [P \in Places(hs) |-> <<P[1] + g, P[2], P[3]>>]
<1>1. gs \in Tree
  BY DEF Sound
<1>2. PICK n \in Nat : /\ n = Len(gs) /\ DOMAIN gs = 1 .. n /\ g \in 1 .. n
                       /\ \A i \in 1 .. n : gs[i] \in Group
  BY <1>1, Parts
<1>3. \A i \in g + 1 .. n : gs[i] \in Group
  BY <1>2
<1>4. g + 1 \in Int /\ n \in Int
  BY <1>2
<1>5. /\ hs \in Seq(Group) /\ Len(hs) = IF g + 1 <= n THEN n - (g + 1) + 1 ELSE 0
      /\ \A i \in 1 .. n - (g + 1) + 1 : hs[i] = gs[(g + 1) + i - 1]
  BY <1>2, <1>3, <1>4, SubSeqProperties
<1> HIDE DEF hs
<1>6. PICK l \in Nat : l = n - g
  BY <1>2
<1>7. Len(hs) = l /\ \A i \in 1 .. l : hs[i] = gs[g + i]
  <2>1. n - (g + 1) + 1 = l /\ (g + 1 <= n \/ l = 0)
    BY <1>2, <1>6
  <2>2. Len(hs) = l
    BY <1>2, <1>5, <1>6, <2>1
  <2>3. \A i \in 1 .. l : (g + 1) + i - 1 = g + i
    BY <1>2
  <2>4. QED
    BY <1>5, <2>1, <2>2, <2>3
<1>8. hs \in Tree /\ DOMAIN hs = 1 .. l
  BY <1>5, <1>7, LenProperties DEF Tree
<1>9. ASSUME NEW i \in 1 .. l, NEW j, NEW p
      PROVE  <<i, j, p>> \in Places(hs) <=> <<i + g, j, p>> \in Places(gs)
  <2>1. i + g \in 1 .. n /\ hs[i] = gs[i + g]
    BY <1>2, <1>6, <1>7
  <2>2. <<i, j, p>> \in Places(hs) <=> j \in DOMAIN hs[i].bents /\ p \in DOMAIN hs[i].bents[j]
    BY <1>8, PlacesAre
  <2>3. <<i + g, j, p>> \in Places(gs) <=> j \in DOMAIN gs[i + g].bents /\ p \in DOMAIN gs[i + g].bents[j]
    BY <1>2, <2>1, PlacesAre
  <2>4. QED
    BY <2>1, <2>2, <2>3
<1>10. ASSUME NEW P \in Places(hs)
       PROVE  /\ h[P] = <<P[1] + g, P[2], P[3]>> /\ P[1] \in 1 .. l
              /\ h[P] \in Places(gs) /\ PointerAt(hs, P) = PointerAt(gs, h[P])
  <2>1. P = <<P[1], P[2], P[3]>> /\ P[1] \in 1 .. l
    BY <1>8, PlacesAre
  <2>2. h[P] = <<P[1] + g, P[2], P[3]>>
    OBVIOUS
  <2> HIDE DEF h
  <2>3. h[P] \in Places(gs)
    BY <1>9, <2>1, <2>2
  <2>4. hs[P[1]] = gs[P[1] + g]
    BY <1>2, <1>7, <2>1
  <2>5. PointerAt(gs, h[P]) = gs[P[1] + g].bents[P[2]][P[3]]
    BY <2>2 DEF PointerAt
  <2>6. QED
    BY <2>1, <2>2, <2>3, <2>4, <2>5 DEF PointerAt
<1> HIDE DEF h
<1>11. ASSUME NEW P \in Places(hs), NEW Q \in Places(hs), Before(P, Q)
       PROVE  Before(h[P], h[Q])
  <2>1. P[1] \in Int /\ Q[1] \in Int /\ g \in Int
    BY <1>2, <1>10
  <2>2. /\ h[P][1] = P[1] + g /\ h[P][2] = P[2] /\ h[P][3] = P[3]
        /\ h[Q][1] = Q[1] + g /\ h[Q][2] = Q[2] /\ h[Q][3] = Q[3]
    BY <1>10
  <2>3. QED
    BY <1>11, <2>1, <2>2 DEF Before
<1>12. Sound(hs)
  BY <1>8, <1>10, <1>11, PartOfTree
<1>13. TreeKeys(hs) = GroupsBehind(gs, g)
  <2>1. ASSUME NEW x \in Keys, NEW P \in Places(hs), x \in KeysAt(hs, P)
        PROVE  \E Q \in Places(gs) : Q[1] > g /\ x \in KeysAt(gs, Q)
    <3>1. h[P] \in Places(gs) /\ h[P][1] = P[1] + g /\ P[1] \in 1 .. l /\ x \in KeysAt(gs, h[P])
      BY <1>10, <2>1 DEF KeysAt
    <3>2. P[1] + g > g
      BY <1>2, <3>1
    <3>3. QED
      BY <3>1, <3>2
  <2>2. ASSUME NEW x \in Keys, NEW Q \in Places(gs), Q[1] > g, x \in KeysAt(gs, Q)
        PROVE  \E P \in Places(hs) : x \in KeysAt(hs, P)
    <3>1. Q = <<Q[1], Q[2], Q[3]>> /\ Q[1] \in 1 .. n
      BY <1>1, <1>2, PlacesAre
    <3>2. PICK i \in 1 .. l : i + g = Q[1]
      <4>1. Q[1] - g \in 1 .. l /\ (Q[1] - g) + g = Q[1]
        BY <1>2, <1>6, <2>2, <3>1
      <4>2. QED
        BY <4>1
    <3> DEFINE P == <<i, Q[2], Q[3]>>
    <3>3. P \in Places(hs)
      BY <1>9, <3>1, <3>2
    <3>4. h[P] = <<i + g, Q[2], Q[3]>>
      BY <1>10, <3>3
    <3>5. h[P] = Q
      BY <3>1, <3>2, <3>4
    <3>6. KeysAt(hs, P) = KeysAt(gs, Q)
      BY <1>10, <3>3, <3>5 DEF KeysAt
    <3> HIDE DEF P
    <3>7. QED
      BY <2>2, <3>3, <3>6
  <2>3. QED
    BY <2>1, <2>2 DEF TreeKeys, GroupsBehind
<1>14. QED
  BY <1>12, <1>13 DEF hs

(* So are the later entries of a group. *)
LEMMA RestOfEntries ==
  ASSUME NEW gs, Sound(gs), NEW g \in DOMAIN gs, NEW e \in DOMAIN gs[g].bents
  PROVE  LET hs == <<[gs[g] EXCEPT !.bents = SubSeq(@, e + 1, Len(@))]>>
         IN  Sound(hs) /\ TreeKeys(hs) = EntriesBehind(gs, g, e)
<1> DEFINE b == gs[g].bents
           nbs == SubSeq(b, e + 1, Len(b))
           ng == [gs[g] EXCEPT !.bents = nbs]
           hs == <<ng>>
           h == [P \in Places(hs) |-> <<g, P[2] + e, P[3]>>]
<1>1. gs \in Tree /\ gs[g] \in Group
  BY Parts DEF Sound
<1>2. PICK n \in Nat : /\ n = Len(b) /\ DOMAIN b = 1 .. n /\ e \in 1 .. n
                       /\ \A j \in 1 .. n : b[j] \in Bents
  BY <1>1, GroupParts
<1> HIDE DEF b
<1>3. (\A j \in e + 1 .. n : b[j] \in Bents) /\ e + 1 \in Int /\ n \in Int
  BY <1>2
<1>4. /\ nbs \in Seq(Bents) /\ Len(nbs) = IF e + 1 <= n THEN n - (e + 1) + 1 ELSE 0
      /\ \A j \in 1 .. n - (e + 1) + 1 : nbs[j] = b[(e + 1) + j - 1]
  BY <1>2, <1>3, SubSeqProperties
<1> HIDE DEF nbs
<1>5. PICK l \in Nat : l = n - e
  <2>1. e \in 1 .. n
    BY <1>2
  <2>2. n - e \in Nat
    BY <2>1
  <2>3. QED
    BY <2>2
<1>6. Len(nbs) = l /\ \A j \in 1 .. l : nbs[j] = b[e + j]
  <2>1. n - (e + 1) + 1 = l /\ (e + 1 <= n \/ l = 0)
    BY <1>2, <1>5
  <2>2. Len(nbs) = l
    BY <1>2, <1>4, <1>5, <2>1
  <2>3. \A j \in 1 .. l : (e + 1) + j - 1 = e + j
    BY <1>2
  <2>4. QED
    BY <1>4, <2>1, <2>2, <2>3
<1>7. ng \in Group /\ ng.bents = nbs
  <2>1. ng = [bents |-> nbs, next_entry_count |-> gs[g].next_entry_count, min_key |-> gs[g].min_key]
    BY <1>1, GroupUpdates
  <2>2. gs[g].next_entry_count \in Nat /\ gs[g].min_key \in 0 .. MaxKey
    BY <1>1, GroupParts
  <2> HIDE DEF ng
  <2>3. QED
    BY <1>4, <2>1, <2>2 DEF Group
<1> HIDE DEF ng
<1>8. hs \in Tree /\ DOMAIN hs = {1} /\ hs[1] = ng /\ DOMAIN nbs = 1 .. l
  <2>1. DOMAIN nbs = 1 .. l
    BY <1>4, <1>6, LenProperties
  <2>2. QED
    BY <1>7, <2>1, OneGroup
<1> HIDE DEF hs
<1>9. ASSUME NEW j \in 1 .. l, NEW p
      PROVE  <<1, j, p>> \in Places(hs) <=> <<g, j + e, p>> \in Places(gs)
  <2>1. j + e \in 1 .. n /\ nbs[j] = b[j + e]
    BY <1>2, <1>5, <1>6
  <2>2. <<1, j, p>> \in Places(hs) <=> p \in DOMAIN nbs[j]
    BY <1>7, <1>8, PlacesAre
  <2>3. <<g, j + e, p>> \in Places(gs) <=> p \in DOMAIN b[j + e]
    <3>1. j + e \in DOMAIN gs[g].bents
      BY <1>2, <2>1 DEF b
    <3>2. QED
      BY <3>1, PlacesAre DEF b
  <2>4. QED
    BY <2>1, <2>2, <2>3
<1>10. ASSUME NEW P \in Places(hs)
       PROVE  /\ h[P] = <<g, P[2] + e, P[3]>> /\ P[1] = 1 /\ P[2] \in 1 .. l /\ P[3] \in Int
              /\ h[P] \in Places(gs) /\ PointerAt(hs, P) = PointerAt(gs, h[P])
  <2>1. P = <<P[1], P[2], P[3]>> /\ P[1] = 1 /\ P[2] \in 1 .. l
    BY <1>7, <1>8, PlacesAre
  <2>2. h[P] = <<g, P[2] + e, P[3]>>
    OBVIOUS
  <2> HIDE DEF h
  <2>3. h[P] \in Places(gs)
    BY <1>9, <2>1, <2>2
  <2>4. hs[P[1]].bents[P[2]] = b[P[2] + e]
    BY <1>2, <1>6, <1>7, <1>8, <2>1
  <2>5. PointerAt(gs, h[P]) = b[P[2] + e][P[3]]
    BY <2>2 DEF PointerAt, b
  <2>6. P[3] \in Int
    BY <1>8, PlacesNumbers
  <2>7. QED
    BY <2>1, <2>2, <2>3, <2>4, <2>5, <2>6 DEF PointerAt
<1> HIDE DEF h
<1>11. ASSUME NEW P \in Places(hs), NEW Q \in Places(hs), Before(P, Q)
       PROVE  Before(h[P], h[Q])
  <2>1. /\ P[1] = 1 /\ Q[1] = 1 /\ P[2] \in Int /\ Q[2] \in Int /\ P[3] \in Int /\ Q[3] \in Int
        /\ e \in Int
    BY <1>2, <1>10
  <2>2. /\ h[P][1] = g /\ h[P][2] = P[2] + e /\ h[P][3] = P[3]
        /\ h[Q][1] = g /\ h[Q][2] = Q[2] + e /\ h[Q][3] = Q[3]
    BY <1>10
  <2>3. QED
    BY <1>11, <2>1, <2>2 DEF Before
<1>12. Sound(hs)
  BY <1>8, <1>10, <1>11, PartOfTree
<1>13. TreeKeys(hs) = EntriesBehind(gs, g, e)
  <2>1. ASSUME NEW x \in Keys, NEW P \in Places(hs), x \in KeysAt(hs, P)
        PROVE  \E Q \in Places(gs) : Q[1] = g /\ Q[2] > e /\ x \in KeysAt(gs, Q)
    <3>1. /\ h[P] \in Places(gs) /\ h[P][1] = g /\ h[P][2] = P[2] + e /\ P[2] \in 1 .. l
          /\ x \in KeysAt(gs, h[P])
      BY <1>10, <2>1 DEF KeysAt
    <3>2. P[2] + e > e
      BY <1>2, <3>1
    <3>3. QED
      BY <3>1, <3>2
  <2>2. ASSUME NEW x \in Keys, NEW Q \in Places(gs), Q[1] = g, Q[2] > e, x \in KeysAt(gs, Q)
        PROVE  \E P \in Places(hs) : x \in KeysAt(hs, P)
    <3>1. Q = <<g, Q[2], Q[3]>> /\ Q[2] \in 1 .. n
      BY <1>2, <2>2, PlacesAre DEF b
    <3>2. PICK j \in 1 .. l : j + e = Q[2]
      <4>1. Q[2] - e \in 1 .. l /\ (Q[2] - e) + e = Q[2]
        BY <1>2, <1>5, <2>2, <3>1
      <4>2. QED
        BY <4>1
    <3> DEFINE P == <<1, j, Q[3]>>
    <3>3. P \in Places(hs)
      BY <1>9, <3>1, <3>2
    <3>4. h[P] = <<g, j + e, Q[3]>>
      BY <1>10, <3>3
    <3>5. h[P] = Q
      BY <3>1, <3>2, <3>4
    <3>6. KeysAt(hs, P) = KeysAt(gs, Q)
      BY <1>10, <3>3, <3>5 DEF KeysAt
    <3> HIDE DEF P
    <3>7. QED
      BY <2>2, <3>3, <3>6
  <2>3. QED
    BY <2>1, <2>2 DEF TreeKeys, EntriesBehind
<1>14. QED
  BY <1>12, <1>13 DEF hs, ng, nbs, b

(* The later pointers of an entry yield their keys sorted. *)
LEMMA RestOfPointers ==
  ASSUME NEW gs, Sound(gs), NEW g \in DOMAIN gs, NEW e \in DOMAIN gs[g].bents,
         NEW pos \in DOMAIN gs[g].bents[e]
  PROVE  Sorted(KeysOf(SubSeq(gs[g].bents[e], pos + 1, Len(gs[g].bents[e]))),
                PointersBehind(gs, g, e, pos))
<1> DEFINE b == gs[g].bents[e]
           ps == SubSeq(b, pos + 1, Len(b))
<1>1. gs \in Tree /\ gs[g] \in Group /\ b \in Bents
  BY Parts, GroupParts DEF Sound
<1>2. PICK n \in Nat : n = Len(b) /\ DOMAIN b = 1 .. n /\ pos \in 1 .. n
  BY <1>1, BentParts
<1>3. \A p \in 1 .. n : b[p].keys \in SUBSET Keys /\ b[p].key \in Nat
  BY <1>1, <1>2, BentParts
<1>4. \A p \in 1 .. n : /\ <<g, e, p>> \in Places(gs) /\ Key(gs, <<g, e, p>>) = b[p].key
                        /\ KeysAt(gs, <<g, e, p>>) = b[p].keys
  BY <1>2, PlacesAre DEF Key, KeysAt
<1> HIDE DEF b
<1>5. /\ Len(ps) = (IF pos + 1 <= n THEN n - (pos + 1) + 1 ELSE 0) /\ DOMAIN ps = 1 .. Len(ps)
      /\ \A p \in 1 .. n - (pos + 1) + 1 : ps[p] = b[(pos + 1) + p - 1]
  <2> DEFINE T == {b[p] : p \in 1 .. n}
  <2>1. (\A p \in pos + 1 .. n : b[p] \in T) /\ pos + 1 \in Int /\ n \in Int
    BY <1>2
  <2> HIDE DEF T
  <2>2. /\ ps \in Seq(T) /\ Len(ps) = (IF pos + 1 <= n THEN n - (pos + 1) + 1 ELSE 0)
        /\ \A p \in 1 .. n - (pos + 1) + 1 : ps[p] = b[(pos + 1) + p - 1]
    BY <1>2, <2>1, SubSeqProperties
  <2>3. DOMAIN ps = 1 .. Len(ps)
    BY <2>2, LenProperties
  <2>4. QED
    BY <2>2, <2>3
<1> HIDE DEF ps
<1>6. PICK l \in Nat : l = n - pos
  BY <1>2
<1>7. DOMAIN ps = 1 .. l /\ \A p \in 1 .. l : ps[p] = b[pos + p] /\ pos + p \in 1 .. n
  <2>1. n - (pos + 1) + 1 = l /\ (pos + 1 <= n \/ l = 0)
    BY <1>2, <1>6
  <2>2. Len(ps) = l
    BY <1>2, <1>5, <1>6, <2>1
  <2>3. \A p \in 1 .. l : (pos + 1) + p - 1 = pos + p /\ pos + p \in 1 .. n
    BY <1>2, <1>6
  <2>4. QED
    BY <1>5, <2>1, <2>2, <2>3
<1>8. ASSUME NEW p \in 1 .. l, NEW q \in 1 .. l, p < q, NEW x \in ps[p].keys, NEW y \in ps[q].keys
      PROVE  x < y
  <2>1. PICK c \in 1 .. n : c = pos + p /\ ps[p] = b[c]
    BY <1>7
  <2>2. PICK d \in 1 .. n : d = pos + q /\ ps[q] = b[d]
    BY <1>7
  <2>3. c < d
    BY <1>2, <1>8, <2>1, <2>2
  <2>4. Before(<<g, e, c>>, <<g, e, d>>)
    BY <2>3 DEF Before
  <2>5. x < b[d].key
    BY <1>4, <1>8, <2>1, <2>4 DEF Sound, Chain
  <2>6. y >= b[d].key
    BY <1>4, <1>8, <2>2 DEF Sound, Floors
  <2>7. x \in Nat /\ y \in Nat /\ b[d].key \in Nat
    <3>1. x \in Keys /\ y \in Keys
      BY <1>3, <1>8, <2>1, <2>2
    <3>2. QED
      BY <1>3, <3>1 DEF Keys
  <2>8. QED
    BY <2>5, <2>6, <2>7
<1>9. \A p \in 1 .. l : ps[p].keys \in SUBSET Keys
  BY <1>3, <1>7
<1>10. Sorted(KeysOf(ps), AllKeys(ps, l))
  BY <1>7, <1>8, <1>9, KeysOfIs
<1>11. AllKeys(ps, l) = PointersBehind(gs, g, e, pos)
  <2>1. ASSUME NEW x \in Keys, NEW p \in 1 .. l, x \in ps[p].keys
        PROVE  \E P \in Places(gs) : P[1] = g /\ P[2] = e /\ P[3] > pos /\ x \in KeysAt(gs, P)
    <3>1. PICK c \in 1 .. n : c = pos + p /\ ps[p] = b[c]
      BY <1>7
    <3>2. c > pos
      BY <1>2, <3>1
    <3> DEFINE P == <<g, e, c>>
    <3>3. P \in Places(gs) /\ P[1] = g /\ P[2] = e /\ P[3] > pos /\ x \in KeysAt(gs, P)
      BY <1>4, <2>1, <3>1, <3>2
    <3>4. QED
      BY <3>3
  <2>2. ASSUME NEW x \in Keys, NEW P \in Places(gs), P[1] = g, P[2] = e, P[3] > pos, x \in KeysAt(gs, P)
        PROVE  \E p \in 1 .. l : x \in ps[p].keys
    <3>1. P = <<g, e, P[3]>> /\ P[3] \in 1 .. n
      BY <1>2, <2>2, PlacesAre DEF b
    <3>2. PICK p \in 1 .. l : pos + p = P[3]
      <4>1. P[3] - pos \in 1 .. l /\ pos + (P[3] - pos) = P[3]
        BY <1>2, <1>6, <2>2, <3>1
      <4>2. QED
        BY <4>1
    <3>3. ps[p] = b[P[3]] /\ KeysAt(gs, P) = b[P[3]].keys
      BY <1>4, <1>7, <3>1, <3>2
    <3>4. QED
      BY <2>2, <3>3
  <2>3. QED
    BY <2>1, <2>2 DEF AllKeys, PointersBehind
<1>12. QED
  BY <1>10, <1>11 DEF ps, b

(* The four parts of an iterator from a key: what its bucket has left, and *)
(* what is behind its pointer, its entry and its group.                    *)
Divides(gs, S, f, g, e, pos) ==
  LET A == {x \in KeysAt(gs, <<g, e, pos>>) : x >= f}
      B == PointersBehind(gs, g, e, pos)
      C == EntriesBehind(gs, g, e)
      D == GroupsBehind(gs, g)
  IN  /\ A \in SUBSET Keys
      /\ A \union B \union C \union D = {x \in S : x >= f}
      /\ \A x \in A : \A y \in B : x < y
      /\ \A x \in A \union B : \A y \in C : x < y
      /\ \A x \in A \union B \union C : \A y \in D : x < y

(* They are the keys from f on, each part behind those before it: f is the *)
(* key of the iterator, or a key of its first bucket.                      *)
LEMMA IteratorParts ==
  ASSUME NEW gs, Sound(gs), NEW S \in SUBSET Keys, Holds(gs, S), NEW k \in Keys,
         NEW g, NEW e, NEW pos, Owns(gs, k, <<g, e, pos>>),
         NEW f, f = k \/ f \in KeysAt(gs, <<g, e, pos>>)
  PROVE  Divides(gs, S, f, g, e, pos)
<1> DEFINE O == <<g, e, pos>>
           A == {x \in KeysAt(gs, O) : x >= f}
           B == PointersBehind(gs, g, e, pos)
           C == EntriesBehind(gs, g, e)
           D == GroupsBehind(gs, g)
<1>1. gs \in Tree /\ O \in Places(gs) /\ O[1] = g /\ O[2] = e /\ O[3] = pos
  BY DEF Sound, Owns
<1>2. \A P \in Places(gs) : /\ P[1] \in Nat /\ P[2] \in Nat /\ P[3] \in Nat /\ P = <<P[1], P[2], P[3]>>
                            /\ Key(gs, P) \in Nat /\ KeysAt(gs, P) \in SUBSET Keys
                            /\ KeysAt(gs, P) \in SUBSET Nat
  BY <1>1, PlacesNumbers
<1>3. g \in Nat /\ e \in Nat /\ pos \in Nat
  BY <1>1, <1>2
<1>4. \A P, Q \in Places(gs) : Before(P, Q) =>
        \A x \in KeysAt(gs, P) : \A y \in KeysAt(gs, Q) : x < y
  <2> SUFFICES ASSUME NEW P \in Places(gs), NEW Q \in Places(gs), Before(P, Q),
                      NEW x \in KeysAt(gs, P), NEW y \in KeysAt(gs, Q)
               PROVE  x < y
    OBVIOUS
  <2>1. x < Key(gs, Q) /\ y >= Key(gs, Q)
    BY DEF Sound, Chain, Floors
  <2>2. x \in Nat /\ y \in Nat /\ Key(gs, Q) \in Nat
    BY <1>2
  <2>3. QED
    BY <2>1, <2>2
<1>5. f \in Nat
  <2>1. CASE f = k
    BY <2>1 DEF Keys
  <2>2. CASE f \in KeysAt(gs, O)
    BY <1>1, <1>2, <2>2
  <2>3. QED
    BY <2>1, <2>2
<1>6. \A P \in Places(gs) : Before(O, P) => \A x \in KeysAt(gs, P) : x >= f
  <2> SUFFICES ASSUME NEW P \in Places(gs), Before(O, P), NEW x \in KeysAt(gs, P)
               PROVE  x >= f
    OBVIOUS
  <2>1. Key(gs, P) > k /\ x >= Key(gs, P)
    BY DEF Owns, Sound, Floors
  <2>2. x \in Nat /\ k \in Nat /\ Key(gs, P) \in Nat
    BY <1>2 DEF Keys
  <2>3. CASE f = k
    BY <2>1, <2>2, <2>3
  <2>4. CASE f \in KeysAt(gs, O)
    <3>1. f < x
      BY <1>1, <1>4, <2>4
    <3>2. QED
      BY <1>5, <2>2, <3>1
  <2>5. QED
    BY <2>3, <2>4
<1>7. \A P \in Places(gs) : Before(P, O) => \A x \in KeysAt(gs, P) : x < f
  <2> SUFFICES ASSUME NEW P \in Places(gs), Before(P, O), NEW x \in KeysAt(gs, P)
               PROVE  x < f
    OBVIOUS
  <2>1. CASE f = k
    BY <2>1 DEF Owns
  <2>2. CASE f \in KeysAt(gs, O)
    BY <1>1, <1>4, <2>2
  <2>3. QED
    BY <2>1, <2>2
<1> HIDE DEF O
<1>8. \A x : x \in A <=> x \in KeysAt(gs, O) /\ x >= f
  OBVIOUS
<1>9. \A x : x \in B <=> x \in Keys /\ \E P \in Places(gs) : P[1] = g /\ P[2] = e /\ P[3] > pos /\ x \in KeysAt(gs, P)
  BY DEF PointersBehind
<1>10. \A x : x \in C <=> x \in Keys /\ \E P \in Places(gs) : P[1] = g /\ P[2] > e /\ x \in KeysAt(gs, P)
  BY DEF EntriesBehind
<1>11. \A x : x \in D <=> x \in Keys /\ \E P \in Places(gs) : P[1] > g /\ x \in KeysAt(gs, P)
  BY DEF GroupsBehind
<1> HIDE DEF A, B, C, D
<1>12. A \in SUBSET Keys
  BY <1>1, <1>2, <1>8
<1>13. ASSUME NEW x, x \in A \union B \union C \union D
       PROVE  x \in S /\ x >= f
  <2>1. CASE x \in A
    BY <1>1, <1>8, <1>12, <2>1 DEF Holds
  <2>2. CASE x \in B \union C \union D
    <3>1. PICK P \in Places(gs) :
            /\ x \in Keys /\ x \in KeysAt(gs, P)
            /\ \/ P[1] = g /\ P[2] = e /\ P[3] > pos
               \/ P[1] = g /\ P[2] > e
               \/ P[1] > g
      BY <1>9, <1>10, <1>11, <2>2
    <3>2. Before(O, P)
      BY <1>1, <1>2, <1>3, <3>1 DEF Before
    <3>3. QED
      BY <1>6, <3>1, <3>2 DEF Holds
  <2>3. QED
    BY <1>13, <2>1, <2>2
<1>14. ASSUME NEW x \in S, x >= f
       PROVE  x \in A \union B \union C \union D
  <2>1. PICK P \in Places(gs) : x \in KeysAt(gs, P)
    BY DEF Holds
  <2>2. ~ Before(P, O)
    <3>1. x \in Nat /\ f \in Nat
      BY <1>5 DEF Keys
    <3>2. Before(P, O) => x < f
      BY <1>7, <2>1
    <3>3. QED
      BY <1>14, <3>1, <3>2
  <2>3. P = O \/ Before(O, P)
    <3>1. P \in Int \X Int \X Int /\ O \in Int \X Int \X Int
      BY <1>1, <1>2, PlacesNumbers
    <3>2. /\ P[1] \in Nat /\ P[2] \in Nat /\ P[3] \in Nat /\ P = <<P[1], P[2], P[3]>>
          /\ O = <<g, e, pos>>
      BY <1>2 DEF O
    <3>3. P[1] = g /\ P[2] = e /\ P[3] = pos => P = O
      BY <3>2
    <3>4. ~ (P[1] < g) /\ ~ (P[1] = g /\ P[2] < e) /\ ~ (P[1] = g /\ P[2] = e /\ P[3] < pos)
      BY <1>1, <2>2 DEF Before
    <3>5. (P[1] = g /\ P[2] = e /\ P[3] = pos) \/ g < P[1] \/ (g = P[1] /\ e < P[2])
             \/ (g = P[1] /\ e = P[2] /\ pos < P[3])
      BY <1>3, <3>2, <3>4
    <3>6. QED
      BY <1>1, <3>3, <3>5 DEF Before
  <2>4. CASE P = O
    BY <1>8, <1>14, <2>1, <2>4
  <2>5. CASE Before(O, P)
    <3>1. g < P[1] \/ (g = P[1] /\ e < P[2]) \/ (g = P[1] /\ e = P[2] /\ pos < P[3])
      BY <1>1, <2>5 DEF Before
    <3>2. P[1] > g \/ (P[1] = g /\ P[2] > e) \/ (P[1] = g /\ P[2] = e /\ P[3] > pos)
      BY <1>2, <1>3, <3>1
    <3>3. x \in Keys
      OBVIOUS
    <3>4. QED
      BY <1>9, <1>10, <1>11, <2>1, <3>2, <3>3
  <2>6. QED
    BY <2>3, <2>4, <2>5
<1>15. A \union B \union C \union D = {x \in S : x >= f}
  BY <1>13, <1>14
<1>16. ASSUME NEW x \in A, NEW y \in B PROVE x < y
  <2>1. PICK Q \in Places(gs) : Q[1] = g /\ Q[2] = e /\ Q[3] > pos /\ y \in KeysAt(gs, Q)
    BY <1>9
  <2>2. Before(O, Q)
    BY <1>1, <1>2, <1>3, <2>1 DEF Before
  <2>3. QED
    BY <1>1, <1>4, <1>8, <2>1, <2>2
<1>17. ASSUME NEW x \in A \union B, NEW y \in C PROVE x < y
  <2>1. PICK Q \in Places(gs) : Q[1] = g /\ Q[2] > e /\ y \in KeysAt(gs, Q)
    BY <1>10
  <2>2. PICK P \in Places(gs) : P[1] = g /\ P[2] = e /\ x \in KeysAt(gs, P)
    BY <1>1, <1>8, <1>9
  <2>3. Before(P, Q)
    BY <1>2, <1>3, <2>1, <2>2 DEF Before
  <2>4. QED
    BY <1>4, <2>1, <2>2, <2>3
<1>18. ASSUME NEW x \in A \union B \union C, NEW y \in D PROVE x < y
  <2>1. PICK Q \in Places(gs) : Q[1] > g /\ y \in KeysAt(gs, Q)
    BY <1>11
  <2>2. PICK P \in Places(gs) : P[1] = g /\ x \in KeysAt(gs, P)
    BY <1>1, <1>8, <1>9, <1>10
  <2>3. Before(P, Q)
    BY <1>2, <1>3, <2>1, <2>2 DEF Before
  <2>4. QED
    BY <1>4, <2>1, <2>2, <2>3
<1>19. QED
  BY <1>12, <1>15, <1>16, <1>17, <1>18 DEF Divides, A, B, C, D, O

(* Where an iterator from a key begins. *)
LEMMA IteratorBegins ==
  ASSUME NEW gs, Sound(gs), NEW k \in Keys, NEW g, OwnsGroup(gs, k, g)
  PROVE  LET e == FindEntry(gs[g], 0, k) + 1
             pos == FindPos(gs[g].bents[e], k)
         IN  /\ g \in DOMAIN gs /\ e \in DOMAIN gs[g].bents /\ pos \in DOMAIN gs[g].bents[e]
             /\ Owns(gs, k, <<g, e, pos>>)
             /\ KeysAt(gs, <<g, e, pos>>) = gs[g].bents[e][pos].keys
<1> DEFINE e == FindEntry(gs[g], 0, k) + 1
           pos == FindPos(gs[g].bents[e], k)
<1>1. g \in DOMAIN gs /\ ~ Bare(gs, g) /\ gs \in Tree /\ k \in Int
  BY DEF OwnsGroup, Sound, Keys
<1>2. 0 \in Predictions(gs[g])
  <2>1. gs[g] \in Group
    BY <1>1, Parts
  <2>2. Len(gs[g].bents) \in Nat /\ gs[g].bents \in Seq(Bents)
    BY <2>1, GroupParts
  <2>3. Len(gs[g].bents) # 0
    BY <1>1, <2>2 DEF Bare
  <2>4. QED
    BY <2>2, <2>3 DEF Predictions
<1>3. OwnsEntry(gs, k, g, e)
  BY <1>1, <1>2, EntryOwned
<1> HIDE DEF e
<1>4. Owns(gs, k, <<g, e, pos>>) /\ pos \in DOMAIN gs[g].bents[e]
      /\ KeysAt(gs, <<g, e, pos>>) = gs[g].bents[e][pos].keys
  BY <1>1, <1>3, PlaceOwned
<1>5. e \in DOMAIN gs[g].bents
  BY <1>3 DEF OwnsEntry
<1> HIDE DEF pos
<1>6. QED
  BY <1>1, <1>4, <1>5 DEF e, pos

(* The iterator from k yields the keys of S from f on. *)
Yields(gs, S, k, f, g) ==
  LET rest   == GroupIterFrom(gs[g], k)
      behind == KeysOf(Pointers(SubSeq(gs, g + 1, Len(gs))))
  IN  /\ rest \in Seq(Keys) /\ behind \in Seq(Keys)
      /\ rest \o behind = Ordered({x \in S : x >= f})

(* The four parts in a row are the keys in order, from k on or, when k is  *)
(* within the prefix of the first bucket, from the least key of that.      *)
LEMMA IteratorSorted ==
  ASSUME NEW gs, Sound(gs), NEW S \in SUBSET Keys, Holds(gs, S), NEW k \in Keys,
         NEW g, OwnsGroup(gs, k, g), NEW start, start = StartBucket(gs[g], k), start.keys # {},
         NEW f, f = IF k <= start.prefix THEN Min(start.keys) ELSE k
  PROVE  Yields(gs, S, k, f, g)
<1>1. PICK e : e = FindEntry(gs[g], 0, k) + 1
  OBVIOUS
<1>2. PICK b : b = gs[g].bents[e]
  OBVIOUS
<1>3. PICK pos : pos = FindPos(b, k)
  OBVIOUS
<1>4. /\ g \in DOMAIN gs /\ e \in DOMAIN gs[g].bents /\ pos \in DOMAIN gs[g].bents[e]
      /\ Owns(gs, k, <<g, e, pos>>) /\ KeysAt(gs, <<g, e, pos>>) = b[pos].keys
  BY <1>1, <1>2, <1>3, IteratorBegins
<1>5. start = b[pos]
  BY <1>1, <1>2, <1>3 DEF StartBucket
<1>6. IF k <= start.prefix THEN f \in b[pos].keys /\ \A x \in b[pos].keys : f <= x
                          ELSE f = k
  <2>1. CASE k <= start.prefix
    <3>1. b[pos].keys \in SUBSET Keys
      <4>1. gs \in Tree /\ <<g, e, pos>> \in Places(gs)
        BY <1>4 DEF Sound, Owns
      <4>2. QED
        BY <1>4, <4>1, PlacesNumbers
    <3>2. b[pos].keys \in SUBSET Int /\ \A x \in b[pos].keys : 1 <= x
      BY <3>1 DEF Keys
    <3>3. QED
      BY <1>5, <2>1, <3>2, MinProperty
  <2>2. CASE ~ (k <= start.prefix)
    BY <2>2
  <2>3. QED
    BY <2>1, <2>2
<1> DEFINE A == {x \in KeysAt(gs, <<g, e, pos>>) : x >= f}
           B == PointersBehind(gs, g, e, pos)
           C == EntriesBehind(gs, g, e)
           D == GroupsBehind(gs, g)
           a == Ordered(A)
           p == KeysOf(SubSeq(b, pos + 1, Len(b)))
           c == KeysOf(Pointers(<<[gs[g] EXCEPT !.bents = SubSeq(@, e + 1, Len(@))]>>))
           d == KeysOf(Pointers(SubSeq(gs, g + 1, Len(gs))))
           T == {x \in S : x >= f}
<1>7. GroupIterFrom(gs[g], k) = (a \o p) \o c
  <2>1. A = {x \in b[pos].keys : k <= b[pos].prefix \/ x >= k}
    <3>1. CASE k <= b[pos].prefix
      <4>1. f \in b[pos].keys /\ \A x \in b[pos].keys : f <= x
        BY <1>5, <1>6, <3>1
      <4>2. QED
        BY <1>4, <3>1, <4>1
    <3>2. CASE ~ (k <= b[pos].prefix)
      BY <1>4, <1>5, <3>2
    <3>3. QED
      BY <3>1, <3>2
  <2> HIDE DEF A
  <2>2. QED
    BY <1>1, <1>2, <1>3, <2>1 DEF GroupIterFrom
<1>8. /\ A \in SUBSET Keys /\ A \union B \union C \union D = T
      /\ \A x \in A : \A y \in B : x < y
      /\ \A x \in A \union B : \A y \in C : x < y
      /\ \A x \in A \union B \union C : \A y \in D : x < y
  <2>1. Owns(gs, k, <<g, e, pos>>)
    BY <1>4
  <2>2. Divides(gs, S, f, g, e, pos)
    BY <1>4, <1>6, <2>1, IteratorParts
  <2>3. QED
    BY <2>2 DEF Divides
<1>9. B \in SUBSET Keys /\ C \in SUBSET Keys /\ D \in SUBSET Keys
  BY DEF PointersBehind, EntriesBehind, GroupsBehind
<1>10. Keys \in SUBSET Int
  BY DEF Keys
<1>11. Sorted(p, B)
  BY <1>2, <1>4, RestOfPointers
<1>12. Sorted(c, C)
  <2>1. PICK hs : hs = <<[gs[g] EXCEPT !.bents = SubSeq(@, e + 1, Len(@))]>>
    OBVIOUS
  <2>2. Sound(hs) /\ TreeKeys(hs) = C
    BY <1>4, <2>1, RestOfEntries
  <2> HIDE DEF C
  <2>3. Sorted(KeysOf(Pointers(hs)), C)
    BY <2>2, TreeKeysSorted
  <2>4. QED
    BY <2>1, <2>3
<1>13. Sorted(d, D)
  <2>1. PICK hs : hs = SubSeq(gs, g + 1, Len(gs))
    OBVIOUS
  <2>2. Sound(hs) /\ TreeKeys(hs) = D
    BY <1>4, <2>1, RestOfGroups
  <2> HIDE DEF D
  <2>3. Sorted(KeysOf(Pointers(hs)), D)
    BY <2>2, TreeKeysSorted
  <2>4. QED
    BY <2>1, <2>3
<1> HIDE DEF A, B, C, D, p, c, d, T
<1>14. Sorted(a, A)
  <2>1. IsFiniteSet(A) /\ A \in SUBSET Int
    BY <1>8, <1>10, KeysFinite
  <2>2. QED
    BY <2>1, OrderedSorted
<1> HIDE DEF a
<1>15. Sorted(a \o p, A \union B)
  <2>1. A \in SUBSET Int /\ B \in SUBSET Int
    BY <1>8, <1>9, <1>10
  <2>2. QED
    BY <1>8, <1>11, <1>14, <2>1, SortedConcat
<1>16. Sorted((a \o p) \o c, A \union B \union C)
  <2>1. A \union B \in SUBSET Int /\ C \in SUBSET Int
    BY <1>8, <1>9, <1>10
  <2>2. QED
    BY <1>8, <1>12, <1>15, <2>1, SortedConcat
<1>17. Sorted(((a \o p) \o c) \o d, T)
  <2>1. A \union B \union C \in SUBSET Int /\ D \in SUBSET Int
    BY <1>8, <1>9, <1>10
  <2>2. Sorted(((a \o p) \o c) \o d, (A \union B \union C) \union D)
    BY <1>8, <1>13, <1>16, <2>1, SortedConcat
  <2>3. QED
    BY <1>8, <2>2
<1>18. ((a \o p) \o c) \o d = Ordered(T)
  <2>1. IsFiniteSet(T) /\ T \in SUBSET Int
    <3>1. T \in SUBSET Keys
      BY <1>8, <1>9
    <3>2. QED
      BY <1>10, <3>1, KeysFinite
  <2>2. QED
    BY <1>17, <2>1, SortedIs
<1>19. (a \o p) \o c \in Seq(Keys) /\ d \in Seq(Keys)
  <2>1. (a \o p) \o c \in Seq(A \union B \union C) /\ d \in Seq(D)
    BY <1>13, <1>16 DEF Sorted
  <2>2. A \union B \union C \in SUBSET Keys /\ D \in SUBSET Keys
    BY <1>8, <1>9
  <2>3. QED
    BY <2>1, <2>2
<1>20. QED
  BY <1>7, <1>18, <1>19 DEF Yields, d, T

(* Iterators from the invariant. *)
LEMMA IInvIterFromInOrder ==
  ASSUME IInv
  PROVE  IterFromInOrder
<1> SUFFICES ASSUME ~ dirty, \A place \in Places(groups) : Headed(PointerAt(groups, place)),
                    NEW k \in Keys, IterFrom(k)[1] # 0
             PROVE  LET start == StartBucket(groups[FindGroup(groups, route, k)], k)
                        first == IF k <= start.prefix THEN Min(start.keys) ELSE k
                    IN  IterFrom(k) = Ordered({x \in store : x >= first})
  BY DEF IterFromInOrder
<1>1. PICK g : g = FindGroup(groups, route, k)
  OBVIOUS
<1>2. PICK start : start = StartBucket(groups[g], k)
  OBVIOUS
<1>3. PICK f : f = IF k <= start.prefix THEN Min(start.keys) ELSE k
  OBVIOUS
<1>4. PICK rest : rest = GroupIterFrom(groups[g], k)
  OBVIOUS
<1>5. PICK behind : behind = KeysOf(Pointers(SubSeq(groups, g + 1, Len(groups))))
  OBVIOUS
<1>6. /\ Sound(groups) /\ Holds(groups, store) /\ Inhabited(groups) /\ Covers(groups, route)
      /\ store \in SUBSET Keys /\ route \in [Keys -> 1 .. Len(groups)]
  BY DEF IInv, Content, Shape
<1>7. OwnsGroup(groups, k, g)
  BY <1>1, <1>6, GroupFound
<1>8. /\ rest \in Seq(Keys) /\ behind \in Seq(Keys)
      /\ rest \o behind = Ordered({x \in store : x >= f})
  <2>1. start.keys # {}
    <3>1. PICK e : e = FindEntry(groups[g], 0, k) + 1
      OBVIOUS
    <3>2. PICK pos : pos = FindPos(groups[g].bents[e], k)
      OBVIOUS
    <3>3. g \in DOMAIN groups /\ e \in DOMAIN groups[g].bents /\ pos \in DOMAIN groups[g].bents[e]
      BY <1>6, <1>7, <3>1, <3>2, IteratorBegins
    <3>4. <<g, e, pos>> \in Places(groups) /\ PointerAt(groups, <<g, e, pos>>) = groups[g].bents[e][pos]
      BY <3>3, PlacesAre
    <3>5. start = groups[g].bents[e][pos]
      BY <1>2, <3>1, <3>2 DEF StartBucket
    <3>6. QED
      BY <3>4, <3>5 DEF Headed
  <2>2. Yields(groups, store, k, f, g)
    BY <1>6, <1>7, <1>2, <1>3, <2>1, IteratorSorted
  <2>3. QED
    BY <1>4, <1>5, <2>2 DEF Yields
<1>9. IterFrom(k) = (IF rest = <<>> THEN <<0>> ELSE rest) \o behind
  BY <1>1, <1>4, <1>5 DEF IterFrom
<1>10. rest # <<>>
  <2>1. SUFFICES ASSUME rest = <<>> PROVE FALSE
    OBVIOUS
  <2> DEFINE U == Keys \union {0}
             z == <<0>>
  <2>2. z \in Seq(U) /\ Len(z) = 1 /\ z[1] = 0
    <3>1. 0 \in U
      OBVIOUS
    <3> HIDE DEF U
    <3>2. QED
      BY <3>1
  <2>3. behind \in Seq(U) /\ Len(behind) \in Nat
    <3>1. Keys \in SUBSET U
      OBVIOUS
    <3> HIDE DEF U
    <3>2. behind \in Seq(U)
      BY <1>8, <3>1
    <3>3. QED
      BY <3>2, LenProperties
  <2> HIDE DEF U, z
  <2>4. (z \o behind)[1] = 0
    <3>1. 1 \in 1 .. Len(z) + Len(behind) /\ 1 <= Len(z)
      BY <2>2, <2>3
    <3>2. QED
      BY <2>2, <2>3, <3>1, ConcatProperties
  <2>5. IterFrom(k)[1] = 0
    BY <1>9, <2>1, <2>4 DEF z
  <2>6. QED
    BY <2>5
<1>11. QED
  BY <1>1, <1>8, <1>9, <1>10, <1>2, <1>3

(* letree::Iter from a key yields the keys from there on, in order and     *)
(* none left out, over pointers, entries and groups, when its own group    *)
(* has a key left, its first bucket no hole and every bucket a pair in     *)
(* slot 0; a key within the prefix of its first bucket yields that bucket  *)
(* whole.                                                                  *)
THEOREM IterFromInOrderAlways ==
  ASSUME ~ MayOverflow
  PROVE  Spec => []IterFromInOrder
<1>1. Spec => []IInv
  BY Invariance
<1>2. IInv => IterFromInOrder
  BY IInvIterFromInOrder
<1>3. QED
  BY <1>1, <1>2, PTL
=============================================================================
