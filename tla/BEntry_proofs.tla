--------------------------- MODULE BEntry_proofs ---------------------------
(***************************************************************************)
(* Theorems about BEntry, whatever the size of a node and the number of    *)
(* keys: what the operations on one node's buffer keep (SortBuffer), what  *)
(* the searches in it find, that Put, with its splits, Update, Delete and  *)
(* Setup keep the C level a tree whose nodes share out the keys (CLevel),  *)
(* and the inductive invariant of the entry, with its buffer and flushes.  *)
(***************************************************************************)
EXTENDS BEntry, TLAPS, FiniteSetTheorems, SequenceTheorems, WellFoundedInduction

(* Least and greatest members. *)
LEMMA Least ==
  ASSUME NEW T \in SUBSET Nat, T # {}
  PROVE  \E n \in T : \A m \in T : n <= m
<1> DEFINE lt == OpToRel(<, Nat)
<1>1. IsWellFoundedOn(lt, Nat)
  BY NatLessThanWellFounded, Zenon
<1>2. \E n \in T : \A m \in T : ~ (<<m, n>> \in lt)
  <2> HIDE DEF lt
  <2>1. QED
    BY <1>1, WFMin
<1>3. PICK n \in T : \A m \in T : ~ (<<m, n>> \in lt)
  BY <1>2
<1>4. ASSUME NEW m \in T PROVE n <= m
  <2>1. m \in Nat /\ n \in Nat
    OBVIOUS
  <2>2. CASE m < n
    <3>1. <<m, n>> \in lt
      BY <2>1, <2>2 DEF OpToRel
    <3>2. QED
      BY <3>1, <1>3
  <2>3. CASE ~ m < n
    BY <2>1, <2>3
  <2>4. QED
    BY <2>2, <2>3
<1>5. QED
  BY <1>4

(* The operator Min on a set of integers with a lower bound: FiniteSetsExt *)
(* defines it by a choice.                                                 *)
LEMMA MinProperty ==
  ASSUME NEW Q \in SUBSET Int, Q # {}, NEW lo \in Int, \A x \in Q : lo <= x
  PROVE  Min(Q) \in Q /\ \A y \in Q : Min(Q) <= y
<1> DEFINE T == {x - lo : x \in Q}
<1>1. T \subseteq Nat /\ T # {}
  <2>1. \A x \in Q : x - lo \in Nat
    <3>1. ASSUME NEW x \in Q PROVE x - lo \in Nat
      <4>1. x \in Int /\ lo <= x
        OBVIOUS
      <4>2. QED
        BY <4>1
    <3>2. QED
      BY <3>1
  <2>2. QED
    BY <2>1, Zenon
<1>2. \E n \in T : \A m \in T : n <= m
  <2> HIDE DEF T
  <2>1. QED
    BY <1>1, Least
<1>3. PICK x \in Q : \A m \in T : x - lo <= m
  BY <1>2
<1>4. ASSUME NEW y \in Q PROVE x <= y
  <2>1. x - lo <= y - lo
    BY <1>3
  <2>2. x \in Int /\ y \in Int
    OBVIOUS
  <2>3. QED
    BY <2>1, <2>2
<1>5. QED
  BY <1>4 DEF Min

(* Induction up to n: what 0 has and each number hands on, all have.       *)
LEMMA Induct ==
  ASSUME NEW n \in Nat, NEW G, 0 \in G, \A i \in 0 .. n - 1 : i \in G => i + 1 \in G
  PROVE  \A i \in 0 .. n : i \in G
<1> DEFINE Bad == {i \in 0 .. n : i \notin G}
<1>1. SUFFICES ASSUME Bad # {} PROVE FALSE
  OBVIOUS
<1>2. PICK i \in Bad : \A j \in Bad : i <= j
  <2>1. Bad \in SUBSET Nat
    OBVIOUS
  <2> HIDE DEF Bad
  <2>2. QED
    BY <1>1, <2>1, Least
<1>3. i \in 0 .. n /\ i \notin G /\ i # 0
  OBVIOUS
<1>4. i - 1 \in 0 .. n - 1 /\ i - 1 \in 0 .. n /\ ~ (i <= i - 1) /\ (i - 1) + 1 = i
  BY <1>3
<1>5. i - 1 \in G
  BY <1>2, <1>4
<1>6. QED
  BY <1>3, <1>4, <1>5

(* A function of turns, each of which makes a member of Q of the turn      *)
(* before.                                                                 *)
Turns(f, n, Q, c, F) ==
  /\ f \in [0 .. n -> Q]
  /\ f[0] = c
  /\ \A i \in 1 .. n : f[i] = F[<<f[i - 1], i>>]

(* Such a function exists, whatever a turn F makes of the member before it *)
(* and of its number.                                                      *)
LEMMA TurnsExist ==
  ASSUME NEW n \in Nat, NEW Q, NEW c \in Q, NEW F \in [Q \X (1 .. n) -> Q]
  PROVE  \E f : Turns(f, n, Q, c, F)
<1> DEFINE Fits(f, m) == f[0] = c /\ \A i \in 1 .. m : f[i] = F[<<f[i - 1], i>>]
           G == {m \in 0 .. n : \E f \in [0 .. n -> Q] : Fits(f, m)}
<1>1. 0 \in G
  <2>1. Fits([i \in 0 .. n |-> c], 0)
    OBVIOUS
  <2>2. [i \in 0 .. n |-> c] \in [0 .. n -> Q]
    OBVIOUS
  <2> HIDE DEF Fits
  <2>3. QED
    BY <2>1, <2>2
<1>2. ASSUME NEW m \in 0 .. n - 1, m \in G PROVE m + 1 \in G
  <2>1. PICK f \in [0 .. n -> Q] : Fits(f, m)
    BY <1>2
  <2> DEFINE g == [i \in 0 .. n |-> IF i = m + 1 THEN F[<<f[m], m + 1>>] ELSE f[i]]
  <2>2. m \in Nat /\ m + 1 \in 1 .. n /\ m \in 0 .. n /\ m + 1 \in 0 .. n /\ m # m + 1 /\ 0 # m + 1
    OBVIOUS
  <2>3. f[m] \in Q /\ F[<<f[m], m + 1>>] \in Q
    BY <2>2
  <2>4. g \in [0 .. n -> Q]
    BY <2>3
  <2>5. g[0] = c
    BY <2>1, <2>2
  <2>6. ASSUME NEW i \in 1 .. m + 1 PROVE g[i] = F[<<g[i - 1], i>>]
    <3>1. i \in Nat /\ i \in 0 .. n /\ i - 1 \in 0 .. n /\ i - 1 # m + 1
      BY <2>2
    <3>2. g[i - 1] = f[i - 1]
      BY <3>1
    <3>3. CASE i = m + 1
      <4>1. g[i] = F[<<f[m], m + 1>>] /\ i - 1 = m
        BY <2>2, <3>1, <3>3
      <4>2. QED
        BY <3>2, <3>3, <4>1
    <3>4. CASE i # m + 1
      <4>1. g[i] = f[i] /\ i \in 1 .. m
        BY <2>2, <3>1, <3>4
      <4>2. QED
        BY <2>1, <3>2, <4>1
    <3>5. QED
      BY <3>3, <3>4
  <2> HIDE DEF g
  <2>7. Fits(g, m + 1)
    BY <2>5, <2>6
  <2>8. QED
    BY <2>2, <2>4, <2>7
<1> HIDE DEF G
<1>3. n \in G
  <2>1. \A i \in 0 .. n : i \in G
    BY <1>1, <1>2, Induct
  <2>2. QED
    BY <2>1
<1>4. QED
  BY <1>3 DEF G, Turns

(* A function on 1 .. n is a sequence. *)
LEMMA FunctionSeq ==
  ASSUME NEW n \in Nat, NEW Q, NEW f \in [1 .. n -> Q]
  PROVE  f \in Seq(Q) /\ Len(f) = n
<1>1. f \in Seq(Q)
  OBVIOUS
<1>2. Len(f) \in Nat /\ DOMAIN f = 1 .. Len(f) /\ DOMAIN f = 1 .. n
  BY <1>1, LenProperties
<1>3. QED
  BY <1>1, <1>2

(* The members of Q in the order of their weights: the place of one is the *)
(* number of lighter ones.                                                 *)
LEMMA Ranked ==
  ASSUME NEW Q, IsFiniteSet(Q), NEW w \in [Q -> Int], \A x, y \in Q : w[x] = w[y] => x = y,
         NEW Below \in [Q -> SUBSET Q], \A x, y \in Q : y \in Below[x] <=> w[y] < w[x],
         NEW s,
         \A n \in 1 .. Cardinality(Q) :
           (\E x \in Q : Cardinality(Below[x]) = n - 1)
             => s[n] \in Q /\ Cardinality(Below[s[n]]) = n - 1
  PROVE  /\ Cardinality(Q) \in Nat
         /\ \A n \in 1 .. Cardinality(Q) : s[n] \in Q
         /\ \A m, n \in 1 .. Cardinality(Q) : m < n => w[s[m]] < w[s[n]]
         /\ \A x \in Q : \E n \in 1 .. Cardinality(Q) : s[n] = x
<1> DEFINE N == Cardinality(Q)
           c == [x \in Q |-> Cardinality(Below[x])]
           f == [x \in Q |-> c[x] + 1]
<1>1. N \in Nat
  BY FS_CardinalityType
<1>2. \A x \in Q : IsFiniteSet(Below[x]) /\ c[x] = Cardinality(Below[x]) /\ c[x] \in 0 .. N - 1
  <2> SUFFICES ASSUME NEW x \in Q
               PROVE  IsFiniteSet(Below[x]) /\ Cardinality(Below[x]) \in 0 .. N - 1
    OBVIOUS
  <2>1. Below[x] \in SUBSET (Q \ {x})
    OBVIOUS
  <2>2. IsFiniteSet(Q \ {x}) /\ Cardinality(Q \ {x}) = N - 1
    BY FS_RemoveElement
  <2>3. IsFiniteSet(Below[x]) /\ Cardinality(Below[x]) <= N - 1
    <3>1. QED
      BY <2>1, <2>2, FS_Subset
  <2>4. Cardinality(Below[x]) \in Nat
    <3>1. QED
      BY <2>3, FS_CardinalityType
  <2>5. QED
    BY <1>1, <2>3, <2>4
<1>3. \A x, y \in Q : w[x] < w[y] => c[x] < c[y]
  <2> SUFFICES ASSUME NEW x \in Q, NEW y \in Q, w[x] < w[y] PROVE c[x] < c[y]
    OBVIOUS
  <2> w[x] \in Int /\ w[y] \in Int /\ \A z \in Q : w[z] \in Int
    OBVIOUS
  <2>1. Below[x] \in SUBSET Below[y]
    <3>1. ASSUME NEW z \in Q, w[z] < w[x] PROVE w[z] < w[y]
      <4>1. w[z] \in Int
        OBVIOUS
      <4> HIDE DEF c
      <4>2. QED
        BY <3>1, <4>1
    <3>2. QED
      BY <3>1
  <2>2. x \in Below[y] /\ x \notin Below[x]
    OBVIOUS
  <2> HIDE DEF c
  <2>3. IsFiniteSet(Below[y]) /\ c[x] \in Nat /\ c[y] \in Nat
        /\ c[x] = Cardinality(Below[x]) /\ c[y] = Cardinality(Below[y])
    BY <1>1, <1>2
  <2>4. c[x] <= c[y] /\ (c[y] = c[x] => Below[y] = Below[x])
    BY <2>1, <2>3, FS_Subset
  <2>5. QED
    BY <2>2, <2>3, <2>4
<1>4. \A n \in 1 .. N : (\E x \in Q : c[x] = n - 1) => s[n] \in Q /\ c[s[n]] = n - 1
  OBVIOUS
<1> HIDE DEF c
<1>6. \A x, y \in Q : c[x] = c[y] => x = y
  <2> SUFFICES ASSUME NEW x \in Q, NEW y \in Q, c[x] = c[y] PROVE x = y
    OBVIOUS
  <2>1. c[x] \in Int /\ c[y] \in Int /\ w[x] \in Int /\ w[y] \in Int
    BY <1>1, <1>2
  <2>2. ~ (w[x] < w[y]) /\ ~ (w[y] < w[x])
    BY <1>3, <2>1
  <2>3. w[x] = w[y]
    BY <2>1, <2>2
  <2>4. QED
    BY <2>3
<1>7. f \in [Q -> 1 .. N]
  <2>1. ASSUME NEW x \in Q PROVE c[x] + 1 \in 1 .. N
    <3>1. c[x] \in 0 .. N - 1
      BY <1>2
    <3>2. QED
      BY <1>1, <3>1
  <2>2. QED
    BY <2>1
<1>8. f \in Injection(Q, 1 .. N)
  <2>1. ASSUME NEW x \in Q, NEW y \in Q, f[x] = f[y] PROVE x = y
    <3>1. c[x] \in Int /\ c[y] \in Int
      BY <1>1, <1>2
    <3>2. c[x] = c[y]
      BY <2>1, <3>1
    <3>3. QED
      BY <1>6, <3>2
  <2> HIDE DEF f
  <2>2. QED
    BY <1>7, <2>1 DEF Injection, IsInjective
<1>9. f \in Surjection(Q, 1 .. N)
  <2>1. IsFiniteSet(1 .. N) /\ Cardinality(1 .. N) = N
    BY <1>1, FS_Interval
  <2> HIDE DEF f
  <2>2. QED
    BY <1>8, <2>1, FS_Injection
<1>10. \A n \in 1 .. N : s[n] \in Q /\ c[s[n]] = n - 1
  <2> SUFFICES ASSUME NEW n \in 1 .. N PROVE s[n] \in Q /\ c[s[n]] = n - 1
    OBVIOUS
  <2>1. PICK x \in Q : f[x] = n
    <3> HIDE DEF f
    <3>1. QED
      BY <1>9 DEF Surjection
  <2>2. c[x] \in Int /\ n \in Int
    BY <1>1, <1>2
  <2>3. c[x] = n - 1
    BY <2>1, <2>2
  <2>4. QED
    BY <1>4, <2>3
<1>11. \A m, n \in 1 .. N : m < n => w[s[m]] < w[s[n]]
  <2> SUFFICES ASSUME NEW m \in 1 .. N, NEW n \in 1 .. N, m < n PROVE w[s[m]] < w[s[n]]
    OBVIOUS
  <2>1. s[m] \in Q /\ s[n] \in Q /\ c[s[m]] = m - 1 /\ c[s[n]] = n - 1
    BY <1>10
  <2>2. m \in Int /\ n \in Int
    BY <1>1
  <2>3. c[s[m]] < c[s[n]]
    BY <2>1, <2>2
  <2>4. w[s[m]] \in Int /\ w[s[n]] \in Int /\ c[s[n]] \in Int /\ c[s[m]] \in Int
    <3>1. m - 1 \in Int /\ n - 1 \in Int
      BY <2>2
    <3> HIDE DEF N
    <3>2. QED
      BY <2>1, <3>1
  <2>5. w[s[m]] # w[s[n]]
    <3>1. SUFFICES ASSUME w[s[m]] = w[s[n]] PROVE FALSE
      OBVIOUS
    <3>2. s[m] = s[n]
      BY <2>1, <3>1
    <3>3. c[s[m]] = c[s[n]]
      BY <3>2
    <3>4. QED
      BY ONLY <2>3, <2>4, <3>3
  <2>6. ~ (w[s[n]] < w[s[m]])
    <3>1. SUFFICES ASSUME w[s[n]] < w[s[m]] PROVE FALSE
      OBVIOUS
    <3>2. c[s[n]] < c[s[m]]
      BY <1>3, <2>1, <3>1
    <3>3. QED
      BY <2>3, <2>4, <3>2
  <2>7. QED
    BY <2>4, <2>5, <2>6
<1>12. \A x \in Q : \E n \in 1 .. N : s[n] = x
  <2> SUFFICES ASSUME NEW x \in Q PROVE \E n \in 1 .. N : s[n] = x
    OBVIOUS
  <2>1. f[x] \in 1 .. N /\ f[x] = c[x] + 1 /\ c[x] \in Int
    <3>1. c[x] \in 0 .. N - 1
      BY <1>2
    <3>2. f[x] = c[x] + 1 /\ c[x] \in Int
      BY <1>1, <3>1
    <3>3. f[x] \in 1 .. N
      BY <1>7
    <3>4. QED
      BY <3>2, <3>3
  <2> HIDE DEF f
  <2>2. c[s[f[x]]] = c[x] /\ s[f[x]] \in Q
    BY <1>10, <2>1
  <2>3. s[f[x]] = x
    BY <1>6, <2>2
  <2>4. QED
    BY <2>1, <2>3
<1>13. \A n \in 1 .. N : s[n] \in Q
  BY <1>10
<1>14. QED
  BY <1>1, <1>11, <1>12, <1>13

-----------------------------------------------------------------------------
(* Binary search *)

(* The middle of a range of places. *)
LEMMA Middle ==
  ASSUME NEW l \in Int, NEW r \in Int, l <= r
  PROVE  (l + r) \div 2 \in Int /\ l <= (l + r) \div 2 /\ (l + r) \div 2 <= r
<1>1. (l + r) \div 2 \in Int /\ 2 * ((l + r) \div 2) <= l + r /\ l + r <= 2 * ((l + r) \div 2) + 1
  OBVIOUS
<1>2. QED
  BY <1>1

(* The ranges of places from l to r that the search in M places meets. *)
Spans(M) == (0 .. M) \X (-1 .. M - 1)

(* One turn of the search that the ordered and the indexed bucket make,    *)
(* over the keys ks of M places.                                           *)
SearchTurn(f, ks, k, range) ==
  LET l == range[1]
      r == range[2]
      m == (l + r) \div 2
  IN  IF l > r THEN [exist |-> FALSE, pos |-> l]
      ELSE IF ks[m] = k THEN [exist |-> TRUE, pos |-> m]
      ELSE IF ks[m] > k THEN f[<<l, m - 1>>] ELSE f[<<m + 1, r>>]

(* f answers the search on every range. *)
Searches(f, ks, M, k) == f = [range \in Spans(M) |-> SearchTurn(f, ks, k, range)]

(* The places that a turn goes on with. *)
LEMMA SpanHalves ==
  ASSUME NEW M \in Nat, NEW l \in 0 .. M, NEW r \in -1 .. M - 1, l <= r
  PROVE  LET m == (l + r) \div 2
         IN  /\ m \in 0 .. M - 1 /\ l <= m /\ m <= r /\ m \in Int
             /\ m - 1 \in -1 .. M - 1 /\ m + 1 \in 0 .. M
             /\ <<l, m - 1>> \in Spans(M) /\ <<m + 1, r>> \in Spans(M)
<1> DEFINE m == (l + r) \div 2
<1>1. m \in Int /\ l <= m /\ m <= r
  BY Middle
<1> HIDE DEF m
<1>2. m \in 0 .. M - 1 /\ m - 1 \in -1 .. M - 1 /\ m + 1 \in 0 .. M
  BY <1>1
<1>3. QED
  BY <1>1, <1>2 DEF m, Spans

(* A range is the pair of its ends. *)
LEMMA SpanParts ==
  ASSUME NEW M \in Nat, NEW range \in Spans(M)
  PROVE  range[1] \in 0 .. M /\ range[2] \in -1 .. M - 1 /\ range = <<range[1], range[2]>>
BY DEF Spans

(* The pair of two ends is a range. *)
LEMMA SpanPair ==
  ASSUME NEW M \in Nat, NEW l \in 0 .. M, NEW r \in -1 .. M - 1
  PROVE  <<l, r>> \in Spans(M) /\ <<l, r>>[1] = l /\ <<l, r>>[2] = r
BY DEF Spans

(* A search by places. *)
LEMMA SearchAt ==
  ASSUME NEW M \in Nat, NEW ks, NEW k, NEW f, Searches(f, ks, M, k),
         NEW l \in 0 .. M, NEW r \in -1 .. M - 1
  PROVE  f[<<l, r>>] = LET m == (l + r) \div 2
                       IN  IF l > r THEN [exist |-> FALSE, pos |-> l]
                           ELSE IF ks[m] = k THEN [exist |-> TRUE, pos |-> m]
                           ELSE IF ks[m] > k THEN f[<<l, m - 1>>] ELSE f[<<m + 1, r>>]
<1>1. <<l, r>> \in Spans(M)
  BY SpanPair
<1>2. f[<<l, r>>] = SearchTurn(f, ks, k, <<l, r>>)
  BY <1>1 DEF Searches
<1>3. QED
  BY <1>2 DEF SearchTurn

(* Such a function exists, whatever the keys are: turn after turn the      *)
(* longer ranges become right.                                             *)
LEMMA SearchExists ==
  ASSUME NEW M \in Nat, NEW ks, NEW k
  PROVE  \E f : Searches(f, ks, M, k)
<1> DEFINE Ans == [exist : BOOLEAN, pos : Int]
           A == [Spans(M) -> Ans]
           N == M + 2
           Next1(f) == [range \in Spans(M) |-> SearchTurn(f, ks, k, range)]
           F == [t \in A \X (1 .. N) |-> Next1(t[1])]
           c == [range \in Spans(M) |-> [exist |-> FALSE, pos |-> range[1]]]
<1>1. ASSUME NEW f \in A PROVE Next1(f) \in A
  <2>1. ASSUME NEW range \in Spans(M) PROVE SearchTurn(f, ks, k, range) \in Ans
    <3> DEFINE l == range[1]
               r == range[2]
               m == (l + r) \div 2
    <3>1. l \in 0 .. M /\ r \in -1 .. M - 1
      BY SpanParts
    <3>2. CASE l > r
      BY <3>1, <3>2 DEF SearchTurn
    <3>3. CASE ~ (l > r)
      <4>1. l <= r
        BY <3>1, <3>3
      <4>2. m \in Int /\ <<l, m - 1>> \in Spans(M) /\ <<m + 1, r>> \in Spans(M)
        BY <3>1, <4>1, SpanHalves
      <4>3. f[<<l, m - 1>>] \in Ans /\ f[<<m + 1, r>>] \in Ans
        BY <4>2
      <4>4. SearchTurn(f, ks, k, range) =
              IF ks[m] = k THEN [exist |-> TRUE, pos |-> m]
              ELSE IF ks[m] > k THEN f[<<l, m - 1>>] ELSE f[<<m + 1, r>>]
        BY <3>3 DEF SearchTurn
      <4>5. [exist |-> TRUE, pos |-> m] \in Ans
        BY <4>2
      <4> HIDE DEF Ans, m
      <4>6. QED
        BY <4>3, <4>4, <4>5
    <3>4. QED
      BY <3>2, <3>3
  <2> HIDE DEF Ans
  <2>2. QED
    BY <2>1
<1>2. F \in [A \X (1 .. N) -> A]
  <2>1. \A t \in A \X (1 .. N) : Next1(t[1]) \in A
    <3> HIDE DEF Next1, A, N
    <3>1. QED
      BY <1>1
  <2> HIDE DEF Next1, A, N
  <2>2. QED
    BY <2>1
<1>3. c \in A /\ N \in Nat
  <2>1. \A range \in Spans(M) : range[1] \in Int
    BY SpanParts
  <2>2. QED
    BY <2>1
<1>4. PICK f : Turns(f, N, A, c, F)
  <2> HIDE DEF F, A, N, c
  <2>1. QED
    BY <1>2, <1>3, TurnsExist
<1>5. f \in [0 .. N -> A] /\ \A i \in 1 .. N : f[i] = Next1(f[i - 1])
  <2>1. f \in [0 .. N -> A] /\ \A i \in 1 .. N : f[i] = F[<<f[i - 1], i>>]
    BY <1>4 DEF Turns
  <2>2. ASSUME NEW i \in 1 .. N PROVE f[i] = Next1(f[i - 1])
    <3>1. i - 1 \in 0 .. N
      BY <1>3
    <3>2. f[i - 1] \in A
      BY <2>1, <3>1
    <3>3. <<f[i - 1], i>> \in A \X (1 .. N)
      BY <3>2
    <3>4. F[<<f[i - 1], i>>] = Next1(f[i - 1])
      <4> HIDE DEF A, N, Next1
      <4>1. QED
        BY <3>3
    <3>5. QED
      BY <2>1, <3>4
  <2>3. QED
    BY <2>1, <2>2
<1>14. f[0] = c
  BY <1>4 DEF Turns
<1> HIDE DEF F, c, A, Ans
<1> DEFINE Same(g, h, d) == \A l \in 0 .. M, r \in -1 .. M - 1 : r - l < d => g[<<l, r>>] = h[<<l, r>>]
           G == {d \in 0 .. M + 1 : Same(f[d + 1], f[d], d)}
<1>6. ASSUME NEW i \in 0 .. N - 1, NEW l \in 0 .. M, NEW r \in -1 .. M - 1
      PROVE  f[i + 1][<<l, r>>] = SearchTurn(f[i], ks, k, <<l, r>>)
  <2>1. i + 1 \in 1 .. N /\ (i + 1) - 1 = i /\ <<l, r>> \in Spans(M)
    BY <1>3, SpanPair
  <2>2. f[i + 1] = Next1(f[i])
    BY <1>5, <2>1
  <2>3. QED
    BY <2>1, <2>2
<1> HIDE DEF Next1
<1>7. ASSUME NEW d \in 0 .. M, NEW g, NEW h, Same(g, h, d), NEW l \in 0 .. M, NEW r \in -1 .. M - 1, r - l < d + 1
      PROVE  SearchTurn(g, ks, k, <<l, r>>) = SearchTurn(h, ks, k, <<l, r>>)
  <2> DEFINE m == (l + r) \div 2
  <2>1. CASE l > r
    BY <2>1 DEF SearchTurn
  <2>2. CASE ~ (l > r)
    <3>1. l <= r
      BY <2>2
    <3>2. m \in Int /\ l <= m /\ m <= r /\ m - 1 \in -1 .. M - 1 /\ m + 1 \in 0 .. M
      BY <3>1, SpanHalves
    <3> HIDE DEF m
    <3>3. (m - 1) - l < d /\ r - (m + 1) < d
      BY <1>7, <3>2
    <3>4. g[<<l, m - 1>>] = h[<<l, m - 1>>] /\ g[<<m + 1, r>>] = h[<<m + 1, r>>]
      BY <1>7, <3>2, <3>3
    <3>5. QED
      BY <3>4 DEF m, SearchTurn
  <2>3. QED
    BY <2>1, <2>2
<1>8. 0 \in G
  <2>1. Same(f[0 + 1], f[0], 0)
    <3> SUFFICES ASSUME NEW l \in 0 .. M, NEW r \in -1 .. M - 1, r - l < 0
                 PROVE  f[0 + 1][<<l, r>>] = f[0][<<l, r>>]
      OBVIOUS
    <3>1. l > r
      OBVIOUS
    <3>2. 0 \in 0 .. N - 1
      OBVIOUS
    <3>3. f[0 + 1][<<l, r>>] = SearchTurn(f[0], ks, k, <<l, r>>)
      BY <1>6, <3>2
    <3>4. f[0][<<l, r>>] = [exist |-> FALSE, pos |-> l]
      BY <1>14, SpanPair DEF c
    <3>5. QED
      BY <3>1, <3>3, <3>4 DEF SearchTurn
  <2>2. QED
    BY <2>1
<1>9. ASSUME NEW d \in 0 .. M, d \in G PROVE d + 1 \in G
  <2>1. Same(f[d + 1], f[d], d)
    BY <1>9
  <2>2. Same(f[(d + 1) + 1], f[d + 1], d + 1)
    <3> SUFFICES ASSUME NEW l \in 0 .. M, NEW r \in -1 .. M - 1, r - l < d + 1
                 PROVE  f[(d + 1) + 1][<<l, r>>] = f[d + 1][<<l, r>>]
      OBVIOUS
    <3>1. d + 1 \in 0 .. N - 1 /\ d \in 0 .. N - 1
      OBVIOUS
    <3>2. /\ f[(d + 1) + 1][<<l, r>>] = SearchTurn(f[d + 1], ks, k, <<l, r>>)
          /\ f[d + 1][<<l, r>>] = SearchTurn(f[d], ks, k, <<l, r>>)
      BY <1>6, <3>1
    <3> HIDE DEF Same
    <3>3. SearchTurn(f[d + 1], ks, k, <<l, r>>) = SearchTurn(f[d], ks, k, <<l, r>>)
      BY <1>7, <2>1
    <3>4. QED
      BY <3>2, <3>3
  <2>3. d + 1 \in 0 .. M + 1
    OBVIOUS
  <2> HIDE DEF Same
  <2>4. QED
    BY <2>2, <2>3
<1>10. M + 1 \in G
  <2>1. M + 1 \in Nat /\ M + 1 \in 0 .. M + 1 /\ (M + 1) - 1 = M
    OBVIOUS
  <2> HIDE DEF G
  <2>2. \A d \in 0 .. M + 1 : d \in G
    BY <1>8, <1>9, <2>1, Induct
  <2>3. QED
    BY <2>1, <2>2
<1>11. Searches(f[M + 1], ks, M, k)
  <2>1. M + 1 \in 0 .. N - 1 /\ M + 1 \in 0 .. N /\ M \in 0 .. N - 1
    OBVIOUS
  <2>2. f[M + 1] \in A
    BY <1>5, <2>1
  <2>3. ASSUME NEW range \in Spans(M)
        PROVE  f[M + 1][range] = SearchTurn(f[M + 1], ks, k, range)
    <3>1. PICK l \in 0 .. M, r \in -1 .. M - 1 : range = <<l, r>>
      BY SpanParts
    <3>2. r - l < M + 1
      BY <3>1
    <3>3. f[M + 1][<<l, r>>] = f[(M + 1) + 1][<<l, r>>]
      BY <1>10, <3>2
    <3>4. f[(M + 1) + 1][<<l, r>>] = SearchTurn(f[M + 1], ks, k, <<l, r>>)
      BY <1>6, <2>1
    <3>5. QED
      BY <3>1, <3>3, <3>4
  <2>4. f[M + 1] = [range \in Spans(M) |-> f[M + 1][range]]
    BY <2>2 DEF A
  <2> HIDE DEF G
  <2>5. QED
    BY <2>3, <2>4 DEF Searches
<1>12. QED
  BY <1>11

(* Over ascending keys it finds what is there, and otherwise the place     *)
(* where it would be.                                                      *)
Sought(t, ks, n, k) ==
  /\ t.exist \in BOOLEAN
  /\ t.exist => t.pos \in 0 .. n - 1 /\ ks[t.pos] = k
  /\ ~ t.exist => /\ t.pos \in 0 .. n
                 /\ \A i \in 0 .. n - 1 : (i < t.pos => ks[i] < k) /\ (i >= t.pos => ks[i] > k)

(* Over ascending keys the search finds the key or the place to put it. *)
LEMMA SearchFinds ==
  ASSUME NEW M \in Nat, NEW n \in 0 .. M, NEW ks, NEW k \in Int, NEW f, Searches(f, ks, M, k),
         \A i \in 0 .. n - 1 : ks[i] \in Int,
         \A i, j \in 0 .. n - 1 : i < j => ks[i] < ks[j]
  PROVE  Sought(f[<<0, n - 1>>], ks, n, k)
<1> DEFINE Around(l, r) == /\ l <= r + 1 /\ r <= n - 1
                           /\ \A i \in 0 .. n - 1 : (i < l => ks[i] < k) /\ (i > r => ks[i] > k)
           P(d) == \A l \in 0 .. M, r \in -1 .. M - 1 :
                     r - l < d /\ Around(l, r) => Sought(f[<<l, r>>], ks, n, k)
           G == {d \in 0 .. M + 1 : P(d)}
<1> DEFINE Mid(l, r) == (l + r) \div 2
<1>1. ASSUME NEW l \in 0 .. M, NEW r \in -1 .. M - 1
      PROVE  f[<<l, r>>] = IF l > r THEN [exist |-> FALSE, pos |-> l]
                           ELSE IF ks[Mid(l, r)] = k THEN [exist |-> TRUE, pos |-> Mid(l, r)]
                           ELSE IF ks[Mid(l, r)] > k THEN f[<<l, Mid(l, r) - 1>>]
                           ELSE f[<<Mid(l, r) + 1, r>>]
  BY SearchAt
<1> HIDE DEF Mid
<1>2. ASSUME NEW l \in 0 .. M, NEW r \in -1 .. M - 1, l > r, Around(l, r)
      PROVE  Sought(f[<<l, r>>], ks, n, k)
  <2>1. f[<<l, r>>] = [exist |-> FALSE, pos |-> l]
    BY <1>1, <1>2
  <2>2. l = r + 1 /\ l \in 0 .. n
    BY <1>2
  <2>3. QED
    BY <1>2, <2>1, <2>2 DEF Sought
<1>3. 0 \in G
  <2>1. ASSUME NEW l \in 0 .. M, NEW r \in -1 .. M - 1, r - l < 0, Around(l, r)
        PROVE  Sought(f[<<l, r>>], ks, n, k)
    <3>1. l > r
      BY <2>1
    <3> HIDE DEF Around
    <3>2. QED
      BY <1>2, <2>1, <3>1
  <2> HIDE DEF Around
  <2>2. QED
    BY <2>1
<1>4. ASSUME NEW d \in 0 .. M, d \in G PROVE d + 1 \in G
  <2>1. ASSUME NEW l \in 0 .. M, NEW r \in -1 .. M - 1, r - l < d + 1, Around(l, r)
        PROVE  Sought(f[<<l, r>>], ks, n, k)
    <3> DEFINE m == Mid(l, r)
    <3>1. CASE l > r
      <4> HIDE DEF Around
      <4>1. QED
        BY <1>2, <2>1, <3>1
    <3>2. CASE ~ (l > r)
      <4>1. l <= r
        BY <3>2
      <4>2. m \in Int /\ l <= m /\ m <= r /\ m - 1 \in -1 .. M - 1 /\ m + 1 \in 0 .. M
        BY <4>1, SpanHalves DEF Mid
      <4>3. f[<<l, r>>] = IF ks[m] = k THEN [exist |-> TRUE, pos |-> m]
                          ELSE IF ks[m] > k THEN f[<<l, m - 1>>] ELSE f[<<m + 1, r>>]
        BY <1>1, <3>2
      <4> HIDE DEF m
      <4>4. m \in 0 .. n - 1 /\ ks[m] \in Int
        BY <2>1, <4>2
      <4>5. CASE ks[m] = k
        BY <4>3, <4>4, <4>5 DEF Sought
      <4>6. CASE ks[m] > k
        <5>1. Around(l, m - 1)
          <6>1. ASSUME NEW i \in 0 .. n - 1, i > m - 1 PROVE ks[i] > k
            <7>1. i = m \/ m < i
              BY <4>2, <6>1
            <7>2. m < i => ks[m] < ks[i]
              BY <4>4
            <7>3. ks[i] \in Int
              OBVIOUS
            <7>4. QED
              BY <4>4, <4>6, <7>1, <7>2, <7>3
          <6>2. l <= (m - 1) + 1 /\ m - 1 <= n - 1
            BY <4>2, <4>4
          <6>3. QED
            BY <2>1, <6>1, <6>2
        <5>2. (m - 1) - l < d
          BY <2>1, <4>2
        <5>3. ks[m] # k
          BY <4>4, <4>6
        <5> HIDE DEF Around
        <5>4. QED
          BY <1>4, <4>2, <4>3, <4>6, <5>1, <5>2, <5>3
      <4>7. CASE ks[m] < k
        <5>1. Around(m + 1, r)
          <6>1. ASSUME NEW i \in 0 .. n - 1, i < m + 1 PROVE ks[i] < k
            <7>1. i = m \/ i < m
              BY <4>2, <6>1
            <7>2. i < m => ks[i] < ks[m]
              BY <4>4
            <7>3. ks[i] \in Int
              OBVIOUS
            <7>4. QED
              BY <4>4, <4>7, <7>1, <7>2, <7>3
          <6>2. m + 1 <= r + 1
            BY <4>2
          <6>3. QED
            BY <2>1, <6>1, <6>2
        <5>2. r - (m + 1) < d
          BY <2>1, <4>2
        <5>3. ks[m] # k /\ ~ (ks[m] > k)
          BY <4>4, <4>7
        <5> HIDE DEF Around
        <5>4. QED
          BY <1>4, <4>2, <4>3, <5>1, <5>2, <5>3
      <4>8. QED
        BY <4>4, <4>5, <4>6, <4>7
    <3>3. QED
      BY <3>1, <3>2
  <2>2. d + 1 \in 0 .. M + 1
    OBVIOUS
  <2> HIDE DEF Around
  <2>3. QED
    BY <2>1, <2>2
<1>5. M + 1 \in G
  <2>1. M + 1 \in Nat /\ M + 1 \in 0 .. M + 1 /\ (M + 1) - 1 = M
    OBVIOUS
  <2> HIDE DEF G
  <2>2. \A d \in 0 .. M + 1 : d \in G
    BY <1>3, <1>4, <2>1, Induct
  <2>3. QED
    BY <2>1, <2>2
<1>6. 0 \in 0 .. M /\ n - 1 \in -1 .. M - 1 /\ (n - 1) - 0 < M + 1
  OBVIOUS
<1>7. Around(0, n - 1)
  OBVIOUS
<1> HIDE DEF Around
<1>8. QED
  BY <1>5, <1>6, <1>7

-----------------------------------------------------------------------------
(* Recursive functions over an interval *)

(* A function that starts from c and makes each value of the one before. *)
Steps(g, i, l, Q, c, F) ==
  /\ g \in [i .. l -> Q]
  /\ g = [j \in i .. l |-> IF j = i THEN c ELSE F[<<g[j - 1], j>>]]

(* The recursive definitions of the buckets count on such a function. *)
LEMMA StepsExist ==
  ASSUME NEW i \in Int, NEW l \in Int, i <= l, NEW Q, NEW c \in Q,
         NEW F \in [Q \X (i + 1 .. l) -> Q]
  PROVE  \E g : Steps(g, i, l, Q, c, F)
<1> DEFINE n == l - i
           E == [t \in Q \X (1 .. n) |-> F[<<t[1], t[2] + i>>]]
<1>1. n \in Nat
  OBVIOUS
<1>2. E \in [Q \X (1 .. n) -> Q]
  <2>1. ASSUME NEW t \in Q \X (1 .. n) PROVE F[<<t[1], t[2] + i>>] \in Q
    <3>1. t[1] \in Q /\ t[2] \in 1 .. n
      OBVIOUS
    <3>2. t[2] + i \in i + 1 .. l
      BY <3>1
    <3>3. QED
      BY <3>1, <3>2
  <2>2. QED
    BY <2>1
<1> HIDE DEF E
<1>3. PICK f : Turns(f, n, Q, c, E)
  <2> HIDE DEF n
  <2>1. QED
    BY <1>1, <1>2, TurnsExist
<1> DEFINE g == [j \in i .. l |-> f[j - i]]
<1>4. f \in [0 .. n -> Q] /\ f[0] = c
  BY <1>3 DEF Turns
<1>5. \A j \in i .. l : j - i \in 0 .. n /\ g[j] = f[j - i]
  OBVIOUS
<1>6. g \in [i .. l -> Q]
  BY <1>4, <1>5
<1>7. ASSUME NEW j \in i .. l PROVE g[j] = IF j = i THEN c ELSE F[<<g[j - 1], j>>]
  <2>1. CASE j = i
    BY <1>4, <1>5, <2>1
  <2>2. CASE j # i
    <3>1. j - i \in 1 .. n /\ j - 1 \in i .. l /\ (j - 1) - i = (j - i) - 1 /\ (j - i) + i = j
      BY <2>2
    <3>2. g[j - 1] = f[(j - i) - 1] /\ g[j - 1] \in Q
      BY <1>5, <1>6, <3>1
    <3>3. g[j] = E[<<g[j - 1], j - i>>]
      BY <1>3, <1>5, <3>1, <3>2 DEF Turns
    <3> DEFINE t == <<g[j - 1], j - i>>
    <3>4. t \in Q \X (1 .. n) /\ t[1] = g[j - 1] /\ t[2] = j - i
      <4> HIDE DEF g, n
      <4>1. QED
        BY <3>1, <3>2
    <3>5. E[t] = F[<<t[1], t[2] + i>>]
      BY <3>4 DEF E
    <3>6. QED
      BY <2>2, <3>1, <3>3, <3>4, <3>5
  <2>3. QED
    BY <2>1, <2>2
<1>8. g = [j \in i .. l |-> g[j]]
  OBVIOUS
<1> HIDE DEF g
<1>9. Steps(g, i, l, Q, c, F)
  BY <1>6, <1>7, <1>8 DEF Steps
<1>10. QED
  BY <1>9


(* The sizes, and what has the shape of a buffer. *)
Dimensions == Slots \in Nat /\ MaxEntries \in 1 .. Slots

Header == [C!B!Ranks -> C!B!Ranks]

Buffers == [entries : 0 .. MaxEntries, index : Header,
            recs : [C!B!Ranks -> [key : Nat, value : Nat]]]

(***************************************************************************)
(* What a buffer relies on: no slot has two ranks; the slots that have no  *)
(* bytes in the buffer, as max_entries is below the number of ranks, come  *)
(* first among the free ones; keys ascend by rank.                         *)
(***************************************************************************)
NoSlotTwice(index) == \A r, s \in C!B!Ranks : index[r] = index[s] => r = s

FarSlotsLast(b) ==
  \A r \in C!B!Ranks :
    b.index[r] >= MaxEntries <=> r \in b.entries .. b.entries + Slots - MaxEntries - 1

KeysAscend(b) ==
  \A r, s \in 0 .. b.entries - 1 : r < s => C!B!Rec(b, r).key < C!B!Rec(b, s).key

Sound(b) == /\ b \in Buffers
            /\ NoSlotTwice(b.index)
            /\ FarSlotsLast(b)
            /\ KeysAscend(b)

-----------------------------------------------------------------------------
(* What the rotations of the header do to it. *)
LEMMA Remainder ==
  ASSUME NEW T \in Nat \ {0}, NEW x \in 0 .. T - 1
  PROVE  x % T = x /\ (x + T) % T = x
OBVIOUS

(* Any two numbers compare. *)
LEMMA Ordered ==
  ASSUME NEW x \in Int, NEW y \in Int
  PROVE  x < y \/ x = y \/ x > y
OBVIOUS

(* circular_lshift by one rank: the last rank moves to pos. *)
LEMMA RotateUpByOne ==
  ASSUME Dimensions, NEW index \in Header, NEW pos \in C!B!Ranks
  PROVE  /\ C!B!RotateUp(index, pos, 1) \in Header
         /\ \A r \in C!B!Ranks :
              C!B!RotateUp(index, pos, 1)[r] = IF r < pos THEN index[r]
                                           ELSE IF r = pos THEN index[Slots - 1]
                                           ELSE index[r - 1]
<1> DEFINE T == Slots - pos
<1>1. T \in Nat \ {0} /\ Slots \in Nat /\ pos \in Nat
  BY DEF Dimensions, C!B!Ranks
<1>2. ASSUME NEW r \in C!B!Ranks
      PROVE  /\ C!B!RotateUp(index, pos, 1)[r] = IF r < pos THEN index[r]
                                             ELSE IF r = pos THEN index[Slots - 1]
                                             ELSE index[r - 1]
             /\ C!B!RotateUp(index, pos, 1)[r] \in C!B!Ranks
  <2>1. C!B!RotateUp(index, pos, 1)[r] = IF r < pos THEN index[r]
                                     ELSE index[pos + ((r - pos + T - 1) % T)]
    BY DEF C!B!RotateUp
  <2>2. CASE r < pos
    BY <2>1, <2>2 DEF Header
  <2>3. CASE r = pos
    <3>1. r - pos + T - 1 = T - 1 /\ T - 1 \in 0 .. T - 1
      BY <1>1, <2>3
    <3>2. (r - pos + T - 1) % T = T - 1
      BY <1>1, <3>1, Remainder
    <3>3. pos + (T - 1) = Slots - 1 /\ Slots - 1 \in C!B!Ranks
      BY <1>1 DEF C!B!Ranks
    <3>4. QED
      BY <1>1, <2>1, <2>3, <3>2, <3>3 DEF Header, C!B!Ranks
  <2>4. CASE r > pos
    <3>1. r \in Nat /\ r < Slots
      BY <1>1 DEF C!B!Ranks
    <3>2. r - pos - 1 \in 0 .. T - 1 /\ r - pos + T - 1 = (r - pos - 1) + T
      BY <1>1, <2>4, <3>1
    <3>3. (r - pos + T - 1) % T = r - pos - 1
      BY <1>1, <3>2, Remainder
    <3>4. pos + (r - pos - 1) = r - 1 /\ r - 1 \in C!B!Ranks
      BY <1>1, <2>4, <3>1 DEF C!B!Ranks
    <3>5. QED
      BY <1>1, <2>1, <2>4, <3>1, <3>3, <3>4 DEF Header
  <2>5. QED
    BY <1>1, <2>2, <2>3, <2>4 DEF C!B!Ranks
<1>3. C!B!RotateUp(index, pos, 1) \in Header
  BY <1>2 DEF Header, C!B!RotateUp
<1>4. QED
  BY <1>2, <1>3

(* circular_rshift by n ranks: those from start on go behind the others. *)
LEMMA RotateDownBy ==
  ASSUME Dimensions, NEW index \in Header, NEW start \in C!B!Ranks,
         NEW n \in 0 .. Slots - start
  PROVE  /\ C!B!RotateDown(index, start, n) \in Header
         /\ \A r \in C!B!Ranks :
              C!B!RotateDown(index, start, n)[r] = IF r < start THEN index[r]
                                               ELSE IF r + n < Slots THEN index[r + n]
                                               ELSE index[r + n - Slots + start]
<1> DEFINE T == Slots - start
<1>1. T \in Nat \ {0} /\ Slots \in Nat /\ start \in Nat /\ n \in Nat /\ n <= T
  BY DEF Dimensions, C!B!Ranks
<1>2. ASSUME NEW r \in C!B!Ranks
      PROVE  /\ C!B!RotateDown(index, start, n)[r] = IF r < start THEN index[r]
                                                 ELSE IF r + n < Slots THEN index[r + n]
                                                 ELSE index[r + n - Slots + start]
             /\ C!B!RotateDown(index, start, n)[r] \in C!B!Ranks
  <2>1. C!B!RotateDown(index, start, n)[r] = IF r < start THEN index[r]
                                         ELSE index[start + ((r - start + n) % T)]
    BY DEF C!B!RotateDown
  <2>2. r \in Nat /\ r < Slots
    BY <1>1 DEF C!B!Ranks
  <2>3. CASE r < start
    BY <2>1, <2>3 DEF Header
  <2>4. CASE ~ r < start /\ r + n < Slots
    <3>1. r - start + n \in 0 .. T - 1
      BY <1>1, <2>2, <2>4
    <3>2. (r - start + n) % T = r - start + n
      BY <1>1, <3>1, Remainder
    <3>3. start + (r - start + n) = r + n /\ r + n \in C!B!Ranks
      BY <1>1, <2>2, <2>4 DEF C!B!Ranks
    <3>4. QED
      BY <2>1, <2>4, <3>2, <3>3 DEF Header
  <2>5. CASE ~ r < start /\ ~ r + n < Slots
    <3>1. r - start + n - T \in 0 .. T - 1 /\ r - start + n = (r - start + n - T) + T
      BY <1>1, <2>2, <2>5
    <3>2. (r - start + n) % T = r - start + n - T
      BY <1>1, <3>1, Remainder
    <3>3. start + (r - start + n - T) = r + n - Slots + start
          /\ r + n - Slots + start \in C!B!Ranks
      BY <1>1, <2>2, <2>5 DEF C!B!Ranks
    <3>4. QED
      BY <2>1, <2>5, <3>2, <3>3 DEF Header
  <2>6. QED
    BY <2>3, <2>4, <2>5
<1>3. C!B!RotateDown(index, start, n) \in Header
  BY <1>2 DEF Header, C!B!RotateDown
<1>4. QED
  BY <1>2, <1>3

-----------------------------------------------------------------------------
(* The sizes and positions in a buffer. *)
LEMMA Places ==
  ASSUME Dimensions, NEW b \in Buffers
  PROVE  /\ Slots \in Nat /\ MaxEntries \in Nat /\ MaxEntries <= Slots /\ 0 < MaxEntries
         /\ b.entries \in Nat /\ b.entries <= MaxEntries
         /\ \A r : r \in C!B!Ranks <=> r \in Nat /\ r < Slots
         /\ b.index \in Header
         /\ b.recs \in [C!B!Ranks -> [key : Nat, value : Nat]]
BY DEF Dimensions, Buffers, C!B!Ranks

(***************************************************************************)
(* What SortBuffer::Put asserts (target_idx < max_entries), and that it    *)
(* overwrites no pair: the slot it takes has bytes in the buffer and is    *)
(* none of those in use, whatever Puts, Deletes and splits there were.     *)
(***************************************************************************)
THEOREM NextSlotFree ==
  ASSUME Dimensions, NEW b, Sound(b), b.entries < MaxEntries
  PROVE  /\ C!B!NextSlot(b) \in C!B!Ranks
         /\ C!B!NextSlot(b) < MaxEntries
         /\ \A r \in 0 .. b.entries - 1 : b.index[r] # C!B!NextSlot(b)
<1>1. b \in Buffers
  BY DEF Sound
<1>2. Slots - 1 \in C!B!Ranks /\ b.index[Slots - 1] \in C!B!Ranks
  BY <1>1, Places DEF Header
<1>3. Slots - 1 \notin b.entries .. b.entries + Slots - MaxEntries - 1
  BY <1>1, Places
<1>4. b.index[Slots - 1] < MaxEntries
  BY <1>1, <1>2, <1>3, Places DEF Sound, FarSlotsLast
<1>5. ASSUME NEW r \in 0 .. b.entries - 1 PROVE b.index[r] # b.index[Slots - 1]
  <2>1. r \in C!B!Ranks /\ r # Slots - 1
    BY <1>1, Places
  <2>2. QED
    BY <1>2, <2>1 DEF Sound, NoSlotTwice
<1>6. QED
  BY <1>2, <1>4, <1>5 DEF C!B!NextSlot

(* A new node is sound. *)
THEOREM BlankSound ==
  ASSUME Dimensions
  PROVE  Sound(C!B!Blank)
<1>1. Slots \in Nat /\ MaxEntries \in Nat /\ MaxEntries <= Slots /\ 0 < MaxEntries
  BY DEF Dimensions
<1>2. C!B!Blank.index \in Header /\ \A r \in C!B!Ranks : C!B!Blank.index[r] = Slots - 1 - r
  BY <1>1 DEF C!B!Blank, Header, C!B!Ranks
<1>3. C!B!Blank \in Buffers
  BY <1>1, <1>2 DEF C!B!Blank, Buffers
<1>4. NoSlotTwice(C!B!Blank.index)
  BY <1>1, <1>2 DEF NoSlotTwice, C!B!Ranks
<1>5. FarSlotsLast(C!B!Blank)
  <2>1. C!B!Blank.entries = 0
    BY DEF C!B!Blank
  <2>2. QED
    BY <1>1, <1>2, <2>1 DEF FarSlotsLast, C!B!Ranks
<1>6. KeysAscend(C!B!Blank)
  BY DEF KeysAscend, C!B!Blank
<1>7. QED
  BY <1>3, <1>4, <1>5, <1>6 DEF Sound

(***************************************************************************)
(* Put at the rank where the key belongs: the pair is there, the pairs     *)
(* above it moved up by one rank, and all else is as it was.               *)
(***************************************************************************)
THEOREM PutSound ==
  ASSUME Dimensions, NEW b, Sound(b), b.entries < MaxEntries,
         NEW key \in Nat, NEW value \in Nat, NEW pos \in 0 .. b.entries,
         \A r \in 0 .. pos - 1 : C!B!Rec(b, r).key < key,
         \A r \in pos .. b.entries - 1 : key < C!B!Rec(b, r).key
  PROVE  LET after == C!B!Put(b, pos, key, value)
         IN  /\ Sound(after)
             /\ C!B!Rec(after, pos) = [key |-> key, value |-> value]
             /\ \A r \in 0 .. pos - 1 : C!B!Rec(after, r) = C!B!Rec(b, r)
             /\ \A r \in pos .. b.entries - 1 : C!B!Rec(after, r + 1) = C!B!Rec(b, r)
<1> DEFINE after == C!B!Put(b, pos, key, value)
           n == b.entries
<1>1. b \in Buffers
  BY DEF Sound
<1>2. /\ Slots \in Nat /\ MaxEntries \in Nat /\ MaxEntries <= Slots
      /\ n \in Nat /\ n < MaxEntries /\ pos \in Nat /\ pos <= n
      /\ \A r : r \in C!B!Ranks <=> r \in Nat /\ r < Slots
      /\ pos \in C!B!Ranks
      /\ b.index \in Header
      /\ b.recs \in [C!B!Ranks -> [key : Nat, value : Nat]]
  BY <1>1, Places
<1>3. /\ after.entries = n + 1
      /\ after.index \in Header
      /\ \A r \in C!B!Ranks : after.index[r] = IF r < pos THEN b.index[r]
                                           ELSE IF r = pos THEN b.index[Slots - 1]
                                           ELSE b.index[r - 1]
      /\ \A s \in C!B!Ranks : after.recs[s] = IF s = b.index[Slots - 1]
                                          THEN [key |-> key, value |-> value]
                                          ELSE b.recs[s]
  BY <1>2, RotateUpByOne DEF C!B!Put, C!B!NextSlot
<1>4. after \in Buffers
  <2>1. after.recs \in [C!B!Ranks -> [key : Nat, value : Nat]]
    BY <1>2 DEF C!B!Put
  <2>2. after = [entries |-> after.entries, index |-> after.index, recs |-> after.recs]
    BY DEF C!B!Put
  <2>3. after.entries \in 0 .. MaxEntries
    BY <1>2, <1>3
  <2> HIDE DEF after
  <2>4. QED
    BY <1>3, <2>1, <2>2, <2>3 DEF Buffers
<1> HIDE DEF after
<1>5. \A r, s \in C!B!Ranks : b.index[r] = b.index[s] => r = s
  BY DEF Sound, NoSlotTwice
<1>6. \A r \in C!B!Ranks : r # 0 => r - 1 \in C!B!Ranks
  BY <1>2
<1>7. Slots - 1 \in C!B!Ranks
  BY <1>2
<1>8. NoSlotTwice(after.index)
  <2>1. ASSUME NEW r \in C!B!Ranks, NEW s \in C!B!Ranks, after.index[r] = after.index[s]
        PROVE  r = s
    <3> DEFINE from(x) == IF x < pos THEN x ELSE IF x = pos THEN Slots - 1 ELSE x - 1
    <3>1. from(r) \in C!B!Ranks /\ from(s) \in C!B!Ranks
      BY <1>2, <1>7
    <3>2. after.index[r] = b.index[from(r)] /\ after.index[s] = b.index[from(s)]
      BY <1>3
    <3>3. from(r) = from(s)
      BY <1>5, <2>1, <3>1, <3>2
    <3>4. QED
      BY <1>2, <3>3
  <2>2. QED
    BY <2>1 DEF NoSlotTwice
<1>9. \A r \in C!B!Ranks : b.index[r] >= MaxEntries <=> r \in n .. n + Slots - MaxEntries - 1
  BY DEF Sound, FarSlotsLast
<1>10. FarSlotsLast(after)
  <2>1. ASSUME NEW r \in C!B!Ranks
        PROVE  after.index[r] >= MaxEntries <=> r \in n + 1 .. n + 1 + Slots - MaxEntries - 1
    <3>1. r \in Nat /\ r < Slots
      BY <1>2
    <3>2. CASE r < pos
      BY <1>2, <1>3, <1>9, <3>1, <3>2
    <3>3. CASE r = pos
      BY <1>2, <1>3, <1>7, <1>9, <3>1, <3>3
    <3>4. CASE r > pos
      <4>1. r - 1 \in C!B!Ranks /\ after.index[r] = b.index[r - 1]
        BY <1>2, <1>3, <3>1, <3>4
      <4>2. r - 1 \in n .. n + Slots - MaxEntries - 1
              <=> r \in n + 1 .. n + 1 + Slots - MaxEntries - 1
        BY <1>2, <3>1
      <4>3. QED
        BY <1>9, <4>1, <4>2
    <3>5. r \in Int /\ pos \in Int
      BY <1>2, <3>1
    <3>6. QED
      BY <3>2, <3>3, <3>4, <3>5, Ordered
  <2>2. QED
    BY <1>3, <2>1 DEF FarSlotsLast
<1>11. \A r \in 0 .. n - 1 : r \in C!B!Ranks /\ b.index[r] \in C!B!Ranks /\ b.index[r] # b.index[Slots - 1]
  <2>1. \A r \in 0 .. n - 1 : r \in C!B!Ranks /\ r # Slots - 1
    BY <1>2
  <2>2. QED
    BY <1>2, <1>5, <1>7, <2>1 DEF Header
<1>12. C!B!Rec(after, pos) = [key |-> key, value |-> value]
  <2>1. b.index[Slots - 1] \in C!B!Ranks
    BY <1>2, <1>7 DEF Header
  <2>2. after.index[pos] = b.index[Slots - 1]
    BY <1>2, <1>3
  <2>3. QED
    BY <1>3, <2>1, <2>2 DEF C!B!Rec
<1>13. \A r \in 0 .. pos - 1 : C!B!Rec(after, r) = C!B!Rec(b, r)
  <2>1. ASSUME NEW r \in 0 .. pos - 1 PROVE C!B!Rec(after, r) = C!B!Rec(b, r)
    <3>1. r \in 0 .. n - 1 /\ r < pos
      BY <1>2
    <3>2. after.index[r] = b.index[r]
      BY <1>3, <1>11, <3>1
    <3>3. QED
      BY <1>3, <1>11, <3>1, <3>2 DEF C!B!Rec
  <2>2. QED
    BY <2>1
<1>14. \A r \in pos .. n - 1 : C!B!Rec(after, r + 1) = C!B!Rec(b, r)
  <2>1. ASSUME NEW r \in pos .. n - 1 PROVE C!B!Rec(after, r + 1) = C!B!Rec(b, r)
    <3>1. r \in 0 .. n - 1 /\ r + 1 > pos /\ (r + 1) - 1 = r /\ r + 1 \in C!B!Ranks
      BY <1>2
    <3>2. after.index[r + 1] = b.index[r]
      BY <1>2, <1>3, <3>1
    <3>3. QED
      BY <1>3, <1>11, <3>1, <3>2 DEF C!B!Rec
  <2>2. QED
    BY <2>1
<1>15. KeysAscend(after)
  <2>1. ASSUME NEW r \in 0 .. n, NEW s \in 0 .. n, r < s
        PROVE  C!B!Rec(after, r).key < C!B!Rec(after, s).key
    <3>1. \A x \in 0 .. n - 1 : C!B!Rec(b, x).key \in Nat
      BY <1>2, <1>11 DEF C!B!Rec
    <3>2. \A x, y \in 0 .. n - 1 : x < y => C!B!Rec(b, x).key < C!B!Rec(b, y).key
      BY DEF Sound, KeysAscend
    <3>3. r \in Nat /\ s \in Nat /\ r <= n /\ s <= n
      BY <1>2
    <3>4. \A x \in 0 .. n : x < pos => C!B!Rec(after, x) = C!B!Rec(b, x) /\ x \in 0 .. pos - 1
                                      /\ x \in 0 .. n - 1
      BY <1>2, <1>13
    <3>5. \A x \in 0 .. n : x > pos => C!B!Rec(after, x) = C!B!Rec(b, x - 1) /\ x - 1 \in pos .. n - 1
                                      /\ x - 1 \in 0 .. n - 1
      <4>1. ASSUME NEW x \in 0 .. n, x > pos
            PROVE  C!B!Rec(after, x) = C!B!Rec(b, x - 1) /\ x - 1 \in pos .. n - 1 /\ x - 1 \in 0 .. n - 1
        <5>1. x - 1 \in pos .. n - 1 /\ x - 1 \in 0 .. n - 1 /\ (x - 1) + 1 = x
          BY <1>2, <4>1
        <5>2. QED
          BY <1>14, <5>1
      <4>2. QED
        BY <4>1
    <3>6. CASE s < pos
      BY <2>1, <3>2, <3>3, <3>4, <3>6, <1>2
    <3>7. CASE s = pos
      <4>1. C!B!Rec(after, r) = C!B!Rec(b, r) /\ r \in 0 .. pos - 1
        BY <2>1, <3>4, <3>7
      <4>2. QED
        BY <1>12, <3>7, <4>1
    <3>8. CASE r < pos /\ s > pos
      <4>1. r < s - 1 \/ r = s - 1
        BY <1>2, <3>3, <3>8
      <4>2. C!B!Rec(after, r) = C!B!Rec(b, r) /\ r \in 0 .. n - 1 /\ C!B!Rec(b, r).key < key
        BY <3>4, <3>8
      <4>3. C!B!Rec(after, s) = C!B!Rec(b, s - 1) /\ s - 1 \in 0 .. n - 1 /\ key < C!B!Rec(b, s - 1).key
        BY <3>5, <3>8
      <4>4. QED
        BY <3>1, <4>2, <4>3
    <3>9. CASE r = pos
      <4>1. s > pos
        BY <2>1, <3>9
      <4>2. C!B!Rec(after, s) = C!B!Rec(b, s - 1) /\ key < C!B!Rec(b, s - 1).key
        BY <3>5, <4>1
      <4>3. QED
        BY <1>12, <3>9, <4>2
    <3>10. CASE r > pos
      <4>1. s > pos /\ r - 1 < s - 1
        BY <1>2, <2>1, <3>3, <3>10
      <4>2. QED
        BY <3>2, <3>5, <3>10, <4>1
    <3>11. QED
      BY <1>2, <3>3, <3>6, <3>7, <3>8, <3>9, <3>10
  <2>2. after.entries - 1 = n
    BY <1>2, <1>3
  <2>3. QED
    BY <2>1, <2>2 DEF KeysAscend
<1>16. QED
  BY <1>4, <1>8, <1>10, <1>12, <1>13, <1>14, <1>15 DEF Sound, after

(***************************************************************************)
(* Taking n ranks from start out of the pairs, which Delete does with one  *)
(* and DeleteData with all that follow: their slots become the next free   *)
(* ones, the pairs above them move down and all else is as it was.         *)
(***************************************************************************)
LEMMA TakenOutSound ==
  ASSUME Dimensions, NEW b, Sound(b), NEW start \in 0 .. b.entries - 1,
         NEW n \in 1 .. b.entries - start, NEW after,
         after = [entries |-> b.entries - n, index |-> C!B!RotateDown(b.index, start, n),
                  recs |-> b.recs]
  PROVE  /\ Sound(after)
         /\ \A r \in 0 .. start - 1 : C!B!Rec(after, r) = C!B!Rec(b, r)
         /\ \A r \in start .. after.entries - 1 : C!B!Rec(after, r) = C!B!Rec(b, r + n)
<1> DEFINE m == b.entries
<1>1. b \in Buffers
  BY DEF Sound
<1>2. /\ Slots \in Nat /\ MaxEntries \in Nat /\ MaxEntries <= Slots
      /\ m \in Nat /\ m <= MaxEntries
      /\ start \in Nat /\ n \in Nat /\ start < m /\ 0 < n /\ start + n <= m
      /\ \A r : r \in C!B!Ranks <=> r \in Nat /\ r < Slots
      /\ b.index \in Header
      /\ b.recs \in [C!B!Ranks -> [key : Nat, value : Nat]]
  <2>1. /\ Slots \in Nat /\ MaxEntries \in Nat /\ MaxEntries <= Slots
        /\ m \in Nat /\ m <= MaxEntries
    BY <1>1, Places
  <2>2. start \in Nat /\ n \in Nat /\ start < m /\ 0 < n /\ start + n <= m
    BY <2>1
  <2>3. QED
    BY <1>1, <2>1, <2>2, Places
<1>3. /\ after.entries = m - n
      /\ after.index \in Header
      /\ \A r \in C!B!Ranks : after.index[r] = IF r < start THEN b.index[r]
                                           ELSE IF r + n < Slots THEN b.index[r + n]
                                           ELSE b.index[r + n - Slots + start]
      /\ after.recs = b.recs
  <2>1. start \in C!B!Ranks /\ n \in 0 .. Slots - start
    BY <1>2
  <2>2. QED
    BY <1>2, <2>1, RotateDownBy
<1>4. after \in Buffers
  <2>1. after.entries \in 0 .. MaxEntries
    BY <1>2, <1>3
  <2>2. QED
    BY <1>2, <1>3, <2>1 DEF Buffers
<1>5. \A r, s \in C!B!Ranks : b.index[r] = b.index[s] => r = s
  BY DEF Sound, NoSlotTwice
<1>6. NoSlotTwice(after.index)
  <2> DEFINE from(x) == IF x < start THEN x
                        ELSE IF x + n < Slots THEN x + n ELSE x + n - Slots + start
  <2>1. ASSUME NEW x \in C!B!Ranks PROVE from(x) \in C!B!Ranks /\ after.index[x] = b.index[from(x)]
    <3>1. x \in Nat /\ x < Slots
      BY <1>2
    <3>2. from(x) \in Nat /\ from(x) < Slots
      BY <1>2, <3>1
    <3>3. QED
      BY <1>2, <1>3, <3>2
  <2>2. ASSUME NEW x \in C!B!Ranks, NEW y \in C!B!Ranks, from(x) = from(y) PROVE x = y
    <3>1. x \in Nat /\ x < Slots /\ y \in Nat /\ y < Slots
      BY <1>2
    <3>2. QED
      BY <1>2, <2>2, <3>1
  <2> HIDE DEF from
  <2>3. QED
    BY <1>5, <2>1, <2>2 DEF NoSlotTwice
<1>7. \A r \in C!B!Ranks : b.index[r] >= MaxEntries <=> r \in m .. m + Slots - MaxEntries - 1
  BY DEF Sound, FarSlotsLast
<1>8. FarSlotsLast(after)
  <2>1. ASSUME NEW r \in C!B!Ranks
        PROVE  after.index[r] >= MaxEntries
                 <=> r \in (m - n) .. (m - n) + Slots - MaxEntries - 1
    <3>1. r \in Nat /\ r < Slots
      BY <1>2
    <3>2. CASE r < start
      <4>1. after.index[r] = b.index[r]
        BY <1>3, <3>2
      <4>2. r \notin m .. m + Slots - MaxEntries - 1
            /\ r \notin (m - n) .. (m - n) + Slots - MaxEntries - 1
        BY <1>2, <3>1, <3>2
      <4>3. QED
        BY <1>7, <4>1, <4>2
    <3>3. CASE ~ r < start /\ r + n < Slots
      <4>1. after.index[r] = b.index[r + n] /\ r + n \in C!B!Ranks
        BY <1>2, <1>3, <3>1, <3>3
      <4>2. r + n \in m .. m + Slots - MaxEntries - 1
              <=> r \in (m - n) .. (m - n) + Slots - MaxEntries - 1
        BY <1>2, <3>1
      <4>3. QED
        BY <1>7, <4>1, <4>2
    <3>4. CASE ~ r < start /\ ~ r + n < Slots
      <4>1. after.index[r] = b.index[r + n - Slots + start] /\ r + n - Slots + start \in C!B!Ranks
        BY <1>2, <1>3, <3>1, <3>4
      <4>2. r + n - Slots + start \notin m .. m + Slots - MaxEntries - 1
            /\ r \notin (m - n) .. (m - n) + Slots - MaxEntries - 1
        BY <1>2, <3>1, <3>4
      <4>3. QED
        BY <1>7, <4>1, <4>2
    <3>5. QED
      BY <3>2, <3>3, <3>4
  <2>2. QED
    BY <1>3, <2>1 DEF FarSlotsLast
<1>9. ASSUME NEW r \in 0 .. start - 1
      PROVE  C!B!Rec(after, r) = C!B!Rec(b, r) /\ r \in 0 .. m - 1
  <2>1. r \in C!B!Ranks /\ r < start /\ r \in 0 .. m - 1
    BY <1>2
  <2>2. QED
    BY <1>3, <2>1 DEF C!B!Rec
<1>10. ASSUME NEW r \in start .. m - n - 1
       PROVE  C!B!Rec(after, r) = C!B!Rec(b, r + n) /\ r + n \in 0 .. m - 1
  <2>1. r \in C!B!Ranks /\ ~ r < start /\ r + n < Slots /\ r + n \in 0 .. m - 1
    BY <1>2
  <2>2. QED
    BY <1>3, <2>1 DEF C!B!Rec
<1>11. KeysAscend(after)
  <2>1. ASSUME NEW r \in 0 .. m - n - 1, NEW s \in 0 .. m - n - 1, r < s
        PROVE  C!B!Rec(after, r).key < C!B!Rec(after, s).key
    <3>1. \A x, y \in 0 .. m - 1 : x < y => C!B!Rec(b, x).key < C!B!Rec(b, y).key
      BY DEF Sound, KeysAscend
    <3>2. r \in Nat /\ s \in Nat /\ r <= m - n - 1 /\ s <= m - n - 1
      BY <1>2
    <3>3. CASE s < start
      <4>1. r \in 0 .. start - 1 /\ s \in 0 .. start - 1
        BY <1>2, <2>1, <3>2, <3>3
      <4>2. QED
        BY <1>9, <2>1, <3>1, <4>1
    <3>4. CASE r < start /\ ~ s < start
      <4>1. r \in 0 .. start - 1 /\ s \in start .. m - n - 1 /\ r < s + n
        BY <1>2, <2>1, <3>2, <3>4
      <4>2. C!B!Rec(after, r) = C!B!Rec(b, r) /\ r \in 0 .. m - 1
        BY <1>9, <4>1
      <4>3. C!B!Rec(after, s) = C!B!Rec(b, s + n) /\ s + n \in 0 .. m - 1
        BY <1>10, <4>1
      <4>4. QED
        BY <3>1, <4>1, <4>2, <4>3
    <3>5. CASE ~ r < start
      <4>1. r \in start .. m - n - 1 /\ s \in start .. m - n - 1 /\ r + n < s + n
        BY <1>2, <2>1, <3>2, <3>5
      <4>2. QED
        BY <1>10, <3>1, <4>1
    <3>6. r < start \/ ~ r < start
      OBVIOUS
    <3>7. QED
      BY <3>3, <3>4, <3>5
  <2>2. QED
    BY <1>3, <2>1 DEF KeysAscend
<1>12. QED
  BY <1>3, <1>4, <1>6, <1>8, <1>9, <1>10, <1>11 DEF Sound

(***************************************************************************)
(* Delete of the pair at a rank: that pair alone is gone, and its slot is  *)
(* the one the next Put takes.                                             *)
(***************************************************************************)
THEOREM DeleteSound ==
  ASSUME Dimensions, NEW b, Sound(b), NEW pos \in 0 .. b.entries - 1
  PROVE  LET after == C!B!Delete(b, pos)
         IN  /\ Sound(after)
             /\ C!B!NextSlot(after) = b.index[pos]
             /\ \A r \in 0 .. pos - 1 : C!B!Rec(after, r) = C!B!Rec(b, r)
             /\ \A r \in pos .. after.entries - 1 : C!B!Rec(after, r) = C!B!Rec(b, r + 1)
<1> DEFINE after == C!B!Delete(b, pos)
<1>1. b \in Buffers
  BY DEF Sound
<1>2. b.entries \in Nat /\ b.entries <= Slots /\ Slots \in Nat /\ b.index \in Header
      /\ \A r : r \in C!B!Ranks <=> r \in Nat /\ r < Slots
  BY <1>1, Places
<1>3. pos \in C!B!Ranks /\ 1 \in 1 .. b.entries - pos /\ 1 \in 0 .. Slots - pos
      /\ Slots - 1 \in C!B!Ranks
  BY <1>2
<1>4. after = [entries |-> b.entries - 1, index |-> C!B!RotateDown(b.index, pos, 1),
               recs |-> b.recs]
  <2>1. b = [entries |-> b.entries, index |-> b.index, recs |-> b.recs]
    BY <1>1 DEF Buffers
  <2>2. after = [[entries |-> b.entries, index |-> b.index, recs |-> b.recs] EXCEPT
                   !.entries = b.entries - 1, !.index = C!B!RotateDown(b.index, pos, 1)]
    BY <2>1, Zenon DEF C!B!Delete
  <2>3. QED
    BY <2>2
<1>5. C!B!RotateDown(b.index, pos, 1)[Slots - 1] = b.index[pos]
  <2>1. C!B!RotateDown(b.index, pos, 1)[Slots - 1]
          = IF Slots - 1 < pos THEN b.index[Slots - 1]
            ELSE IF Slots - 1 + 1 < Slots THEN b.index[Slots - 1 + 1]
            ELSE b.index[Slots - 1 + 1 - Slots + pos]
    BY <1>2, <1>3, RotateDownBy
  <2>2. ~ Slots - 1 < pos /\ ~ Slots - 1 + 1 < Slots /\ Slots - 1 + 1 - Slots + pos = pos
    BY <1>2, <1>3
  <2>3. QED
    BY <2>1, <2>2
<1> HIDE DEF after
<1>6. /\ Sound(after)
      /\ \A r \in 0 .. pos - 1 : C!B!Rec(after, r) = C!B!Rec(b, r)
      /\ \A r \in pos .. after.entries - 1 : C!B!Rec(after, r) = C!B!Rec(b, r + 1)
  BY <1>3, <1>4, TakenOutSound
<1>7. QED
  BY <1>4, <1>5, <1>6 DEF C!B!NextSlot, after

(***************************************************************************)
(* DeleteData after a split: the ranks below start stay, and nothing else. *)
(***************************************************************************)
THEOREM DeleteDataSound ==
  ASSUME Dimensions, NEW b, Sound(b), NEW start \in 0 .. b.entries - 1
  PROVE  LET after == C!B!DeleteData(b, start)
         IN  /\ Sound(after)
             /\ after.entries = start
             /\ \A r \in 0 .. start - 1 : C!B!Rec(after, r) = C!B!Rec(b, r)
<1> DEFINE after == C!B!DeleteData(b, start)
<1>1. b \in Buffers
  BY DEF Sound
<1>2. b.entries \in Nat
  BY <1>1, Places
<1>3. b.entries - start \in 1 .. b.entries - start /\ b.entries - (b.entries - start) = start
  BY <1>2
<1>4. after = [entries |-> b.entries - (b.entries - start),
               index |-> C!B!RotateDown(b.index, start, b.entries - start), recs |-> b.recs]
  <2>1. b = [entries |-> b.entries, index |-> b.index, recs |-> b.recs]
    BY <1>1 DEF Buffers
  <2>2. after = [[entries |-> b.entries, index |-> b.index, recs |-> b.recs] EXCEPT
                   !.entries = start, !.index = C!B!RotateDown(b.index, start, b.entries - start)]
    BY <2>1, Zenon DEF C!B!DeleteData
  <2>3. QED
    BY <1>3, <2>2
<1> HIDE DEF after
<1>5. Sound(after) /\ \A r \in 0 .. start - 1 : C!B!Rec(after, r) = C!B!Rec(b, r)
  BY <1>3, <1>4, TakenOutSound
<1>6. QED
  BY <1>3, <1>4, <1>5 DEF after

(***************************************************************************)
(* CopyData of a split: the new buffer holds the ranks from start on, in   *)
(* their order; with DeleteDataSound, every pair is in one of the two.     *)
(***************************************************************************)
THEOREM CopyDataSound ==
  ASSUME Dimensions, NEW b, Sound(b), NEW start \in 0 .. b.entries - 1
  PROVE  LET after == C!B!CopyData(b, start)
         IN  /\ Sound(after)
             /\ after.entries = b.entries - start
             /\ \A r \in 0 .. after.entries - 1 : C!B!Rec(after, r) = C!B!Rec(b, start + r)
<1> DEFINE after == C!B!CopyData(b, start)
           m == b.entries
           n == b.entries - start
<1>1. b \in Buffers
  BY DEF Sound
<1>2. /\ Slots \in Nat /\ MaxEntries \in Nat /\ MaxEntries <= Slots
      /\ m \in Nat /\ m <= MaxEntries
      /\ \A r : r \in C!B!Ranks <=> r \in Nat /\ r < Slots
      /\ b.index \in Header
      /\ b.recs \in [C!B!Ranks -> [key : Nat, value : Nat]]
  BY <1>1, Places
<1>3. start \in Nat /\ start < m /\ n \in Nat /\ 0 < n /\ n <= m /\ n <= Slots
  BY <1>2
<1>4. ASSUME NEW r \in C!B!Ranks
      PROVE  /\ C!B!RotateUp(C!B!Blank.index, 0, n)[r] = IF r < n THEN n - 1 - r ELSE Slots - 1 - r + n
             /\ C!B!RotateUp(C!B!Blank.index, 0, n)[r] \in C!B!Ranks
  <2>1. r \in Nat /\ r < Slots /\ ~ r < 0 /\ Slots \in Nat \ {0}
    BY <1>2
  <2>2. C!B!RotateUp(C!B!Blank.index, 0, n)[r] = C!B!Blank.index[0 + ((r - 0 + (Slots - 0) - n) % (Slots - 0))]
    BY <2>1 DEF C!B!RotateUp
  <2>3. 0 + ((r - 0 + (Slots - 0) - n) % (Slots - 0)) = (r + Slots - n) % Slots
    <3>1. r - 0 + (Slots - 0) - n = r + Slots - n /\ Slots - 0 = Slots
      BY <1>3, <2>1
    <3>2. r + Slots - n \in Nat
      BY <1>3, <2>1
    <3>3. (r + Slots - n) % Slots \in Int
      BY <2>1, <3>2
    <3>4. QED
      BY <3>1, <3>3
  <2>4. \A x \in C!B!Ranks : C!B!Blank.index[x] = Slots - 1 - x
    BY DEF C!B!Blank
  <2>5. CASE r < n
    <3>1. r + Slots - n \in 0 .. Slots - 1
      BY <1>3, <2>1, <2>5
    <3>2. (r + Slots - n) % Slots = r + Slots - n /\ r + Slots - n \in C!B!Ranks
      BY <2>1, <3>1, Remainder DEF C!B!Ranks
    <3>3. Slots - 1 - (r + Slots - n) = n - 1 - r /\ n - 1 - r \in C!B!Ranks
      BY <1>2, <1>3, <2>1, <2>5
    <3>4. QED
      BY <2>2, <2>3, <2>4, <2>5, <3>2, <3>3
  <2>6. CASE ~ r < n
    <3>1. r - n \in 0 .. Slots - 1 /\ r + Slots - n = (r - n) + Slots
      BY <1>3, <2>1, <2>6
    <3>2. (r + Slots - n) % Slots = r - n /\ r - n \in C!B!Ranks
      BY <2>1, <3>1, Remainder DEF C!B!Ranks
    <3>3. Slots - 1 - (r - n) = Slots - 1 - r + n /\ Slots - 1 - r + n \in C!B!Ranks
      BY <1>2, <1>3, <2>1, <2>6
    <3>4. QED
      BY <2>2, <2>3, <2>4, <2>6, <3>2, <3>3
  <2>7. QED
    BY <2>5, <2>6
<1>5. /\ after.entries = n
      /\ after.index \in Header
      /\ \A r \in C!B!Ranks : after.index[r] = IF r < n THEN n - 1 - r ELSE Slots - 1 - r + n
      /\ \A s \in C!B!Ranks : after.recs[s] = IF s < n THEN C!B!Rec(b, m - 1 - s)
                                          ELSE [key |-> 0, value |-> 0]
  <2>1. after = [entries |-> n, index |-> C!B!RotateUp(C!B!Blank.index, 0, n),
                 recs |-> [s \in C!B!Ranks |-> IF s < n THEN C!B!Rec(b, m - 1 - s)
                                           ELSE C!B!Blank.recs[s]]]
    BY DEF C!B!CopyData
  <2>2. C!B!RotateUp(C!B!Blank.index, 0, n) \in Header
    BY <1>4 DEF Header, C!B!RotateUp
  <2>3. \A s \in C!B!Ranks : C!B!Blank.recs[s] = [key |-> 0, value |-> 0]
    BY DEF C!B!Blank
  <2> HIDE DEF after
  <2>4. QED
    BY <1>4, <2>1, <2>2, <2>3
<1>6. \A r \in 0 .. m - 1 : C!B!Rec(b, r) \in [key : Nat, value : Nat]
  <2>1. \A r \in 0 .. m - 1 : r \in C!B!Ranks
    BY <1>2
  <2>2. QED
    BY <1>2, <2>1 DEF C!B!Rec, Header
<1>7. after \in Buffers
  <2>1. after = [entries |-> after.entries, index |-> after.index, recs |-> after.recs]
        /\ after.recs = [s \in C!B!Ranks |-> after.recs[s]]
    BY DEF C!B!CopyData
  <2> HIDE DEF after
  <2>2. ASSUME NEW s \in C!B!Ranks PROVE after.recs[s] \in [key : Nat, value : Nat]
    <3>1. s < n => m - 1 - s \in 0 .. m - 1
      BY <1>2, <1>3
    <3>2. QED
      BY <1>5, <1>6, <3>1
  <2>3. after.recs \in [C!B!Ranks -> [key : Nat, value : Nat]]
    BY <2>1, <2>2
  <2>4. after.entries \in 0 .. MaxEntries
    BY <1>2, <1>3, <1>5
  <2>5. QED
    BY <1>5, <2>1, <2>3, <2>4 DEF Buffers
<1> HIDE DEF after
<1>8. NoSlotTwice(after.index)
  <2>1. ASSUME NEW r \in C!B!Ranks, NEW s \in C!B!Ranks, after.index[r] = after.index[s] PROVE r = s
    <3>1. r \in Nat /\ r < Slots /\ s \in Nat /\ s < Slots
      BY <1>2
    <3>2. after.index[r] = (IF r < n THEN n - 1 - r ELSE Slots - 1 - r + n)
          /\ after.index[s] = (IF s < n THEN n - 1 - s ELSE Slots - 1 - s + n)
      BY <1>5
    <3>3. Slots \in Int /\ m \in Int /\ n \in Int /\ start \in Int /\ r \in Int /\ s \in Int
      BY <1>2, <1>3, <3>1
    <3>4. CASE r < n /\ s < n
      <4>1. n - 1 - r = n - 1 - s
        BY <2>1, <3>2, <3>4
      <4>2. QED
        BY <3>3, <4>1
    <3>5. CASE ~ r < n /\ ~ s < n
      <4>1. Slots - 1 - r + n = Slots - 1 - s + n
        BY <2>1, <3>2, <3>5
      <4>2. QED
        BY <3>3, <4>1
    <3>6. CASE r < n /\ ~ s < n
      <4>1. n - 1 - r < n /\ ~ Slots - 1 - s + n < n
        BY <3>1, <3>3, <3>6
      <4>2. QED
        BY <2>1, <3>2, <3>6, <4>1
    <3>7. CASE ~ r < n /\ s < n
      <4>1. n - 1 - s < n /\ ~ Slots - 1 - r + n < n
        BY <3>1, <3>3, <3>7
      <4>2. QED
        BY <2>1, <3>2, <3>7, <4>1
    <3>8. QED
      BY <3>4, <3>5, <3>6, <3>7
  <2>2. QED
    BY <2>1 DEF NoSlotTwice
<1>9. FarSlotsLast(after)
  <2>1. ASSUME NEW r \in C!B!Ranks
        PROVE  after.index[r] >= MaxEntries <=> r \in n .. n + Slots - MaxEntries - 1
    <3>1. r \in Nat /\ r < Slots
      BY <1>2
    <3>2. after.index[r] = IF r < n THEN n - 1 - r ELSE Slots - 1 - r + n
      BY <1>5
    <3>3. QED
      BY <1>2, <1>3, <3>1, <3>2
  <2>2. QED
    BY <1>5, <2>1 DEF FarSlotsLast
<1>10. ASSUME NEW r \in 0 .. n - 1
       PROVE  C!B!Rec(after, r) = C!B!Rec(b, start + r) /\ start + r \in 0 .. m - 1
  <2>1. r \in C!B!Ranks /\ r < n /\ n - 1 - r \in C!B!Ranks /\ n - 1 - r < n
        /\ m - 1 - (n - 1 - r) = start + r /\ start + r \in 0 .. m - 1
    BY <1>2, <1>3
  <2>2. after.index[r] = n - 1 - r
    BY <1>5, <2>1
  <2>3. after.recs[n - 1 - r] = C!B!Rec(b, m - 1 - (n - 1 - r))
    BY <1>5, <2>1
  <2>4. QED
    BY <2>1, <2>2, <2>3 DEF C!B!Rec
<1>11. KeysAscend(after)
  <2>1. ASSUME NEW r \in 0 .. n - 1, NEW s \in 0 .. n - 1, r < s
        PROVE  C!B!Rec(after, r).key < C!B!Rec(after, s).key
    <3>1. \A x, y \in 0 .. m - 1 : x < y => C!B!Rec(b, x).key < C!B!Rec(b, y).key
      BY DEF Sound, KeysAscend
    <3>2. start + r < start + s
      BY <1>3, <2>1
    <3>3. QED
      BY <1>10, <3>1, <3>2
  <2>2. QED
    BY <1>5, <2>1 DEF KeysAscend
<1>12. QED
  BY <1>5, <1>7, <1>8, <1>9, <1>10, <1>11 DEF Sound, after

(***************************************************************************)
(* Update of the pair at a rank: its value alone changes.                  *)
(***************************************************************************)
THEOREM UpdateSound ==
  ASSUME Dimensions, NEW b, Sound(b), NEW pos \in 0 .. b.entries - 1, NEW value \in Nat
  PROVE  LET after == C!B!Update(b, pos, value)
         IN  /\ Sound(after)
             /\ after.entries = b.entries
             /\ C!B!Rec(after, pos) = [key |-> C!B!Rec(b, pos).key, value |-> value]
             /\ \A r \in 0 .. b.entries - 1 : r # pos => C!B!Rec(after, r) = C!B!Rec(b, r)
<1> DEFINE after == C!B!Update(b, pos, value)
           m == b.entries
<1>1. b \in Buffers
  BY DEF Sound
<1>2. /\ Slots \in Nat /\ MaxEntries \in Nat /\ MaxEntries <= Slots
      /\ m \in Nat /\ m <= MaxEntries
      /\ \A r : r \in C!B!Ranks <=> r \in Nat /\ r < Slots
      /\ b.index \in Header
      /\ b.recs \in [C!B!Ranks -> [key : Nat, value : Nat]]
  BY <1>1, Places
<1>3. after = [entries |-> m, index |-> b.index,
               recs |-> [s \in C!B!Ranks |-> [key   |-> b.recs[s].key,
                                          value |-> IF s = b.index[pos] THEN value
                                                    ELSE b.recs[s].value]]]
  <2>1. b = [entries |-> m, index |-> b.index, recs |-> b.recs]
    BY <1>1 DEF Buffers
  <2>2. QED
    BY <2>1, SMTT(60) DEF C!B!Update
<1> HIDE DEF after
<1>4. \A s \in C!B!Ranks : b.recs[s].key \in Nat /\ b.recs[s].value \in Nat
                       /\ b.recs[s] = [key |-> b.recs[s].key, value |-> b.recs[s].value]
  BY <1>2
<1>5. \A r \in 0 .. m - 1 : r \in C!B!Ranks /\ b.index[r] \in C!B!Ranks
  <2>1. \A r \in 0 .. m - 1 : r \in C!B!Ranks
    BY <1>2
  <2>2. QED
    BY <1>2, <2>1 DEF Header
<1>6. \A r \in 0 .. m - 1 : C!B!Rec(after, r) = [key   |-> C!B!Rec(b, r).key,
                                             value |-> IF b.index[r] = b.index[pos] THEN value
                                                       ELSE C!B!Rec(b, r).value]
  BY <1>3, <1>5 DEF C!B!Rec
<1>7. after \in Buffers
  <2>1. after.recs \in [C!B!Ranks -> [key : Nat, value : Nat]]
    BY <1>3, <1>4
  <2>2. QED
    BY <1>2, <1>3, <2>1 DEF Buffers
<1>8. NoSlotTwice(after.index) /\ FarSlotsLast(after)
  BY <1>3 DEF Sound, NoSlotTwice, FarSlotsLast
<1>9. KeysAscend(after)
  <2>1. \A x, y \in 0 .. m - 1 : x < y => C!B!Rec(b, x).key < C!B!Rec(b, y).key
    BY DEF Sound, KeysAscend
  <2>2. \A x \in 0 .. m - 1 : C!B!Rec(after, x).key = C!B!Rec(b, x).key
    BY <1>6
  <2>3. after.entries = m
    BY <1>3
  <2>4. QED
    BY <2>1, <2>2, <2>3 DEF KeysAscend
<1>10. \A r \in 0 .. m - 1 : r # pos => b.index[r] # b.index[pos]
  BY <1>5 DEF Sound, NoSlotTwice
<1>11. \A r \in 0 .. m - 1 : r # pos => C!B!Rec(after, r) = C!B!Rec(b, r)
  BY <1>4, <1>5, <1>6, <1>10 DEF C!B!Rec
<1>12. after.entries = m /\ C!B!Rec(after, pos) = [key |-> C!B!Rec(b, pos).key, value |-> value]
  BY <1>3, <1>6
<1>13. QED
  BY <1>7, <1>8, <1>9, <1>11, <1>12 DEF Sound, after

(***************************************************************************)
(* FromKVBuffer: of the slots of an unsorted buffer and their ranks in key *)
(* order (GetSortedIndex), a sound buffer with the same pairs.             *)
(***************************************************************************)
THEOREM FromKVBufferSound ==
  ASSUME Dimensions, NEW n \in 0 .. MaxEntries, NEW slots, NEW sorted,
         \A s \in 0 .. n - 1 : slots[s] \in [key : Nat, value : Nat],
         \A i \in 1 .. n : sorted[i] \in 0 .. n - 1,
         \A i, j \in 1 .. n : i < j => slots[sorted[i]].key < slots[sorted[j]].key
  PROVE  LET b == C!B!FromKVBuffer(n, slots, sorted)
         IN  /\ Sound(b)
             /\ b.entries = n
             /\ \A r \in 0 .. n - 1 : C!B!Rec(b, r) = slots[sorted[r + 1]]
<1> DEFINE b == C!B!FromKVBuffer(n, slots, sorted)
<1>1. /\ Slots \in Nat /\ MaxEntries \in Nat /\ MaxEntries <= Slots /\ n \in Nat /\ n <= MaxEntries
      /\ \A r : r \in C!B!Ranks <=> r \in Nat /\ r < Slots
  BY DEF Dimensions, C!B!Ranks
<1>2. /\ b = [entries |-> n, index |-> b.index, recs |-> b.recs]
      /\ b.index = [r \in C!B!Ranks |-> IF r < n THEN sorted[r + 1] ELSE Slots - 1 + n - r]
      /\ b.recs = [s \in C!B!Ranks |-> IF s < n THEN slots[s] ELSE C!B!Blank.recs[s]]
  BY DEF C!B!FromKVBuffer
<1> HIDE DEF b
<1>3. ASSUME NEW r \in C!B!Ranks
      PROVE  /\ r < n => b.index[r] = sorted[r + 1] /\ r + 1 \in 1 .. n
                         /\ b.index[r] \in 0 .. n - 1
             /\ ~ r < n => b.index[r] = Slots - 1 + n - r
             /\ b.index[r] \in C!B!Ranks
  <2>1. r \in Nat /\ r < Slots
    BY <1>1
  <2>2. CASE r < n
    <3>1. r + 1 \in 1 .. n
      BY <1>1, <2>1, <2>2
    <3>2. b.index[r] = sorted[r + 1] /\ b.index[r] \in 0 .. n - 1
      BY <1>2, <2>2, <3>1
    <3>3. QED
      BY <1>1, <2>2, <3>1, <3>2
  <2>3. CASE ~ r < n
    <3>1. Slots - 1 + n - r \in C!B!Ranks
      BY <1>1, <2>1, <2>3
    <3>2. QED
      BY <1>2, <2>3, <3>1
  <2>4. QED
    BY <2>2, <2>3
<1>4. b \in Buffers
  <2>1. b.index \in Header
    BY <1>2, <1>3 DEF Header
  <2>2. ASSUME NEW s \in C!B!Ranks PROVE b.recs[s] \in [key : Nat, value : Nat]
    <3>1. s < n => s \in 0 .. n - 1
      BY <1>1
    <3>2. C!B!Blank.recs[s] = [key |-> 0, value |-> 0]
      BY DEF C!B!Blank
    <3>3. QED
      BY <1>2, <3>1, <3>2
  <2>3. b.recs \in [C!B!Ranks -> [key : Nat, value : Nat]]
    BY <1>2, <2>2
  <2>4. QED
    BY <1>2, <2>1, <2>3 DEF Buffers
<1>5. ASSUME NEW i \in 1 .. n, NEW j \in 1 .. n, sorted[i] = sorted[j] PROVE i = j
  <2>1. ASSUME NEW x \in 1 .. n, NEW y \in 1 .. n, sorted[x] = sorted[y] PROVE ~ x < y
    <3>1. slots[sorted[y]].key \in Nat
      OBVIOUS
    <3>2. ~ slots[sorted[y]].key < slots[sorted[y]].key
      BY <3>1
    <3>3. QED
      BY <2>1, <3>2
  <2>2. ~ i < j /\ ~ j < i
    BY <1>5, <2>1
  <2>3. QED
    BY <1>1, <2>2
<1>6. NoSlotTwice(b.index)
  <2>1. ASSUME NEW r \in C!B!Ranks, NEW s \in C!B!Ranks, b.index[r] = b.index[s] PROVE r = s
    <3>1. r \in Nat /\ r < Slots /\ s \in Nat /\ s < Slots
      BY <1>1
    <3>2. CASE r < n /\ s < n
      <4>1. r + 1 = s + 1
        BY <1>3, <1>5, <2>1, <3>2
      <4>2. QED
        BY <3>1, <4>1
    <3>3. CASE ~ r < n /\ ~ s < n
      <4>1. Slots - 1 + n - r = Slots - 1 + n - s
        BY <1>3, <2>1, <3>3
      <4>2. QED
        BY <1>1, <3>1, <4>1
    <3>4. ASSUME NEW x \in C!B!Ranks, NEW y \in C!B!Ranks, x < n, ~ y < n
          PROVE  b.index[x] # b.index[y]
      <4>1. b.index[x] < n
        BY <1>1, <1>3, <3>4
      <4>2. ~ Slots - 1 + n - y < n
        BY <1>1, <3>4
      <4>3. QED
        BY <1>3, <3>4, <4>1, <4>2
    <3>5. QED
      BY <2>1, <3>2, <3>3, <3>4
  <2>2. QED
    BY <2>1 DEF NoSlotTwice
<1>7. FarSlotsLast(b)
  <2>1. ASSUME NEW r \in C!B!Ranks
        PROVE  b.index[r] >= MaxEntries <=> r \in n .. n + Slots - MaxEntries - 1
    <3>1. r \in Nat /\ r < Slots
      BY <1>1
    <3>2. CASE r < n
      <4>1. b.index[r] \in 0 .. n - 1
        BY <1>3, <3>2
      <4>2. ~ b.index[r] >= MaxEntries /\ r \notin n .. n + Slots - MaxEntries - 1
        BY <1>1, <3>1, <3>2, <4>1
      <4>3. QED
        BY <4>2
    <3>3. CASE ~ r < n
      <4>1. Slots - 1 + n - r >= MaxEntries <=> r \in n .. n + Slots - MaxEntries - 1
        BY <1>1, <3>1, <3>3
      <4>2. QED
        BY <1>3, <3>3, <4>1
    <3>4. QED
      BY <3>2, <3>3
  <2>2. QED
    BY <1>2, <2>1 DEF FarSlotsLast
<1>8. ASSUME NEW r \in 0 .. n - 1
      PROVE  C!B!Rec(b, r) = slots[sorted[r + 1]] /\ r + 1 \in 1 .. n /\ b.entries = n
  <2>1. r \in C!B!Ranks /\ r < n
    BY <1>1
  <2>2. b.index[r] = sorted[r + 1] /\ b.index[r] \in C!B!Ranks /\ b.index[r] < n
    BY <1>1, <1>3, <2>1
  <2>3. b.recs[b.index[r]] = slots[sorted[r + 1]]
    BY <1>2, <2>2
  <2>4. QED
    BY <1>2, <1>3, <2>1, <2>3 DEF C!B!Rec
<1>9. KeysAscend(b)
  <2>1. ASSUME NEW r \in 0 .. n - 1, NEW s \in 0 .. n - 1, r < s
        PROVE  C!B!Rec(b, r).key < C!B!Rec(b, s).key
    <3>1. r + 1 < s + 1
      BY <1>1, <2>1
    <3>2. QED
      BY <1>8, <3>1
  <2>2. b.entries = n
    BY <1>2
  <2>3. QED
    BY <2>1, <2>2 DEF KeysAscend
<1>10. b.entries = n
  BY <1>2
<1>11. QED
  BY <1>4, <1>6, <1>7, <1>8, <1>9, <1>10 DEF Sound, b


-----------------------------------------------------------------------------
(* Numbers *)

(* Two heights that are one above the same one. *)
LEMMA SameNumber ==
  ASSUME NEW h, NEW m \in Nat, NEW n \in Nat, h = m - 1, h = n - 1
  PROVE  m = n
OBVIOUS

(* Two spans around a third one that is not empty. *)
LEMMA NoGap ==
  ASSUME NEW lo \in Nat, NEW hi \in Nat, NEW lo1 \in Nat, NEW hi1 \in Nat, NEW lo2 \in Nat, NEW hi2 \in Nat,
         lo1 <= lo, lo < hi, hi <= hi1, lo2 <= lo, hi <= hi2
  PROVE  ~ (hi1 <= lo2) /\ ~ (hi2 <= lo1)
OBVIOUS

(* A key that is neither the same nor greater. *)
LEMMA Smaller ==
  ASSUME NEW k \in Nat, NEW l \in Nat, k # l, ~ (k < l)
  PROVE  l < k
OBVIOUS

(* The nodes after one more than N. *)
LEMMA OneMore ==
  ASSUME NEW N \in Nat, NEW n, NEW parent
  PROVE  \A m \in 1 .. N + 1 : m = N + 1 \/ m = n \/ m = parent \/ (m \in 1 .. N /\ m # n /\ m # parent)
OBVIOUS

(* Where an index of e entries is cut. *)
LEMMA HalfAbove ==
  ASSUME NEW e \in Nat, e >= 3
  PROVE  LET half == (e + 1) \div 2
         IN  half \in 2 .. e - 1 /\ half < e /\ half - 1 < e /\ e - half < e
OBVIOUS

(* The ranks around the cut. *)
LEMMA PartOf ==
  ASSUME NEW e \in Nat, NEW half \in 2 .. e - 1
  PROVE  half \in 0 .. e - 1 /\ half - 1 \in 0 .. e - 1 /\ half \in Nat /\ e - half \in Nat
OBVIOUS

(* A rank of the lower part, and one of the upper part. *)
LEMMA LowerRank ==
  ASSUME NEW e \in Nat, NEW half \in 2 .. e - 1, NEW r \in 0 .. half - 2
  PROVE  r \in 0 .. e - 1 /\ r < half - 1
OBVIOUS

LEMMA UpperRank ==
  ASSUME NEW e \in Nat, NEW half \in 0 .. e - 1, NEW r \in 0 .. e - half - 1
  PROVE  half + r \in 0 .. e - 1 /\ (r = 0 \/ half < half + r) /\ half + 0 = half
OBVIOUS

-----------------------------------------------------------------------------
(* Searches in a buffer *)

(* What the assumption on the constants says of the sizes. *)
LEMMA Sizes ==
  /\ Dimensions /\ Slots \in Nat /\ MaxEntries \in Nat /\ MaxEntries >= 3 /\ MaxEntries <= Slots
  /\ MaxKey \in Nat /\ Keys = 1 .. MaxKey /\ C!B!Ranks = 0 .. Slots - 1
BY BEntryAssumption DEF Dimensions, Keys, C!B!Ranks

(* The pairs of a sound buffer. *)
LEMMA BufferParts ==
  ASSUME NEW b, Sound(b)
  PROVE  /\ b.entries \in Nat /\ b.entries \in 0 .. MaxEntries /\ b.entries <= Slots
         /\ \A r \in 0 .. b.entries - 1 : C!B!Rec(b, r) \in [key : Nat, value : Nat]
         /\ \A r \in 0 .. b.entries - 1 : C!B!Rec(b, r).key \in Nat /\ C!B!Rec(b, r).value \in Nat
         /\ \A r, s \in 0 .. b.entries - 1 : r < s => C!B!Rec(b, r).key < C!B!Rec(b, s).key
<1>1. /\ b \in Buffers /\ b.entries \in 0 .. MaxEntries /\ b.index \in [C!B!Ranks -> C!B!Ranks]
      /\ b.recs \in [C!B!Ranks -> [key : Nat, value : Nat]]
  BY DEF Sound, Buffers, Header
<1>2. b.entries \in Nat /\ b.entries <= Slots
  BY <1>1, Sizes
<1>3. ASSUME NEW r \in 0 .. b.entries - 1 PROVE C!B!Rec(b, r) \in [key : Nat, value : Nat]
  <2>1. r \in C!B!Ranks
    BY <1>2, Sizes
  <2>2. b.index[r] \in C!B!Ranks
    BY <1>1, <2>1
  <2>3. QED
    BY <1>1, <2>2 DEF C!B!Rec
<1>4. \A r \in 0 .. b.entries - 1 : C!B!Rec(b, r).key \in Nat /\ C!B!Rec(b, r).value \in Nat
  BY <1>3
<1>5. QED
  BY <1>1, <1>2, <1>3, <1>4 DEF Sound, KeysAscend

(* The keys of a buffer in the order of the ranks. *)
KeyList(b) == [r \in 0 .. Slots - 1 |-> C!B!Rec(b, r).key]

(* Find is the search over the keys of the ranks. *)
LEMMA FindIs ==
  ASSUME NEW b, NEW k
  PROVE  \E f : Searches(f, KeyList(b), Slots, k) /\ C!B!Find(b, k) = f[<<0, b.entries - 1>>]
<1> DEFINE ks == KeyList(b)
           Body(f, range) == LET l == range[1]
                                 r == range[2]
                                 m == (l + r) \div 2
                                 mk == C!B!Rec(b, m).key
                             IN  IF l > r THEN [pos |-> l, exist |-> FALSE]
                                 ELSE IF mk = k THEN [pos |-> m, exist |-> TRUE]
                                 ELSE IF mk > k THEN f[<<l, m - 1>>] ELSE f[<<m + 1, r>>]
           P(f) == f = [range \in Spans(Slots) |-> Body(f, range)]
<1>1. ASSUME NEW f, NEW range \in Spans(Slots) PROVE Body(f, range) = SearchTurn(f, ks, k, range)
  <2>1. Slots \in Nat
    BY Sizes
  <2>2. CASE range[1] > range[2]
    BY <2>2 DEF SearchTurn
  <2>3. CASE ~ (range[1] > range[2])
    <3>1. (range[1] + range[2]) \div 2 \in 0 .. Slots - 1
      BY <2>1, <2>3, SpanParts, SpanHalves
    <3>2. ks[(range[1] + range[2]) \div 2] = C!B!Rec(b, (range[1] + range[2]) \div 2).key
      BY <3>1 DEF KeyList
    <3> HIDE DEF ks
    <3>3. QED
      BY <2>3, <3>2 DEF SearchTurn
  <2>4. QED
    BY <2>2, <2>3
<1> HIDE DEF ks, Body
<1>2. \A f : P(f) <=> Searches(f, ks, Slots, k)
  <2>1. ASSUME NEW f
        PROVE  [range \in Spans(Slots) |-> Body(f, range)]
                 = [range \in Spans(Slots) |-> SearchTurn(f, ks, k, range)]
    BY <1>1
  <2>2. QED
    BY <2>1 DEF Searches
<1>3. \E f : P(f)
  BY <1>2, Sizes, SearchExists
<1>4. P(CHOOSE f : P(f))
  <2> HIDE DEF P
  <2>1. QED
    BY <1>3
<1>5. C!B!Find(b, k) = (CHOOSE f : P(f))[<<0, b.entries - 1>>]
  BY DEF C!B!Find, Spans, Body
<1> HIDE DEF P
<1>6. Searches(CHOOSE f : P(f), ks, Slots, k)
  BY <1>2, <1>4
<1>7. QED
  BY <1>5, <1>6 DEF ks

(* Find finds what is there, or the rank to put it at. *)
LEMMA FindFinds ==
  ASSUME NEW b, Sound(b), NEW k \in Int
  PROVE  LET t == C!B!Find(b, k)
         IN  /\ t.exist \in BOOLEAN
             /\ t.exist => t.pos \in 0 .. b.entries - 1 /\ C!B!Rec(b, t.pos).key = k
             /\ ~ t.exist => /\ t.pos \in 0 .. b.entries
                             /\ \A r \in 0 .. b.entries - 1 : /\ r < t.pos => C!B!Rec(b, r).key < k
                                                              /\ r >= t.pos => C!B!Rec(b, r).key > k
<1> DEFINE n == b.entries
           ks == KeyList(b)
<1>1. /\ n \in 0 .. Slots /\ Slots \in Nat /\ n \in Nat
      /\ \A r \in 0 .. n - 1 : C!B!Rec(b, r).key \in Int
      /\ \A r, s \in 0 .. n - 1 : r < s => C!B!Rec(b, r).key < C!B!Rec(b, s).key
  BY BufferParts, Sizes
<1>2. PICK f : Searches(f, ks, Slots, k) /\ C!B!Find(b, k) = f[<<0, n - 1>>]
  BY FindIs
<1>3. \A r \in 0 .. n - 1 : ks[r] = C!B!Rec(b, r).key
  BY <1>1 DEF KeyList
<1> HIDE DEF ks, n
<1>4. /\ \A r \in 0 .. n - 1 : ks[r] \in Int
      /\ \A r, s \in 0 .. n - 1 : r < s => ks[r] < ks[s]
  BY <1>1, <1>3
<1>5. Sought(f[<<0, n - 1>>], ks, n, k)
  BY <1>1, <1>2, <1>4, SearchFinds
<1>6. QED
  BY <1>2, <1>3, <1>5 DEF Sought, n

(* FindLE: the last rank whose key is not above k. *)
LEMMA FindLEIs ==
  ASSUME NEW b, Sound(b), NEW k \in Int
  PROVE  LET p == C!B!FindLE(b, k)
         IN  /\ p \in -1 .. b.entries - 1
             /\ \A r \in 0 .. p : C!B!Rec(b, r).key <= k
             /\ \A r \in p + 1 .. b.entries - 1 : C!B!Rec(b, r).key > k
<1> DEFINE n == b.entries
           above == {r \in 0 .. n - 1 : C!B!Rec(b, r).key > k}
<1>1. /\ n \in Nat
      /\ \A r \in 0 .. n - 1 : C!B!Rec(b, r).key \in Int
      /\ \A r, s \in 0 .. n - 1 : r < s => C!B!Rec(b, r).key < C!B!Rec(b, s).key
  BY BufferParts
<1>2. C!B!FindLE(b, k) = IF above = {} THEN n - 1
                         ELSE (CHOOSE r \in above : \A q \in above : r <= q) - 1
  BY DEF C!B!FindLE
<1> HIDE DEF n
<1>3. CASE above = {}
  <2>1. C!B!FindLE(b, k) = n - 1
    BY <1>2, <1>3
  <2>2. \A r \in 0 .. n - 1 : C!B!Rec(b, r).key <= k
    BY <1>1, <1>3
  <2>3. QED
    BY <1>1, <2>1, <2>2 DEF n
<1>4. CASE above # {}
  <2> DEFINE c == CHOOSE r \in above : \A q \in above : r <= q
  <2>1. \E r \in above : \A q \in above : r <= q
    <3>1. above \in SUBSET Nat
      BY <1>1
    <3>2. QED
      BY <1>4, <3>1, Least
  <2>2. c \in above /\ \A q \in above : c <= q
    <3> HIDE DEF above
    <3>1. QED
      BY <2>1
  <2>3. C!B!FindLE(b, k) = c - 1
    BY <1>2, <1>4
  <2> HIDE DEF c
  <2>4. c \in 0 .. n - 1 /\ C!B!Rec(b, c).key > k
    BY <2>2
  <2>5. \A r \in 0 .. c - 1 : C!B!Rec(b, r).key <= k
    BY <1>1, <2>2, <2>4
  <2>6. \A r \in c .. n - 1 : C!B!Rec(b, r).key > k
    BY <1>1, <2>4
  <2>7. c - 1 \in -1 .. n - 1 /\ (c - 1) + 1 = c
    BY <1>1, <2>4
  <2>8. QED
    BY <2>3, <2>5, <2>6, <2>7 DEF n
<1>5. QED
  BY <1>3, <1>4

(* Put of an absent key, at the rank that Find returns. *)
LEMMA PutIs ==
  ASSUME NEW b, Sound(b), b.entries < MaxEntries, NEW k \in Nat, NEW v \in Nat,
         ~ C!B!Find(b, k).exist
  PROVE  LET p == C!B!Find(b, k).pos
             a == C!B!Put(b, p, k, v)
         IN  /\ Sound(a) /\ a.entries = b.entries + 1 /\ p \in 0 .. b.entries
             /\ \A r \in 0 .. b.entries :
                  C!B!Rec(a, r) = IF r < p THEN C!B!Rec(b, r)
                                  ELSE IF r = p THEN [key |-> k, value |-> v]
                                  ELSE C!B!Rec(b, r - 1)
             /\ \A r \in 0 .. b.entries - 1 : (r < p => C!B!Rec(b, r).key < k)
                                              /\ (r >= p => k < C!B!Rec(b, r).key)
<1> DEFINE p == C!B!Find(b, k).pos
           a == C!B!Put(b, p, k, v)
           n == b.entries
<1>1. /\ n \in Nat
      /\ \A r \in 0 .. n - 1 : C!B!Rec(b, r).key \in Int
  BY BufferParts
<1>2. /\ p \in 0 .. n
      /\ \A r \in 0 .. n - 1 : /\ r < p => C!B!Rec(b, r).key < k
                               /\ r >= p => C!B!Rec(b, r).key > k
  BY FindFinds
<1>3. a.entries = n + 1
  BY DEF C!B!Put
<1> HIDE DEF p
<1>4. /\ \A r \in 0 .. p - 1 : C!B!Rec(b, r).key < k
      /\ \A r \in p .. n - 1 : k < C!B!Rec(b, r).key
  BY <1>1, <1>2
<1>5. /\ Sound(a) /\ C!B!Rec(a, p) = [key |-> k, value |-> v]
      /\ \A r \in 0 .. p - 1 : C!B!Rec(a, r) = C!B!Rec(b, r)
      /\ \A r \in p .. n - 1 : C!B!Rec(a, r + 1) = C!B!Rec(b, r)
  <2>1. a = C!B!Put(b, p, k, v) /\ n = b.entries
    OBVIOUS
  <2> HIDE DEF a, n
  <2>2. /\ p \in 0 .. b.entries
        /\ \A r \in 0 .. p - 1 : C!B!Rec(b, r).key < k
        /\ \A r \in p .. b.entries - 1 : k < C!B!Rec(b, r).key
    BY <1>2, <1>4, <2>1
  <2>3. /\ Sound(C!B!Put(b, p, k, v))
        /\ C!B!Rec(C!B!Put(b, p, k, v), p) = [key |-> k, value |-> v]
        /\ \A r \in 0 .. p - 1 : C!B!Rec(C!B!Put(b, p, k, v), r) = C!B!Rec(b, r)
        /\ \A r \in p .. b.entries - 1 : C!B!Rec(C!B!Put(b, p, k, v), r + 1) = C!B!Rec(b, r)
    <3>1. Dimensions
      BY Sizes
    <3>2. QED
      BY <2>2, <3>1, PutSound
  <2>4. QED
    BY <2>1, <2>3
<1> HIDE DEF a, n
<1>6. ASSUME NEW r \in 0 .. n
      PROVE  C!B!Rec(a, r) = IF r < p THEN C!B!Rec(b, r)
                             ELSE IF r = p THEN [key |-> k, value |-> v]
                             ELSE C!B!Rec(b, r - 1)
  <2>1. CASE r < p
    BY <1>1, <1>2, <1>5, <2>1
  <2>2. CASE r = p
    BY <1>5, <2>2
  <2>3. CASE r > p
    <3> DEFINE s == r - 1
    <3>1. s \in p .. n - 1 /\ s + 1 = r
      BY <1>1, <1>2, <2>3
    <3> HIDE DEF s
    <3>2. C!B!Rec(a, r) = C!B!Rec(b, s)
      BY <1>5, <3>1
    <3>3. QED
      BY <1>2, <2>3, <3>2 DEF s
  <2>4. QED
    BY <1>1, <1>2, <2>1, <2>2, <2>3
<1>7. \A r \in 0 .. n - 1 : (r < p => C!B!Rec(b, r).key < k) /\ (r >= p => k < C!B!Rec(b, r).key)
  BY <1>1, <1>2
<1>8. QED
  BY <1>2, <1>3, <1>5, <1>6, <1>7 DEF p, a, n

-----------------------------------------------------------------------------
(* Trees *)

(***************************************************************************)
(* Nodes are told apart by what they are responsible for: each has a       *)
(* height, 0 being that of the leaves, and the keys from lo up to, but     *)
(* not including, hi.  g assigns to each node such a span.                 *)
(***************************************************************************)
Top == MaxKey + 1
Span == [h : Nat, lo : Nat, hi : Nat]
Stretch(h, lo, hi) == [h |-> h, lo |-> lo, hi |-> hi]
NodeSet == [type : {"LEAF", "INDEX"}, link : Nat, buf : Buffers]

(* The key at rank r of a node. *)
Key(x, r) == C!B!Rec(x.buf, r).key

(* The span of child i of a node x with span s. *)
Part(x, s, i) == Stretch(s.h - 1,
                         IF i = 0 THEN s.lo ELSE Key(x, i - 1),
                         IF i = x.buf.entries THEN s.hi ELSE Key(x, i))

(* The keys of a node x are in its span s; those of an index node separate *)
(* children, so none of them is the least one.                             *)
Inside(x, s) ==
  /\ x \in NodeSet /\ Sound(x.buf) /\ s \in Span
  /\ s.lo < s.hi /\ s.hi <= Top
  /\ x.type = "LEAF" <=> s.h = 0
  /\ \A r \in 0 .. x.buf.entries - 1 : /\ s.lo <= Key(x, r) /\ Key(x, r) < s.hi
                                       /\ x.type = "INDEX" => s.lo < Key(x, r)

(* A leaf is linked to the leaf that goes on where it ends. *)
Linked(x, s, g, N) ==
  IF s.hi = Top THEN x.link = 0
  ELSE x.link \in 1 .. N /\ g[x.link].h = 0 /\ g[x.link].lo = s.hi

(* The children of an index node share out its span. *)
Shared(x, s, g, N) ==
  \A i \in 0 .. x.buf.entries : C!GetChild(x, i) \in 1 .. N /\ g[C!GetChild(x, i)] = Part(x, s, i)

(* Node x with span s is as it should be. *)
Fits(x, s, g, N) ==
  /\ Inside(x, s)
  /\ x.type = "LEAF" => Linked(x, s, g, N)
  /\ x.type = "INDEX" => Shared(x, s, g, N)

(* No two spans of one height share a key. *)
Apart(s, t) == s.h = t.h => s.hi <= t.lo \/ t.hi <= s.lo

(* A tree in which node q, if any, may be full. *)
Tree(nodes, root, g, q) ==
  /\ nodes \in Seq(NodeSet) /\ g \in [1 .. Len(nodes) -> Span]
  /\ \A n \in 1 .. Len(nodes) : /\ Fits(nodes[n], g[n], g, Len(nodes))
                                /\ n # q => nodes[n].buf.entries < MaxEntries
  /\ \A m, n \in 1 .. Len(nodes) : m # n => Apart(g[m], g[n])
  /\ root \in 1 .. Len(nodes) /\ g[root].lo = 0 /\ g[root].hi = Top
  /\ \A n \in 1 .. Len(nodes) : n # root => g[n].h < g[root].h

(* The fields of a span and of a node. *)
LEMMA SpanFields ==
  ASSUME NEW s \in Span
  PROVE  s.h \in Nat /\ s.lo \in Nat /\ s.hi \in Nat /\ s = Stretch(s.h, s.lo, s.hi)
BY DEF Span, Stretch

(* A span made of its fields. *)
LEMMA SpanOf ==
  ASSUME NEW h \in Nat, NEW lo \in Nat, NEW hi \in Nat
  PROVE  Stretch(h, lo, hi) \in Span
BY DEF Span, Stretch

(* The fields of a stretch. *)
LEMMA StretchFields ==
  ASSUME NEW h, NEW lo, NEW hi
  PROVE  Stretch(h, lo, hi).h = h /\ Stretch(h, lo, hi).lo = lo /\ Stretch(h, lo, hi).hi = hi
BY DEF Stretch

(* A node made of its fields. *)
LEMMA NodeOf ==
  ASSUME NEW type \in {"LEAF", "INDEX"}, NEW link \in Nat, NEW b, Sound(b)
  PROVE  LET x == C!Node(type, link, b)
         IN  x \in NodeSet /\ x.type = type /\ x.link = link /\ x.buf = b
BY DEF C!Node, NodeSet, Sound

(* What is known of every node of a tree. *)
LEMMA NodeParts ==
  ASSUME NEW nodes, NEW root, NEW g, NEW q, Tree(nodes, root, g, q), NEW n \in 1 .. Len(nodes)
  PROVE  /\ nodes[n] \in NodeSet /\ nodes[n].type \in {"LEAF", "INDEX"} /\ nodes[n].link \in Nat
         /\ Sound(nodes[n].buf) /\ nodes[n].buf.entries \in 0 .. MaxEntries
         /\ g[n] \in Span /\ g[n].h \in Nat /\ g[n].lo \in Nat /\ g[n].hi \in Nat
         /\ g[n].lo < g[n].hi /\ g[n].hi <= Top
         /\ nodes[n].type = "LEAF" <=> g[n].h = 0
         /\ Fits(nodes[n], g[n], g, Len(nodes)) /\ Inside(nodes[n], g[n])
<1>1. Fits(nodes[n], g[n], g, Len(nodes)) /\ Inside(nodes[n], g[n])
  BY DEF Tree, Fits
<1>2. nodes[n] \in NodeSet /\ g[n] \in Span /\ Sound(nodes[n].buf)
  BY <1>1 DEF Inside
<1>3. nodes[n].type \in {"LEAF", "INDEX"} /\ nodes[n].link \in Nat
  BY <1>2 DEF NodeSet
<1>4. nodes[n].buf.entries \in 0 .. MaxEntries
  BY <1>2, BufferParts
<1>5. g[n].h \in Nat /\ g[n].lo \in Nat /\ g[n].hi \in Nat
  BY <1>2, SpanFields
<1>6. QED
  BY <1>1, <1>2, <1>3, <1>4, <1>5 DEF Inside

(* A key of a sound node. *)
LEMMA KeyIs ==
  ASSUME NEW x, Sound(x.buf)
  PROVE  /\ x.buf.entries \in Nat
         /\ \A r \in 0 .. x.buf.entries - 1 : Key(x, r) \in Nat
         /\ \A r, s \in 0 .. x.buf.entries - 1 : r < s => Key(x, r) < Key(x, s)
BY BufferParts DEF Key

(* The child that a search goes to. *)
LEMMA ChildForIs ==
  ASSUME NEW x, NEW s, Inside(x, s), x.type = "INDEX", NEW k \in Nat, s.lo <= k, k < s.hi
  PROVE  \E i \in 0 .. x.buf.entries :
           /\ C!ChildFor(x, k) = C!GetChild(x, i)
           /\ Part(x, s, i).lo <= k /\ k < Part(x, s, i).hi
<1> DEFINE n == x.buf.entries
           p == C!B!FindLE(x.buf, k)
<1>1. Sound(x.buf) /\ n \in Nat /\ \A r \in 0 .. n - 1 : Key(x, r) \in Nat
  BY KeyIs DEF Inside
<1>2. /\ p \in -1 .. n - 1
      /\ \A r \in 0 .. p : Key(x, r) <= k
      /\ \A r \in p + 1 .. n - 1 : Key(x, r) > k
  BY <1>1, FindLEIs DEF Key
<1>3. C!ChildFor(x, k) = C!GetChild(x, p + 1)
  BY DEF C!ChildFor
<1> HIDE DEF p, n
<1> DEFINE i == p + 1
<1>4. i \in 0 .. n /\ i \in Int
  BY <1>1, <1>2
<1>5. Part(x, s, i).lo <= k
  <2>1. CASE i = 0
    BY <2>1 DEF Part, Stretch
  <2>2. CASE i # 0
    <3>1. i - 1 \in 0 .. p
      BY <1>1, <1>2, <2>2
    <3>2. Key(x, i - 1) <= k
      BY <1>2, <3>1
    <3>3. QED
      BY <2>2, <3>2 DEF Part, Stretch
  <2>3. QED
    BY <2>1, <2>2
<1>6. k < Part(x, s, i).hi
  <2>1. CASE i = n
    BY <2>1 DEF Part, n, Stretch
  <2>2. CASE i # n
    <3>1. i \in p + 1 .. n - 1 /\ i \in 0 .. n - 1
      BY <1>1, <1>2, <1>4, <2>2
    <3>2. Key(x, i) > k /\ Key(x, i) \in Nat
      BY <1>1, <1>2, <3>1
    <3>3. QED
      BY <2>2, <3>2 DEF Part, n, Stretch
  <2>3. QED
    BY <2>1, <2>2
<1>7. QED
  BY <1>3, <1>4, <1>5, <1>6 DEF n

(* The parts of a span lie within it, apart from one another. *)
LEMMA PartsApart ==
  ASSUME NEW x, NEW s, Inside(x, s), x.type = "INDEX", NEW i \in 0 .. x.buf.entries
  PROVE  /\ Part(x, s, i) \in Span /\ Part(x, s, i).h = s.h - 1
         /\ s.lo <= Part(x, s, i).lo /\ Part(x, s, i).lo < Part(x, s, i).hi /\ Part(x, s, i).hi <= s.hi
         /\ \A j \in 0 .. x.buf.entries : i < j => Part(x, s, i).hi <= Part(x, s, j).lo
<1> DEFINE n == x.buf.entries
<1>1. /\ n \in Nat /\ \A r \in 0 .. n - 1 : Key(x, r) \in Nat
      /\ \A r, t \in 0 .. n - 1 : r < t => Key(x, r) < Key(x, t)
  BY KeyIs DEF Inside
<1>2. /\ s.h \in Nat /\ s.lo \in Nat /\ s.hi \in Nat /\ s.lo < s.hi /\ s.h # 0
      /\ \A r \in 0 .. n - 1 : s.lo < Key(x, r) /\ Key(x, r) < s.hi
  BY SpanFields DEF Inside
<1> DEFINE lo(j) == IF j = 0 THEN s.lo ELSE Key(x, j - 1)
           hi(j) == IF j = n THEN s.hi ELSE Key(x, j)
<1>3. \A j \in 0 .. n : Part(x, s, j) = Stretch(s.h - 1, lo(j), hi(j))
  BY DEF Part
<1> HIDE DEF n
<1>4. ASSUME NEW j \in 0 .. n
      PROVE  lo(j) \in Nat /\ hi(j) \in Nat /\ s.lo <= lo(j) /\ lo(j) < hi(j) /\ hi(j) <= s.hi
  <2>1. j # 0 => j - 1 \in 0 .. n - 1
    BY <1>1
  <2>2. j # n => j \in 0 .. n - 1
    BY <1>1
  <2>3. j # 0 /\ j # n => Key(x, j - 1) < Key(x, j)
    <3>1. j - 1 < j
      BY <1>1
    <3>2. QED
      BY <1>1, <2>1, <2>2, <3>1
  <2>4. QED
    BY <1>1, <1>2, <2>1, <2>2, <2>3
<1>5. ASSUME NEW j \in 0 .. n, i < j PROVE hi(i) <= lo(j)
  <2>1. i \in 0 .. n - 1 /\ j # 0 /\ i # n /\ j - 1 \in 0 .. n - 1 /\ (i = j - 1 \/ i < j - 1)
    BY <1>1, <1>5 DEF n
  <2>2. CASE i = j - 1
    BY <1>1, <2>1, <2>2
  <2>3. CASE i < j - 1
    <3>1. Key(x, i) < Key(x, j - 1)
      BY <1>1, <2>1, <2>3
    <3>2. QED
      BY <1>1, <2>1, <3>1
  <2>4. QED
    BY <2>1, <2>2, <2>3
<1>6. i \in 0 .. n /\ s.h - 1 \in Nat
  BY <1>2 DEF n
<1>7. Part(x, s, i) \in Span
  BY <1>3, <1>4, <1>6, SpanOf
<1> HIDE DEF lo, hi
<1>8. QED
  BY <1>3, <1>4, <1>5, <1>6, <1>7 DEF n, Stretch


(* The child of an index node, seen in the tree. *)
LEMMA ChildIn ==
  ASSUME NEW nodes, NEW root, NEW g, NEW q, Tree(nodes, root, g, q),
         NEW n \in 1 .. Len(nodes), nodes[n].type = "INDEX", NEW i \in 0 .. nodes[n].buf.entries
  PROVE  LET c == C!GetChild(nodes[n], i)
         IN  /\ c \in 1 .. Len(nodes) /\ g[c] = Part(nodes[n], g[n], i)
             /\ g[c].h = g[n].h - 1 /\ g[c].h < g[n].h
             /\ g[n].lo <= g[c].lo /\ g[c].lo < g[c].hi /\ g[c].hi <= g[n].hi
<1>1. /\ Fits(nodes[n], g[n], g, Len(nodes)) /\ Inside(nodes[n], g[n]) /\ g[n].h \in Nat
  BY NodeParts
<1>2. Shared(nodes[n], g[n], g, Len(nodes))
  BY <1>1 DEF Fits
<1>3. C!GetChild(nodes[n], i) \in 1 .. Len(nodes) /\ g[C!GetChild(nodes[n], i)] = Part(nodes[n], g[n], i)
  BY <1>2 DEF Shared
<1>4. QED
  BY <1>1, <1>3, PartsApart

(* No node is a child twice. *)
LEMMA ChildOnce ==
  ASSUME NEW nodes, NEW root, NEW g, NEW q, Tree(nodes, root, g, q),
         NEW m \in 1 .. Len(nodes), nodes[m].type = "INDEX", NEW i \in 0 .. nodes[m].buf.entries,
         NEW n \in 1 .. Len(nodes), nodes[n].type = "INDEX", NEW j \in 0 .. nodes[n].buf.entries,
         C!GetChild(nodes[m], i) = C!GetChild(nodes[n], j)
  PROVE  m = n /\ i = j
<1> DEFINE c == C!GetChild(nodes[m], i)
<1>1. /\ c \in 1 .. Len(nodes) /\ g[c] = Part(nodes[m], g[m], i) /\ g[c].h = g[m].h - 1
      /\ g[m].lo <= g[c].lo /\ g[c].lo < g[c].hi /\ g[c].hi <= g[m].hi
  BY ChildIn
<1>2. /\ g[c] = Part(nodes[n], g[n], j) /\ g[c].h = g[n].h - 1
      /\ g[n].lo <= g[c].lo /\ g[c].hi <= g[n].hi
  BY ChildIn
<1>3. /\ g[c].h \in Nat /\ g[c].lo \in Nat /\ g[c].hi \in Nat
      /\ g[m].h \in Nat /\ g[m].lo \in Nat /\ g[m].hi \in Nat
      /\ g[n].h \in Nat /\ g[n].lo \in Nat /\ g[n].hi \in Nat
  BY <1>1, NodeParts
<1> HIDE DEF c
<1>4. m = n
  <2>1. CASE m # n
    <3>1. Apart(g[m], g[n])
      BY <2>1 DEF Tree
    <3>2. g[m].h = g[n].h
      <4>1. g[c].h = g[m].h - 1 /\ g[c].h = g[n].h - 1
        BY <1>1, <1>2
      <4>2. g[c].h \in Nat /\ g[m].h \in Nat /\ g[n].h \in Nat
        BY <1>3
      <4>3. QED
        BY <4>1, <4>2, SameNumber
    <3>3. g[m].hi <= g[n].lo \/ g[n].hi <= g[m].lo
      BY <3>1, <3>2 DEF Apart
    <3>4. FALSE
      <4>1. /\ g[m].lo <= g[c].lo /\ g[c].lo < g[c].hi /\ g[c].hi <= g[m].hi
            /\ g[n].lo <= g[c].lo /\ g[c].hi <= g[n].hi
        BY <1>1, <1>2
      <4>2. /\ g[c].lo \in Nat /\ g[c].hi \in Nat /\ g[m].lo \in Nat /\ g[m].hi \in Nat
            /\ g[n].lo \in Nat /\ g[n].hi \in Nat
        BY <1>3
      <4>3. QED
        <5>1. ~ (g[m].hi <= g[n].lo) /\ ~ (g[n].hi <= g[m].lo)
          BY <4>1, <4>2, NoGap
        <5>2. QED
          BY <3>3, <5>1
    <3>5. QED
      BY <3>4
  <2>2. QED
    BY <2>1
<1>5. i = j
  <2>1. Inside(nodes[m], g[m]) /\ nodes[m].buf.entries \in Nat
    BY NodeParts
  <2>2. \A r \in 0 .. nodes[m].buf.entries : \A t \in 0 .. nodes[m].buf.entries :
           r < t => Part(nodes[m], g[m], r).hi <= Part(nodes[m], g[m], t).lo
    BY <2>1, PartsApart
  <2>3. i \in Int /\ j \in Int /\ j \in 0 .. nodes[m].buf.entries
    BY <1>4, <2>1
  <2>4. i < j => g[c].hi <= g[c].lo
    BY <1>1, <1>2, <1>4, <2>2, <2>3
  <2>5. j < i => g[c].hi <= g[c].lo
    BY <1>1, <1>2, <1>4, <2>2, <2>3
  <2>6. QED
    BY <1>1, <1>3, <2>3, <2>4, <2>5
<1>6. QED
  BY <1>4, <1>5

(* The spans once node n has given up what is above sep to node N + 1. *)
Cut(g, N, n, sep) ==
  [i \in 1 .. N + 1 |-> IF i = N + 1 THEN Stretch(g[n].h, sep, g[n].hi)
                        ELSE IF i = n THEN Stretch(g[n].h, g[n].lo, sep)
                        ELSE g[i]]

(* What the cut changes. *)
LEMMA CutAt ==
  ASSUME NEW N \in Nat, NEW g, NEW n \in 1 .. N, NEW sep
  PROVE  /\ Cut(g, N, n, sep)[N + 1] = Stretch(g[n].h, sep, g[n].hi)
         /\ Cut(g, N, n, sep)[n] = Stretch(g[n].h, g[n].lo, sep)
         /\ \A i \in 1 .. N : i # n => Cut(g, N, n, sep)[i] = g[i]
         /\ \A i \in 1 .. N : Cut(g, N, n, sep)[i].h = g[i].h /\ Cut(g, N, n, sep)[i].lo = g[i].lo
<1>1. n # N + 1 /\ n \in 1 .. N + 1 /\ N + 1 \in 1 .. N + 1 /\ \A i \in 1 .. N : i \in 1 .. N + 1 /\ i # N + 1
  OBVIOUS
<1>2. QED
  BY <1>1 DEF Cut, Stretch

(* It gives spans. *)
LEMMA CutSpans ==
  ASSUME NEW N \in Nat, NEW g \in [1 .. N -> Span], NEW n \in 1 .. N, NEW sep \in Nat
  PROVE  Cut(g, N, n, sep) \in [1 .. N + 1 -> Span]
<1>1. g[n].h \in Nat /\ g[n].lo \in Nat /\ g[n].hi \in Nat
  BY SpanFields
<1>2. /\ Stretch(g[n].h, sep, g[n].hi) \in Span
      /\ Stretch(g[n].h, g[n].lo, sep) \in Span
  BY <1>1, SpanOf
<1>3. \A i \in 1 .. N + 1 : i # N + 1 => i \in 1 .. N
  OBVIOUS
<1>4. QED
  BY <1>2, <1>3 DEF Cut

(* A node that is no parent of n fits as before. *)
LEMMA FitsStill ==
  ASSUME NEW N \in Nat, NEW g \in [1 .. N -> Span], NEW n \in 1 .. N, NEW sep \in Nat,
         g[n].lo < sep, sep < g[n].hi,
         NEW x, NEW s, Fits(x, s, g, N),
         x.type = "INDEX" => \A i \in 0 .. x.buf.entries : C!GetChild(x, i) # n
  PROVE  Fits(x, s, Cut(g, N, n, sep), N + 1)
<1> DEFINE c == Cut(g, N, n, sep)
<1>1. /\ \A i \in 1 .. N : i # n => c[i] = g[i]
      /\ \A i \in 1 .. N : c[i].h = g[i].h /\ c[i].lo = g[i].lo
  BY CutAt
<1> HIDE DEF c
<1>2. \A i \in 1 .. N : i \in 1 .. N + 1
  OBVIOUS
<1>3. x.type = "LEAF" => Linked(x, s, c, N + 1)
  BY <1>1, <1>2 DEF Fits, Linked
<1>4. x.type = "INDEX" => Shared(x, s, c, N + 1)
  BY <1>1, <1>2 DEF Fits, Shared
<1>5. QED
  BY <1>3, <1>4 DEF Fits, c

(* The cut leaves spans apart. *)
LEMMA CutApart ==
  ASSUME NEW N \in Nat, NEW g \in [1 .. N -> Span], NEW n \in 1 .. N, NEW sep \in Nat,
         g[n].lo < sep, sep < g[n].hi,
         \A i, j \in 1 .. N : i # j => Apart(g[i], g[j])
  PROVE  LET c == Cut(g, N, n, sep)
         IN  \A i, j \in 1 .. N + 1 : i # j => Apart(c[i], c[j])
<1> DEFINE c == Cut(g, N, n, sep)
<1>1. /\ c[N + 1] = Stretch(g[n].h, sep, g[n].hi)
      /\ c[n] = Stretch(g[n].h, g[n].lo, sep)
      /\ \A i \in 1 .. N : i # n => c[i] = g[i]
  BY CutAt
<1> HIDE DEF c
<1>2. \A i \in 1 .. N : g[i].h \in Nat /\ g[i].lo \in Nat /\ g[i].hi \in Nat
  BY SpanFields
<1>3. ASSUME NEW i \in 1 .. N, i # n PROVE Apart(c[i], c[n]) /\ Apart(c[n], c[i])
                                           /\ Apart(c[i], c[N + 1]) /\ Apart(c[N + 1], c[i])
  <2>1. Apart(g[i], g[n])
    BY <1>3
  <2>2. c[i] = g[i]
    BY <1>1, <1>3
  <2>3. QED
    BY <1>1, <1>2, <2>1, <2>2 DEF Apart, Stretch
<1>4. Apart(c[n], c[N + 1]) /\ Apart(c[N + 1], c[n])
  BY <1>1, <1>2 DEF Apart, Stretch
<1>5. ASSUME NEW i \in 1 .. N, NEW j \in 1 .. N, i # n, j # n, i # j PROVE Apart(c[i], c[j])
  BY <1>1, <1>5
<1>6. \A i \in 1 .. N + 1 : i = N + 1 \/ i = n \/ (i \in 1 .. N /\ i # n)
  OBVIOUS
<1>7. ASSUME NEW i \in 1 .. N + 1, NEW j \in 1 .. N + 1, i # j PROVE Apart(c[i], c[j])
  BY <1>3, <1>4, <1>5, <1>6, <1>7
<1>8. QED
  BY <1>7 DEF c

(* The parent takes the new node in behind n. *)
LEMMA ParentFits ==
  ASSUME NEW nodes, NEW root, NEW g, NEW n \in 1 .. Len(nodes), Tree(nodes, root, g, n),
         NEW sep \in Nat, g[n].lo < sep, sep < g[n].hi,
         NEW parent \in 1 .. Len(nodes), nodes[parent].type = "INDEX", parent # n,
         NEW i \in 0 .. nodes[parent].buf.entries, C!GetChild(nodes[parent], i) = n
  PROVE  LET N == Len(nodes)
             x == nodes[parent]
             y == [x EXCEPT !.buf = C!PutChild(@, sep, N + 1)]
         IN  Fits(y, g[parent], Cut(g, N, n, sep), N + 1)
<1> DEFINE N == Len(nodes)
           x == nodes[parent]
           s == g[parent]
           e == x.buf.entries
           b == C!PutChild(x.buf, sep, N + 1)
           y == [x EXCEPT !.buf = b]
           c == Cut(g, N, n, sep)
           f == C!B!Find(x.buf, sep)
<1>1. /\ N \in Nat /\ g \in [1 .. N -> Span]
      /\ x \in NodeSet /\ Sound(x.buf) /\ e \in Nat /\ Inside(x, s) /\ Fits(x, s, g, N)
      /\ e < MaxEntries
  <2>1. N \in Nat /\ g \in [1 .. N -> Span] /\ e < MaxEntries
    BY DEF Tree
  <2>2. QED
    BY <2>1, NodeParts
<1>2. Shared(x, s, g, N)
  BY <1>1 DEF Fits
<1>3. /\ n = C!GetChild(x, i) /\ g[n] = Part(x, s, i)
      /\ g[n].h \in Nat /\ g[n].lo \in Nat /\ g[n].hi \in Nat
      /\ g[n].h = s.h - 1 /\ s.lo <= g[n].lo /\ g[n].hi <= s.hi
      /\ s.h \in Nat /\ s.lo \in Nat /\ s.hi \in Nat /\ s \in Span /\ s.h # 0
  <2>1. g[n].h = s.h - 1 /\ s.lo <= g[n].lo /\ g[n].hi <= s.hi /\ g[n] = Part(x, s, i)
    BY ChildIn
  <2>2. g[n].h \in Nat /\ g[n].lo \in Nat /\ g[n].hi \in Nat
    BY NodeParts
  <2>3. s.h \in Nat /\ s.lo \in Nat /\ s.hi \in Nat /\ s \in Span /\ s.h # 0
    BY NodeParts
  <2>4. QED
    BY <2>1, <2>2, <2>3
<1>4. \A j \in 0 .. e : j # i => C!GetChild(x, j) # n
  BY <1>3, ChildOnce, SMTT(60)
<1>5. /\ i # 0 => g[n].lo = Key(x, i - 1)
      /\ i = 0 => g[n].lo = s.lo
      /\ i # e => g[n].hi = Key(x, i)
      /\ i = e => g[n].hi = s.hi
  BY <1>3 DEF Part, Stretch
<1>6. /\ \A r \in 0 .. e - 1 : Key(x, r) \in Nat
      /\ \A r, t \in 0 .. e - 1 : r < t => Key(x, r) < Key(x, t)
  BY <1>1, KeyIs
<1>7. /\ c[N + 1] = Stretch(g[n].h, sep, g[n].hi)
      /\ c[n] = Stretch(g[n].h, g[n].lo, sep)
      /\ \A j \in 1 .. N : j # n => c[j] = g[j]
  <2>1. N \in Nat /\ n \in 1 .. N
    BY <1>1
  <2> HIDE DEF N
  <2>2. QED
    BY <2>1, CutAt
<1>8. /\ \A r \in 0 .. e - 1 : r < i => Key(x, r) < sep
      /\ \A r \in 0 .. e - 1 : r >= i => Key(x, r) > sep
  <2>1. ASSUME NEW r \in 0 .. e - 1, r < i PROVE Key(x, r) < sep
    <3>1. i # 0 /\ i - 1 \in 0 .. e - 1 /\ (r = i - 1 \/ r < i - 1)
      BY <1>1, <2>1, SMTT(60)
    <3>2. Key(x, r) <= Key(x, i - 1) /\ Key(x, i - 1) \in Nat /\ Key(x, r) \in Nat
      BY <1>6, <3>1
    <3>3. QED
      BY <1>3, <1>5, <3>1, <3>2, SMTT(60)
  <2>2. ASSUME NEW r \in 0 .. e - 1, r >= i PROVE Key(x, r) > sep
    <3>1. i # e /\ i \in 0 .. e - 1 /\ (r = i \/ i < r)
      BY <1>1, <2>2
    <3>2. Key(x, i) <= Key(x, r) /\ Key(x, i) \in Nat /\ Key(x, r) \in Nat
      BY <1>6, <3>1
    <3>3. QED
      BY <1>3, <1>5, <3>1, <3>2
  <2>3. QED
    BY <2>1, <2>2
<1> HIDE DEF c, b, y, x, s, e, f, N
<1>9. ~ f.exist /\ f.pos = i
  <2>1. /\ f.exist \in BOOLEAN
        /\ f.exist => f.pos \in 0 .. e - 1 /\ Key(x, f.pos) = sep
        /\ ~ f.exist => /\ f.pos \in 0 .. e
                        /\ \A r \in 0 .. e - 1 : (r < f.pos => Key(x, r) < sep) /\ (r >= f.pos => Key(x, r) > sep)
    BY <1>1, FindFinds, SMTT(60) DEF f, Key, e
  <2>2. ~ f.exist
    <3>1. CASE f.exist
      <4>1. f.pos \in 0 .. e - 1 /\ Key(x, f.pos) = sep
        BY <2>1, <3>1
      <4>2. f.pos < i \/ f.pos >= i
        BY <1>1, <4>1 DEF e
      <4>3. QED
        BY <1>8, <4>1, <4>2
    <3>2. QED
      BY <3>1
  <2>3. CASE f.pos < i
    <3>1. f.pos \in 0 .. e - 1
      <4>1. f.pos \in 0 .. e /\ i \in 0 .. e /\ e \in Nat
        BY <1>1, <2>1, <2>2 DEF e, x
      <4>2. QED
        BY <2>3, <4>1
    <3>2. QED
      BY <1>6, <1>8, <2>1, <2>2, <2>3, <3>1
  <2>4. CASE f.pos > i
    <3>1. i \in 0 .. e - 1
      <4>1. f.pos \in 0 .. e /\ i \in 0 .. e /\ e \in Nat
        BY <1>1, <2>1, <2>2 DEF e, x
      <4>2. QED
        BY <2>4, <4>1
    <3>2. QED
      BY <1>6, <1>8, <2>1, <2>2, <2>4, <3>1
  <2>5. QED
    BY <1>1, <2>1, <2>2, <2>3, <2>4 DEF e
<1>10. /\ Sound(b) /\ b.entries = e + 1 /\ i \in 0 .. e
       /\ \A r \in 0 .. e : C!B!Rec(b, r) = IF r < i THEN C!B!Rec(x.buf, r)
                                            ELSE IF r = i THEN [key |-> sep, value |-> N + 1]
                                            ELSE C!B!Rec(x.buf, r - 1)
  <2>1. b = C!B!Put(x.buf, f.pos, sep, N + 1)
    BY DEF b, f, C!PutChild
  <2>2. N + 1 \in Nat
    BY <1>1
  <2>3. /\ x.buf.entries < MaxEntries /\ Sound(x.buf)
        /\ ~ C!B!Find(x.buf, sep).exist /\ C!B!Find(x.buf, sep).pos = i
    BY <1>1, <1>9 DEF f, e
  <2>4. LET p == C!B!Find(x.buf, sep).pos
            a == C!B!Put(x.buf, p, sep, N + 1)
        IN  /\ Sound(a) /\ a.entries = x.buf.entries + 1 /\ p \in 0 .. x.buf.entries
            /\ \A r \in 0 .. x.buf.entries :
                 C!B!Rec(a, r) = IF r < p THEN C!B!Rec(x.buf, r)
                                  ELSE IF r = p THEN [key |-> sep, value |-> N + 1]
                                  ELSE C!B!Rec(x.buf, r - 1)
    BY <2>2, <2>3, PutIs
  <2>5. b = C!B!Put(x.buf, i, sep, N + 1)
    BY <2>1, <2>3 DEF f
  <2>6. QED
    BY <2>3, <2>4, <2>5 DEF e
<1>11. /\ y \in NodeSet /\ y.type = "INDEX" /\ y.link = x.link /\ y.buf = b
  <2>1. x.type = "INDEX" /\ x = [type |-> x.type, link |-> x.link, buf |-> x.buf] /\ x.link \in Nat
    BY <1>1 DEF NodeSet, x
  <2>2. y = [type |-> x.type, link |-> x.link, buf |-> b]
    BY <2>1 DEF y
  <2>3. b \in Buffers
    BY <1>10 DEF Sound
  <2>4. QED
    BY <2>1, <2>2, <2>3 DEF NodeSet
<1>12. \A r \in 0 .. e : Key(y, r) = IF r < i THEN Key(x, r) ELSE IF r = i THEN sep ELSE Key(x, r - 1)
  <2>1. ASSUME NEW r \in 0 .. e
        PROVE  Key(y, r) = IF r < i THEN Key(x, r) ELSE IF r = i THEN sep ELSE Key(x, r - 1)
    BY <1>10, <1>11 DEF Key
  <2>2. QED
    BY <2>1
<1>13. ASSUME NEW j \in 0 .. e + 1
       PROVE  C!GetChild(y, j) = IF j <= i THEN C!GetChild(x, j)
                                 ELSE IF j = i + 1 THEN N + 1 ELSE C!GetChild(x, j - 1)
  <2>1. CASE j = 0
    BY <1>10, <1>11, <2>1 DEF C!GetChild
  <2>2. CASE j # 0
    <3>1. j - 1 \in 0 .. e /\ i \in Nat /\ j \in Nat
      BY <1>1, <1>10, <2>2 DEF e
    <3>2. C!GetChild(y, j) = C!B!Rec(b, j - 1).value
      BY <1>11, <2>2 DEF C!GetChild
    <3>3. CASE j <= i
      <4>1. j - 1 < i
        BY <3>1, <3>3
      <4>2. QED
        BY <1>10, <2>2, <3>1, <3>2, <3>3, <4>1 DEF C!GetChild
    <3>4. CASE j = i + 1
      <4>1. j - 1 = i /\ ~ (j <= i)
        BY <3>1, <3>4
      <4>2. QED
        BY <1>10, <3>1, <3>2, <3>4, <4>1
    <3>5. CASE j > i + 1
      <4>1. ~ (j - 1 < i) /\ j - 1 # i /\ ~ (j <= i) /\ j # i + 1 /\ j - 1 # 0
        BY <3>1, <3>5
      <4>2. C!B!Rec(b, j - 1) = C!B!Rec(x.buf, (j - 1) - 1)
        BY <1>10, <3>1, <4>1
      <4>3. C!GetChild(x, j - 1) = C!B!Rec(x.buf, (j - 1) - 1).value
        BY <4>1 DEF C!GetChild
      <4>4. QED
        BY <3>2, <4>1, <4>2, <4>3
    <3>6. QED
      BY <3>1, <3>3, <3>4, <3>5
  <2>3. QED
    BY <2>1, <2>2
<1>14. ASSUME NEW j \in 0 .. e + 1
       PROVE  C!GetChild(y, j) \in 1 .. N + 1 /\ c[C!GetChild(y, j)] = Part(y, s, j)
  <2>1. \A t \in 0 .. e : C!GetChild(x, t) \in 1 .. N /\ g[C!GetChild(x, t)] = Part(x, s, t)
    BY <1>2 DEF Shared, e
  <2>2. \A t \in 1 .. N : t \in 1 .. N + 1
    BY <1>1
  <2>3. y.buf.entries = e + 1 /\ e \in Nat /\ i \in Nat /\ j \in Nat /\ i <= e
    BY <1>1, <1>10, <1>11 DEF e
  <2>4. CASE j < i
    <3>1. /\ j \in 0 .. e /\ j # e /\ j # e + 1 /\ j # i
          /\ j # 0 => j - 1 \in 0 .. e /\ j - 1 < i
      BY <2>3, <2>4
    <3>2. C!GetChild(y, j) = C!GetChild(x, j)
      BY <1>13, <2>3, <2>4
    <3>3. Part(y, s, j) = Part(x, s, j)
      <4>1. Key(y, j) = Key(x, j) /\ (j # 0 => Key(y, j - 1) = Key(x, j - 1))
        BY <1>12, <2>4, <3>1
      <4>2. QED
        BY <2>3, <3>1, <4>1 DEF Part, e
    <3>4. QED
      BY <1>4, <1>7, <2>1, <2>2, <3>1, <3>2, <3>3
  <2>5. CASE j = i
    <3>1. j \in 0 .. e /\ j # e + 1 /\ (j # 0 => j - 1 \in 0 .. e /\ j - 1 < i)
      BY <2>3, <2>5
    <3>2. C!GetChild(y, j) = n
      BY <1>3, <1>13, <2>3, <2>5
    <3>3. Part(y, s, j) = Stretch(s.h - 1, g[n].lo, sep)
      <4>1. Key(y, j) = sep /\ (j # 0 => Key(y, j - 1) = Key(x, j - 1))
        BY <1>12, <2>3, <2>5, <3>1
      <4>2. QED
        BY <1>5, <2>3, <2>5, <3>1, <4>1 DEF Part
    <3>4. n \in 1 .. N + 1
      BY <2>2 DEF N
    <3>5. QED
      BY <1>3, <1>7, <3>2, <3>3, <3>4
  <2>6. CASE j = i + 1
    <3>1. j # 0 /\ j - 1 = i /\ i \in 0 .. e /\ ~ (j <= i)
      BY <2>3, <2>6
    <3>2. C!GetChild(y, j) = N + 1
      BY <1>13, <2>6, <3>1
    <3>3. Key(y, j - 1) = sep
      BY <1>12, <2>3, <3>1
    <3>4. CASE i = e
      <4>1. j = e + 1
        BY <2>6, <3>4
      <4>2. Part(y, s, j) = Stretch(s.h - 1, sep, s.hi)
        BY <2>3, <3>1, <3>3, <4>1 DEF Part
      <4>3. N + 1 \in 1 .. N + 1
        BY <1>1
      <4>4. QED
        BY <1>3, <1>5, <1>7, <3>2, <3>4, <4>2, <4>3
    <3>5. CASE i # e
      <4>1. j # e + 1 /\ j \in 0 .. e /\ ~ (j < i) /\ j # i
        BY <2>3, <2>6, <3>5
      <4>2. Key(y, j) = Key(x, i)
        BY <1>12, <3>1, <4>1
      <4>3. Part(y, s, j) = Stretch(s.h - 1, sep, Key(x, i))
        BY <2>3, <3>1, <3>3, <4>1, <4>2 DEF Part
      <4>4. N + 1 \in 1 .. N + 1
        BY <1>1
      <4>5. QED
        BY <1>3, <1>5, <1>7, <3>2, <3>5, <4>3, <4>4
    <3>6. QED
      BY <3>4, <3>5
  <2>7. CASE j > i + 1
    <3> DEFINE t == j - 1
    <3>1. /\ t \in 0 .. e /\ t # i /\ t # 0 /\ j # 0 /\ ~ (j <= i) /\ j # i + 1
          /\ ~ (t < i) /\ t - 1 \in 0 .. e /\ (j = e + 1 <=> t = e)
      BY <2>3, <2>7
    <3>2. C!GetChild(y, j) = C!GetChild(x, t)
      BY <1>13, <3>1
    <3>3. Key(y, j - 1) = Key(x, t - 1)
      BY <1>12, <3>1
    <3>4. j # e + 1 => Key(y, j) = Key(x, t)
      <4>1. j # e + 1 => j \in 0 .. e /\ ~ (j < i) /\ j # i
        BY <2>3, <2>7
      <4>2. QED
        BY <1>12, <4>1
    <3>5. Part(y, s, j) = Part(x, s, t)
      BY <2>3, <3>1, <3>3, <3>4 DEF Part, e
    <3> HIDE DEF t
    <3>6. QED
      BY <1>4, <1>7, <2>1, <2>2, <3>1, <3>2, <3>5
  <2>8. QED
    BY <2>3, <2>4, <2>5, <2>6, <2>7
<1>15. Shared(y, s, c, N + 1)
  <2>1. y.buf.entries = e + 1
    BY <1>10, <1>11
  <2>2. QED
    BY <1>14, <2>1 DEF Shared
<1>16. Inside(y, s)
  <2>1. y.buf.entries = e + 1 /\ e \in Nat /\ i \in 0 .. e
    BY <1>1, <1>10, <1>11 DEF e
  <2>2. \A r \in 0 .. e - 1 : s.lo < Key(x, r) /\ Key(x, r) < s.hi /\ Key(x, r) \in Nat
    <3>1. x.type = "INDEX"
      BY DEF x
    <3>2. QED
      BY <1>1, <1>6, <3>1 DEF Inside, e
  <2>3. s.lo < sep /\ sep < s.hi
    BY <1>3, SMTT(60)
  <2>4. ASSUME NEW r \in 0 .. e PROVE s.lo < Key(y, r) /\ Key(y, r) < s.hi
    <3>1. CASE r < i
      <4>1. r \in 0 .. e - 1
        BY <2>1, <3>1
      <4>2. QED
        BY <1>12, <2>2, <3>1, <4>1
    <3>2. CASE r = i
      BY <1>12, <2>1, <2>3, <3>2
    <3>3. CASE r > i
      <4>1. r - 1 \in 0 .. e - 1 /\ ~ (r < i) /\ r # i
        BY <2>1, <3>3
      <4>2. QED
        BY <1>12, <2>2, <4>1
    <3>4. QED
      BY <2>1, <3>1, <3>2, <3>3
  <2>5. \A r \in 0 .. e : s.lo <= Key(y, r)
    <3>1. \A r \in 0 .. e : Key(y, r) \in Nat
      <4>1. Sound(y.buf)
        BY <1>10, <1>11
      <4>2. \A r \in 0 .. y.buf.entries - 1 : Key(y, r) \in Nat
        BY <4>1, KeyIs
      <4>3. QED
        BY <2>1, <4>2
    <3>2. QED
      BY <1>3, <2>4, <3>1
  <2>6. (y.buf.entries) - 1 = e
    BY <2>1
  <2>7. s.lo < s.hi /\ s.hi <= Top /\ s.h # 0 /\ s \in Span
    BY <1>1, <1>3 DEF Inside
  <2>8. QED
    BY <1>10, <1>11, <2>4, <2>5, <2>6, <2>7 DEF Inside
<1>17. Fits(y, s, c, N + 1)
  BY <1>11, <1>15, <1>16 DEF Fits
<1>18. QED
  BY <1>17 DEF y, s, c, N, x, b


(* A node that fits still does when spans are added. *)
LEMMA FitsGrown ==
  ASSUME NEW N \in Nat, NEW M \in Nat, N <= M, NEW g, NEW c, \A i \in 1 .. N : c[i] = g[i],
         NEW x, NEW s, Fits(x, s, g, N)
  PROVE  Fits(x, s, c, M)
<1>1. \A i \in 1 .. N : i \in 1 .. M
  OBVIOUS
<1>2. x.type = "LEAF" => Linked(x, s, c, M)
  BY <1>1 DEF Fits, Linked
<1>3. x.type = "INDEX" => Shared(x, s, c, M)
  BY <1>1 DEF Fits, Shared
<1>4. QED
  BY <1>2, <1>3 DEF Fits

(* A node that is not the root has the root above it. *)
LEMMA RootHighest ==
  ASSUME NEW nodes, NEW root, NEW g, NEW q, Tree(nodes, root, g, q),
         NEW m \in 1 .. Len(nodes), nodes[m].type = "INDEX", NEW i \in 0 .. nodes[m].buf.entries
  PROVE  C!GetChild(nodes[m], i) # root
<1>1. C!GetChild(nodes[m], i) \in 1 .. Len(nodes) /\ g[C!GetChild(nodes[m], i)].h < g[m].h
  BY ChildIn
<1>2. g[m].h \in Nat /\ root \in 1 .. Len(nodes) /\ g[root].h \in Nat
  <2>1. root \in 1 .. Len(nodes)
    BY DEF Tree
  <2>2. QED
    BY <2>1, NodeParts
<1>3. m = root \/ g[m].h < g[root].h
  BY DEF Tree
<1>4. QED
  BY <1>1, <1>2, <1>3

(* What Attach does to the nodes when there is a parent. *)
LEMMA AttachBelow ==
  ASSUME NEW nodes \in Seq(NodeSet), NEW n \in 1 .. Len(nodes), NEW kept \in NodeSet,
         NEW new \in NodeSet, NEW sep, NEW parent \in 1 .. Len(nodes), parent # n,
         [nodes[parent] EXCEPT !.buf = C!PutChild(@, sep, Len(nodes) + 1)] \in NodeSet
  PROVE  LET N == Len(nodes)
             r == C!Attach(nodes, n, kept, new, sep, parent)
         IN  /\ r.nodes \in Seq(NodeSet) /\ Len(r.nodes) = N + 1 /\ r.ret = N + 1
             /\ r.nodes[n] = kept /\ r.nodes[N + 1] = new
             /\ r.nodes[parent] = [nodes[parent] EXCEPT !.buf = C!PutChild(@, sep, N + 1)]
             /\ \A i \in 1 .. N : i # n /\ i # parent => r.nodes[i] = nodes[i]
<1> DEFINE N == Len(nodes)
           y == [nodes[parent] EXCEPT !.buf = C!PutChild(@, sep, N + 1)]
           base == [nodes EXCEPT ![n] = kept]
           both == Append(base, new)
           r == C!Attach(nodes, n, kept, new, sep, parent)
<1>1. N \in Nat /\ y \in NodeSet /\ parent # 0
  OBVIOUS
<1>2. /\ base \in Seq(NodeSet) /\ Len(base) = N /\ base[n] = kept
      /\ \A i \in 1 .. N : i # n => base[i] = nodes[i]
  OBVIOUS
<1> HIDE DEF base
<1>3. /\ both \in Seq(NodeSet) /\ Len(both) = N + 1 /\ both[N + 1] = new
      /\ \A i \in 1 .. N : both[i] = base[i]
  BY <1>1, <1>2, SMTT(60)
<1>4. DOMAIN both = 1 .. N + 1 /\ both[parent] = nodes[parent] /\ parent \in 1 .. N + 1 /\ parent # N + 1
  BY <1>1, <1>2, <1>3
<1>5. r = [nodes |-> [both EXCEPT ![parent].buf = C!PutChild(@, sep, N + 1)], ret |-> N + 1]
  BY <1>1 DEF C!Attach, base
<1> HIDE DEF both, r
<1>6. [both EXCEPT ![parent].buf = C!PutChild(@, sep, N + 1)] = [both EXCEPT ![parent] = y]
  BY <1>4
<1> HIDE DEF y, N
<1>7. /\ [both EXCEPT ![parent] = y] \in Seq(NodeSet)
      /\ Len([both EXCEPT ![parent] = y]) = Len(both)
      /\ [both EXCEPT ![parent] = y][parent] = y
      /\ \A i \in 1 .. N + 1 : i # parent => [both EXCEPT ![parent] = y][i] = both[i]
  BY <1>1, <1>3, <1>4
<1>8. r.nodes = [both EXCEPT ![parent] = y] /\ r.ret = N + 1
  BY <1>5, <1>6
<1>9. n \in 1 .. N /\ \A i \in 1 .. N : i \in 1 .. N + 1 /\ N + 1 \in 1 .. N + 1
  BY <1>1 DEF N
<1>10. /\ r.nodes \in Seq(NodeSet) /\ Len(r.nodes) = N + 1 /\ r.ret = N + 1
       /\ r.nodes[n] = kept /\ r.nodes[N + 1] = new /\ r.nodes[parent] = y
       /\ \A i \in 1 .. N : i # n /\ i # parent => r.nodes[i] = nodes[i]
  BY <1>2, <1>3, <1>4, <1>7, <1>8, <1>9
<1>11. QED
  BY <1>10 DEF N, y, r

(* And when the root has split. *)
LEMMA AttachAbove ==
  ASSUME NEW nodes \in Seq(NodeSet), NEW n \in 1 .. Len(nodes), NEW kept \in NodeSet,
         NEW new \in NodeSet, NEW sep,
         C!Node("INDEX", n, C!PutChild(C!B!Blank, sep, Len(nodes) + 1)) \in NodeSet
  PROVE  LET N == Len(nodes)
             r == C!Attach(nodes, n, kept, new, sep, 0)
         IN  /\ r.nodes \in Seq(NodeSet) /\ Len(r.nodes) = N + 2 /\ r.ret = N + 2
             /\ r.nodes[n] = kept /\ r.nodes[N + 1] = new
             /\ r.nodes[N + 2] = C!Node("INDEX", n, C!PutChild(C!B!Blank, sep, N + 1))
             /\ \A i \in 1 .. N : i # n => r.nodes[i] = nodes[i]
<1> DEFINE N == Len(nodes)
           y == C!Node("INDEX", n, C!PutChild(C!B!Blank, sep, N + 1))
           base == [nodes EXCEPT ![n] = kept]
           both == Append(base, new)
           r == C!Attach(nodes, n, kept, new, sep, 0)
<1>1. N \in Nat /\ y \in NodeSet
  OBVIOUS
<1>2. /\ base \in Seq(NodeSet) /\ Len(base) = N /\ base[n] = kept
      /\ \A i \in 1 .. N : i # n => base[i] = nodes[i]
  OBVIOUS
<1> HIDE DEF base
<1>3. /\ both \in Seq(NodeSet) /\ Len(both) = N + 1 /\ both[N + 1] = new
      /\ \A i \in 1 .. N : both[i] = base[i]
  BY <1>1, <1>2
<1>4. r = [nodes |-> Append(both, y), ret |-> N + 1 + 1]
  BY DEF C!Attach, base
<1> HIDE DEF both, r, y, N
<1>5. /\ Append(both, y) \in Seq(NodeSet) /\ Len(Append(both, y)) = N + 2
      /\ Append(both, y)[N + 2] = y
      /\ \A i \in 1 .. N + 1 : Append(both, y)[i] = both[i]
  BY <1>1, <1>3
<1>6. r.nodes = Append(both, y) /\ r.ret = N + 2
  BY <1>1, <1>4
<1>7. n \in 1 .. N /\ \A i \in 1 .. N : i \in 1 .. N + 1 /\ N + 1 \in 1 .. N + 1
  BY <1>1 DEF N
<1>8. /\ r.nodes \in Seq(NodeSet) /\ Len(r.nodes) = N + 2 /\ r.ret = N + 2
      /\ r.nodes[n] = kept /\ r.nodes[N + 1] = new /\ r.nodes[N + 2] = y
      /\ \A i \in 1 .. N : i # n => r.nodes[i] = nodes[i]
  BY <1>2, <1>3, <1>5, <1>6, <1>7
<1>9. QED
  BY <1>8 DEF N, y, r

(* A split below a parent leaves a tree in which the parent may be full. *)
LEMMA SplitBelow ==
  ASSUME NEW nodes, NEW root, NEW g, NEW n \in 1 .. Len(nodes), Tree(nodes, root, g, n),
         NEW sep \in Nat, g[n].lo < sep, sep < g[n].hi,
         NEW parent \in 1 .. Len(nodes), nodes[parent].type = "INDEX", parent # n,
         NEW i \in 0 .. nodes[parent].buf.entries, C!GetChild(nodes[parent], i) = n,
         NEW kept, NEW new, kept.buf.entries < MaxEntries, new.buf.entries < MaxEntries,
         LET c == Cut(g, Len(nodes), n, sep)
         IN  Fits(kept, c[n], c, Len(nodes) + 1) /\ Fits(new, c[Len(nodes) + 1], c, Len(nodes) + 1)
  PROVE  LET r == C!Attach(nodes, n, kept, new, sep, parent)
             y == [nodes[parent] EXCEPT !.buf = C!PutChild(@, sep, Len(nodes) + 1)]
         IN  /\ Tree(r.nodes, root, Cut(g, Len(nodes), n, sep), parent)
             /\ Len(r.nodes) = Len(nodes) + 1 /\ r.ret = Len(nodes) + 1
             /\ r.nodes[n] = kept /\ r.nodes[r.ret] = new /\ r.nodes[parent] = y /\ y.type = "INDEX"
             /\ \A m \in 1 .. Len(nodes) : m # n /\ m # parent => r.nodes[m] = nodes[m]
<1> DEFINE N == Len(nodes)
           c == Cut(g, N, n, sep)
           y == [nodes[parent] EXCEPT !.buf = C!PutChild(@, sep, N + 1)]
           r == C!Attach(nodes, n, kept, new, sep, parent)
<1>1. /\ nodes \in Seq(NodeSet) /\ N \in Nat /\ g \in [1 .. N -> Span]
      /\ \A j, m \in 1 .. N : j # m => Apart(g[j], g[m])
      /\ root \in 1 .. N /\ g[root].lo = 0 /\ g[root].hi = Top
      /\ \A m \in 1 .. N : m # root => g[m].h < g[root].h
      /\ \A m \in 1 .. N : m # n => nodes[m].buf.entries < MaxEntries
      /\ \A m \in 1 .. N : Fits(nodes[m], g[m], g, N)
  BY DEF Tree
<1>2. Fits(kept, c[n], c, N + 1) /\ Fits(new, c[N + 1], c, N + 1)
  OBVIOUS
<1>3. /\ c \in [1 .. N + 1 -> Span]
      /\ c[N + 1] = Stretch(g[n].h, sep, g[n].hi)
      /\ c[n] = Stretch(g[n].h, g[n].lo, sep)
      /\ \A m \in 1 .. N : m # n => c[m] = g[m]
      /\ \A m \in 1 .. N : c[m].h = g[m].h /\ c[m].lo = g[m].lo
  <2>1. N \in Nat /\ g \in [1 .. N -> Span] /\ n \in 1 .. N
    BY <1>1
  <2> HIDE DEF N
  <2>2. c \in [1 .. N + 1 -> Span]
    BY <2>1, CutSpans
  <2>3. /\ c[N + 1] = Stretch(g[n].h, sep, g[n].hi) /\ c[n] = Stretch(g[n].h, g[n].lo, sep)
        /\ \A m \in 1 .. N : m # n => c[m] = g[m]
    BY <2>1, CutAt
  <2>4. ASSUME NEW m \in 1 .. N PROVE c[m].h = g[m].h /\ c[m].lo = g[m].lo
    BY <2>3, StretchFields
  <2> HIDE DEF c
  <2>5. QED
    BY <2>2, <2>3, <2>4
<1>4. \A j, m \in 1 .. N + 1 : j # m => Apart(c[j], c[m])
  <2>1. N \in Nat /\ g \in [1 .. N -> Span] /\ n \in 1 .. N
    BY <1>1
  <2>2. \A j, m \in 1 .. N : j # m => Apart(g[j], g[m])
    BY <1>1
  <2> HIDE DEF N
  <2>3. QED
    BY <2>1, <2>2, CutApart
<1>5. Fits(y, g[parent], c, N + 1)
  BY ParentFits
<1>6. kept \in NodeSet /\ new \in NodeSet /\ y \in NodeSet
  BY <1>2, <1>5 DEF Fits, Inside
<1> HIDE DEF c
<1>7. /\ r.nodes \in Seq(NodeSet) /\ Len(r.nodes) = N + 1 /\ r.ret = N + 1
      /\ r.nodes[n] = kept /\ r.nodes[N + 1] = new /\ r.nodes[parent] = y
      /\ \A m \in 1 .. N : m # n /\ m # parent => r.nodes[m] = nodes[m]
  <2>1. nodes \in Seq(NodeSet)
    BY <1>1
  <2>2. QED
    BY <1>6, <2>1, AttachBelow, SMTT(60)
<1>8. ASSUME NEW m \in 1 .. N, m # n, m # parent
      PROVE  Fits(nodes[m], g[m], c, N + 1)
  <2>1. ASSUME nodes[m].type = "INDEX", NEW j \in 0 .. nodes[m].buf.entries
        PROVE  C!GetChild(nodes[m], j) # n
    BY <1>8, <2>1, ChildOnce
  <2>2. Fits(nodes[m], g[m], g, N)
    BY <1>1
  <2>3. QED
    BY <1>1, <2>1, <2>2, FitsStill DEF c
<1>9. root # n
  BY RootHighest
<1>10. y.type = "INDEX"
  <2>1. nodes[parent] \in NodeSet
    BY <1>1
  <2>2. QED
    BY <2>1 DEF NodeSet
<1> HIDE DEF r, y
<1>11. \A m \in 1 .. N + 1 : m = N + 1 \/ m = n \/ m = parent \/ (m \in 1 .. N /\ m # n /\ m # parent)
  <2>1. N \in Nat
    BY <1>1
  <2> HIDE DEF N
  <2>2. QED
    BY <2>1, OneMore
<1>12. parent \in 1 .. N /\ n \in 1 .. N
  OBVIOUS
<1> HIDE DEF N
<1>13. ASSUME NEW m \in 1 .. N + 1
       PROVE  Fits(r.nodes[m], c[m], c, N + 1) /\ (m # parent => r.nodes[m].buf.entries < MaxEntries)
  <2>1. CASE m = N + 1
    BY <1>2, <1>7, <2>1
  <2>2. CASE m = n
    BY <1>2, <1>7, <2>2
  <2>3. CASE m = parent
    BY <1>3, <1>5, <1>7, <1>12, <2>3
  <2>4. CASE m \in 1 .. N /\ m # n /\ m # parent
    BY <1>1, <1>3, <1>7, <1>8, <2>4
  <2>5. QED
    BY <1>11, <2>1, <2>2, <2>3, <2>4
<1>14. root \in 1 .. N + 1 /\ c[root] = g[root]
  BY <1>1, <1>3, <1>9
<1>15. ASSUME NEW m \in 1 .. N + 1, m # root PROVE c[m].h < c[root].h
  <2>1. CASE m = N + 1
    <3>1. c[m].h = g[n].h
      BY <1>3, <2>1 DEF Stretch
    <3>2. QED
      BY <1>1, <1>9, <1>12, <1>14, <3>1
  <2>2. CASE m # N + 1
    <3>1. m \in 1 .. N
      BY <1>1, <2>2
    <3>2. c[m].h = g[m].h /\ g[m].h < g[root].h
      BY <1>1, <1>3, <1>15, <3>1
    <3>3. QED
      BY <1>14, <3>2
  <2>3. QED
    BY <2>1, <2>2
<1>16. Tree(r.nodes, root, c, parent)
  <2>1. g[root].lo = 0 /\ g[root].hi = Top
    BY <1>1
  <2>2. QED
    BY <1>3, <1>4, <1>7, <1>13, <1>14, <1>15, <2>1 DEF Tree
<1>17. QED
  BY <1>7, <1>10, <1>16 DEF c, r, y, N


(* The first child put into an empty buffer. *)
LEMMA FirstChild ==
  ASSUME NEW sep \in Nat, NEW id \in Nat
  PROVE  LET b == C!PutChild(C!B!Blank, sep, id)
         IN  Sound(b) /\ b.entries = 1 /\ C!B!Rec(b, 0) = [key |-> sep, value |-> id]
<1> DEFINE e == C!B!Blank
           f == C!B!Find(e, sep)
           b == C!B!Put(e, f.pos, sep, id)
<1>1. Sound(e) /\ e.entries = 0
  BY BlankSound, Sizes DEF C!B!Blank
<1>2. b = C!PutChild(C!B!Blank, sep, id)
  BY DEF C!PutChild
<1> HIDE DEF e
<1>3. e.entries < MaxEntries
  BY <1>1, Sizes
<1>4. /\ f.exist => f.pos \in 0 .. e.entries - 1
      /\ ~ f.exist => f.pos \in 0 .. e.entries
  BY <1>1, FindFinds DEF f
<1>5. ~ f.exist /\ f.pos = 0
  BY <1>1, <1>4
<1>6. /\ Sound(b) /\ b.entries = e.entries + 1
      /\ \A r \in 0 .. e.entries : r = f.pos => C!B!Rec(b, r) = [key |-> sep, value |-> id]
  <2>1. LET p == C!B!Find(e, sep).pos
            a == C!B!Put(e, p, sep, id)
        IN  /\ Sound(a) /\ a.entries = e.entries + 1 /\ p \in 0 .. e.entries
            /\ \A r \in 0 .. e.entries :
                 C!B!Rec(a, r) = IF r < p THEN C!B!Rec(e, r)
                                  ELSE IF r = p THEN [key |-> sep, value |-> id]
                                  ELSE C!B!Rec(e, r - 1)
    <3>1. ~ C!B!Find(e, sep).exist
      BY <1>5 DEF f
    <3> HIDE DEF b, f
    <3>2. QED
      BY <1>1, <1>3, <3>1, PutIs
  <2>2. ASSUME NEW r \in 0 .. e.entries, r = f.pos PROVE ~ (r < f.pos)
    BY <1>1, <1>5, <2>2
  <2>3. QED
    BY <2>1, <2>2 DEF b, f
<1> HIDE DEF b, f
<1>7. Sound(b) /\ b.entries = 1 /\ C!B!Rec(b, 0) = [key |-> sep, value |-> id]
  BY <1>1, <1>5, <1>6
<1>8. QED
  BY <1>2, <1>7

(* A split of the root leaves a tree under a new root. *)
LEMMA SplitAbove ==
  ASSUME NEW nodes, NEW n \in 1 .. Len(nodes), NEW g, Tree(nodes, n, g, n),
         NEW sep \in Nat, g[n].lo < sep, sep < g[n].hi,
         NEW kept, NEW new, kept.buf.entries < MaxEntries, new.buf.entries < MaxEntries,
         LET c == Cut(g, Len(nodes), n, sep)
         IN  Fits(kept, c[n], c, Len(nodes) + 1) /\ Fits(new, c[Len(nodes) + 1], c, Len(nodes) + 1)
  PROVE  LET r == C!Attach(nodes, n, kept, new, sep, 0)
         IN  /\ \E g1 : Tree(r.nodes, r.ret, g1, 0)
             /\ Len(r.nodes) = Len(nodes) + 2 /\ r.ret = Len(nodes) + 2
             /\ r.nodes[n] = kept /\ r.nodes[Len(nodes) + 1] = new /\ r.nodes[r.ret].type = "INDEX"
             /\ \A m \in 1 .. Len(nodes) : m # n => r.nodes[m] = nodes[m]
<1> DEFINE N == Len(nodes)
           c == Cut(g, N, n, sep)
           b == C!PutChild(C!B!Blank, sep, N + 1)
           y == C!Node("INDEX", n, b)
           s == Stretch(g[n].h + 1, 0, Top)
           d == [i \in 1 .. N + 2 |-> IF i = N + 2 THEN s ELSE c[i]]
           r == C!Attach(nodes, n, kept, new, sep, 0)
<1>1. /\ nodes \in Seq(NodeSet) /\ N \in Nat /\ n \in 1 .. N
      /\ g[n].lo = 0 /\ g[n].hi = Top
      /\ \A m \in 1 .. N : m # n => g[m].h < g[n].h
      /\ \A m \in 1 .. N : m # n => nodes[m].buf.entries < MaxEntries
      /\ \A m \in 1 .. N : Fits(nodes[m], g[m], g, N)
  BY DEF Tree
<1>2. Fits(kept, c[n], c, N + 1) /\ Fits(new, c[N + 1], c, N + 1)
  OBVIOUS
<1>3. /\ c \in [1 .. N + 1 -> Span]
      /\ c[N + 1] = Stretch(g[n].h, sep, g[n].hi)
      /\ c[n] = Stretch(g[n].h, g[n].lo, sep)
      /\ \A m \in 1 .. N : m # n => c[m] = g[m]
      /\ \A m \in 1 .. N : c[m].h = g[m].h /\ c[m].lo = g[m].lo
  <2>1. N \in Nat /\ g \in [1 .. N -> Span] /\ n \in 1 .. N
    BY DEF Tree
  <2> HIDE DEF N
  <2>2. c \in [1 .. N + 1 -> Span]
    BY <2>1, CutSpans
  <2>3. /\ c[N + 1] = Stretch(g[n].h, sep, g[n].hi) /\ c[n] = Stretch(g[n].h, g[n].lo, sep)
        /\ \A m \in 1 .. N : m # n => c[m] = g[m]
    BY <2>1, CutAt
  <2>4. ASSUME NEW m \in 1 .. N PROVE c[m].h = g[m].h /\ c[m].lo = g[m].lo
    BY <2>3, StretchFields
  <2> HIDE DEF c
  <2>5. QED
    BY <2>2, <2>3, <2>4
<1>4. \A j, m \in 1 .. N + 1 : j # m => Apart(c[j], c[m])
  <2>1. N \in Nat /\ g \in [1 .. N -> Span] /\ n \in 1 .. N
    BY DEF Tree
  <2>2. \A j, m \in 1 .. N : j # m => Apart(g[j], g[m])
    BY DEF Tree
  <2> HIDE DEF N
  <2>3. QED
    BY <2>1, <2>2, CutApart
<1>5. Sound(b) /\ b.entries = 1 /\ C!B!Rec(b, 0) = [key |-> sep, value |-> N + 1]
  <2>1. N + 1 \in Nat
    BY <1>1
  <2>2. QED
    BY <2>1, FirstChild
<1>6. y \in NodeSet /\ y.type = "INDEX" /\ y.link = n /\ y.buf = b
  <2>1. n \in Nat
    BY <1>1
  <2> HIDE DEF b
  <2>2. QED
    BY <1>5, <2>1, NodeOf
<1>7. kept \in NodeSet /\ new \in NodeSet
  BY <1>2 DEF Fits, Inside
<1>8. g[n].h \in Nat /\ Top \in Nat /\ s \in Span /\ s.h = g[n].h + 1 /\ s.lo = 0 /\ s.hi = Top
  <2>1. g[n].h \in Nat
    BY NodeParts
  <2>2. Top \in Nat
    BY Sizes DEF Top
  <2>3. g[n].h + 1 \in Nat /\ 0 \in Nat
    BY <2>1
  <2>4. QED
    BY <2>1, <2>2, <2>3, SpanOf DEF Stretch
<1> HIDE DEF c, b, s
<1>9. /\ r.nodes \in Seq(NodeSet) /\ Len(r.nodes) = N + 2 /\ r.ret = N + 2
      /\ r.nodes[n] = kept /\ r.nodes[N + 1] = new /\ r.nodes[N + 2] = y
      /\ \A m \in 1 .. N : m # n => r.nodes[m] = nodes[m]
  <2>1. nodes \in Seq(NodeSet)
    BY <1>1
  <2>2. y \in NodeSet
    BY <1>6
  <2>3. QED
    BY <1>7, <2>1, <2>2, AttachAbove DEF b
<1>10. ASSUME NEW m \in 1 .. N, m # n
       PROVE  Fits(nodes[m], g[m], c, N + 1)
  <2>1. ASSUME nodes[m].type = "INDEX", NEW j \in 0 .. nodes[m].buf.entries
        PROVE  C!GetChild(nodes[m], j) # n
    BY <2>1, RootHighest
  <2>2. Fits(nodes[m], g[m], g, N)
    BY <1>1
  <2>3. N \in Nat /\ g \in [1 .. N -> Span]
    BY DEF Tree
  <2>4. QED
    BY <2>1, <2>2, <2>3, FitsStill DEF c
<1> HIDE DEF r, y
<1>11. \A m \in 1 .. N + 2 : m = N + 2 \/ m = N + 1 \/ m = n \/ (m \in 1 .. N /\ m # n)
  <2>1. N \in Nat
    BY <1>1
  <2> HIDE DEF N
  <2>2. QED
    BY <2>1
<1> HIDE DEF N
<1>12. /\ d \in [1 .. N + 2 -> Span] /\ d[N + 2] = s
       /\ \A m \in 1 .. N + 1 : d[m] = c[m]
  <2>1. \A m \in 1 .. N + 2 : m # N + 2 => m \in 1 .. N + 1
    BY <1>1
  <2>2. N + 2 \in 1 .. N + 2 /\ \A m \in 1 .. N + 1 : m \in 1 .. N + 2 /\ m # N + 2
    BY <1>1
  <2>3. QED
    BY <1>3, <1>8, <2>1, <2>2
<1> HIDE DEF d
<1>13. n \in 1 .. N + 1 /\ N + 1 \in 1 .. N + 1 /\ \A m \in 1 .. N : m \in 1 .. N + 1
  BY <1>1
<1>14. Fits(y, s, d, N + 2)
  <2>1. \A j \in 0 .. y.buf.entries : j = 0 \/ j = 1
    BY <1>5, <1>6
  <2>2. C!GetChild(y, 0) = n /\ C!GetChild(y, 1) = N + 1
    BY <1>5, <1>6 DEF C!GetChild
  <2>3. Key(y, 0) = sep
    BY <1>5, <1>6 DEF Key
  <2>4. /\ Part(y, s, 0) = Stretch(g[n].h, 0, sep)
        /\ Part(y, s, 1) = Stretch(g[n].h, sep, Top)
    BY <1>5, <1>6, <1>8, <2>3, SMTT(60) DEF Part
  <2>5. n \in 1 .. N + 2 /\ N + 1 \in 1 .. N + 2
    BY <1>1
  <2>6. Shared(y, s, d, N + 2)
    <3>1. d[n] = c[n] /\ d[N + 1] = c[N + 1] /\ g[n].lo = 0 /\ g[n].hi = Top
      BY <1>1, <1>12, <1>13
    <3>2. d[n] = Part(y, s, 0) /\ d[N + 1] = Part(y, s, 1)
      BY <1>3, <2>4, <3>1
    <3>3. QED
      BY <2>1, <2>2, <2>5, <3>2 DEF Shared
  <2>7. \A j \in 0 .. y.buf.entries - 1 : j = 0
    BY <1>5, <1>6
  <2>8. Inside(y, s)
    <3>1. 0 < sep /\ sep < Top /\ 0 < Top /\ Top <= Top /\ s.h # 0
      BY <1>1, <1>8
    <3>2. QED
      BY <1>5, <1>6, <1>8, <2>3, <2>7, <3>1 DEF Inside
  <2>9. QED
    BY <1>6, <2>6, <2>8 DEF Fits
<1>15. ASSUME NEW x, NEW t, Fits(x, t, c, N + 1) PROVE Fits(x, t, d, N + 2)
  <2>1. N + 1 \in Nat /\ N + 2 \in Nat /\ N + 1 <= N + 2
    BY <1>1
  <2>2. QED
    BY <1>12, <1>15, <2>1, FitsGrown
<1>16. ASSUME NEW m \in 1 .. N + 2
       PROVE  Fits(r.nodes[m], d[m], d, N + 2) /\ r.nodes[m].buf.entries < MaxEntries
  <2>1. CASE m = N + 2
    <3>1. 1 < MaxEntries
      BY Sizes
    <3>2. QED
      BY <1>5, <1>6, <1>9, <1>12, <1>14, <2>1, <3>1
  <2>2. CASE m = N + 1
    BY <1>2, <1>9, <1>12, <1>13, <1>15, <2>2 DEF N
  <2>3. CASE m = n
    BY <1>2, <1>9, <1>12, <1>13, <1>15, <2>3 DEF N
  <2>4. CASE m \in 1 .. N /\ m # n
    <3>1. Fits(nodes[m], g[m], d, N + 2)
      BY <1>10, <1>15, <2>4
    <3>2. r.nodes[m] = nodes[m] /\ d[m] = g[m] /\ nodes[m].buf.entries < MaxEntries
      BY <1>1, <1>3, <1>9, <1>12, <1>13, <2>4
    <3>3. QED
      BY <3>1, <3>2
  <2>5. QED
    BY <1>11, <2>1, <2>2, <2>3, <2>4
<1>17. ASSUME NEW m \in 1 .. N + 2, m # N + 2 PROVE d[m].h < d[N + 2].h /\ d[m].h \in Nat /\ m \in 1 .. N + 1
  <2>1. m \in 1 .. N + 1 /\ d[m] = c[m] /\ d[N + 2].h = g[n].h + 1
    BY <1>1, <1>8, <1>12, <1>17
  <2>2. c[m].h <= g[n].h
    <3>1. m # N + 1 => m \in 1 .. N
      BY <1>1, <2>1
    <3>2. \A i \in 1 .. N : g[i].h \in Nat
      BY NodeParts DEF N
    <3>3. \A i \in 1 .. N : g[i].h <= g[n].h
      BY <1>1, <1>8, <3>2
    <3>4. m = N + 1 => c[m].h = g[n].h
      BY <1>3 DEF Stretch
    <3>5. QED
      BY <1>3, <1>8, <3>1, <3>3, <3>4
  <2>3. c[m].h \in Nat
    <3>1. c[m] \in Span
      BY <1>3, <2>1
    <3>2. QED
      BY <3>1, SpanFields
  <2>4. QED
    BY <1>8, <2>1, <2>2, <2>3, SMTT(60)
<1>18. ASSUME NEW j \in 1 .. N + 2, NEW m \in 1 .. N + 2, j # m PROVE Apart(d[j], d[m])
  <2>1. CASE j = N + 2
    <3>1. d[m].h < d[N + 2].h /\ d[m].h \in Nat /\ d[N + 2].h \in Nat
      BY <1>8, <1>12, <1>17, <1>18, <2>1
    <3>2. QED
      BY <2>1, <3>1 DEF Apart
  <2>2. CASE m = N + 2
    <3>1. d[j].h < d[N + 2].h /\ d[j].h \in Nat /\ d[N + 2].h \in Nat
      BY <1>8, <1>12, <1>17, <1>18, <2>2, SMTT(60)
    <3>2. QED
      BY <2>2, <3>1 DEF Apart
  <2>3. CASE j # N + 2 /\ m # N + 2
    BY <1>4, <1>12, <1>17, <1>18, <2>3
  <2>4. QED
    BY <2>1, <2>2, <2>3
<1>19. Tree(r.nodes, N + 2, d, 0)
  <2>1. N + 2 \in 1 .. N + 2
    BY <1>1
  <2>2. d[N + 2].lo = 0 /\ d[N + 2].hi = Top
    BY <1>8, <1>12
  <2>3. QED
    BY <1>9, <1>12, <1>16, <1>17, <1>18, <2>1, <2>2 DEF Tree
<1>20. QED
  BY <1>6, <1>9, <1>19 DEF r, N


(* A pair is in a leaf x, and in a tree. *)
HoldsIn(x, k, v) ==
  x.type = "LEAF" /\ \E r \in 0 .. x.buf.entries - 1 : C!B!Rec(x.buf, r) = [key |-> k, value |-> v]
Holds(nodes, k, v) == \E n \in 1 .. Len(nodes) : HoldsIn(nodes[n], k, v)

(* Node n hangs below parent, or is the root. *)
Below(nodes, root, n, parent) ==
  IF parent = 0 THEN n = root
  ELSE /\ parent \in 1 .. Len(nodes) /\ nodes[parent].type = "INDEX"
       /\ \E i \in 0 .. nodes[parent].buf.entries : C!GetChild(nodes[parent], i) = n

(* What a Put that came to n from parent answers: r, a tree again, in which *)
(* the nodes above n, but for the parent, are what they were.              *)
Grown(nodes, root, g, n, parent, r) ==
  \E g1 : /\ Tree(r.nodes, IF parent = 0 THEN r.ret ELSE root, g1, IF r.ret = n THEN 0 ELSE parent)
          /\ Len(nodes) <= Len(r.nodes)
          /\ parent # 0 => /\ g1[parent] = g[parent] /\ r.nodes[parent].type = "INDEX"
                           /\ r.ret = n => r.nodes[parent] = nodes[parent]
          /\ \A m \in 1 .. Len(nodes) : g[n].h < g[m].h /\ m # parent
                                          => r.nodes[m] = nodes[m] /\ g1[m] = g[m]

(* A split keeps the tree and its pairs. *)
LEMMA SplitGood ==
  ASSUME NEW nodes, NEW root, NEW g, NEW n \in 1 .. Len(nodes), Tree(nodes, root, g, n),
         NEW parent, Below(nodes, root, n, parent),
         NEW sep \in Nat, g[n].lo < sep, sep < g[n].hi,
         NEW kept, NEW new, kept.buf.entries < MaxEntries, new.buf.entries < MaxEntries,
         LET c == Cut(g, Len(nodes), n, sep)
         IN  Fits(kept, c[n], c, Len(nodes) + 1) /\ Fits(new, c[Len(nodes) + 1], c, Len(nodes) + 1),
         \A k, v : HoldsIn(nodes[n], k, v) <=> HoldsIn(kept, k, v) \/ HoldsIn(new, k, v)
  PROVE  LET r == C!Attach(nodes, n, kept, new, sep, parent)
         IN  /\ Grown(nodes, root, g, n, parent, r) /\ r.ret # n
             /\ \A k, v : Holds(r.nodes, k, v) <=> Holds(nodes, k, v)
<1> DEFINE N == Len(nodes)
           r == C!Attach(nodes, n, kept, new, sep, parent)
<1>1. N \in Nat /\ n \in 1 .. N /\ g \in [1 .. N -> Span] /\ root \in 1 .. N
  BY DEF Tree
<1>2. CASE parent = 0
  <2>1. n = root
    BY <1>2 DEF Below
  <2>2. r = C!Attach(nodes, n, kept, new, sep, 0)
    BY <1>2
  <2>3. /\ \E g1 : Tree(r.nodes, r.ret, g1, 0)
        /\ Len(r.nodes) = N + 2 /\ r.ret = N + 2
        /\ r.nodes[n] = kept /\ r.nodes[N + 1] = new /\ r.nodes[r.ret].type = "INDEX"
        /\ \A m \in 1 .. N : m # n => r.nodes[m] = nodes[m]
    <3>1. Tree(nodes, n, g, n)
      BY <2>1
    <3>2. QED
      BY <2>2, <3>1, SplitAbove, SMTT(60)
  <2> HIDE DEF r, N
  <2>4. r.ret # n /\ N <= N + 2
    BY <1>1, <2>3
  <2>5. \A m \in 1 .. N : ~ (g[n].h < g[m].h)
    <3>1. \A m \in 1 .. N : m # n => g[m].h < g[n].h
      BY <2>1 DEF Tree, N
    <3>2. \A m \in 1 .. N : g[m].h \in Nat
      BY <1>1, SpanFields
    <3>3. QED
      BY <1>1, <3>1, <3>2
  <2>6. Grown(nodes, root, g, n, parent, r)
    <3>1. PICK g1 : Tree(r.nodes, r.ret, g1, 0)
      BY <2>3
    <3>2. QED
      BY <1>2, <2>3, <2>4, <2>5, <3>1 DEF Grown, N
  <2>7. ASSUME NEW k, NEW v PROVE Holds(r.nodes, k, v) <=> Holds(nodes, k, v)
    <3>1. \A m \in 1 .. N + 2 : m = N + 2 \/ m = N + 1 \/ m = n \/ (m \in 1 .. N /\ m # n)
      BY <1>1
    <3>2. \A m \in 1 .. N : m \in 1 .. N + 2
      BY <1>1
    <3>3. N + 1 \in 1 .. N + 2
      BY <1>1
    <3>4. ~ HoldsIn(r.nodes[N + 2], k, v)
      BY <2>3 DEF HoldsIn
    <3>5. HoldsIn(nodes[n], k, v) <=> HoldsIn(kept, k, v) \/ HoldsIn(new, k, v)
      OBVIOUS
    <3>6. ASSUME Holds(r.nodes, k, v) PROVE Holds(nodes, k, v)
      <4>1. PICK m \in 1 .. N + 2 : HoldsIn(r.nodes[m], k, v)
        BY <2>3, <3>6 DEF Holds
      <4>2. CASE m = n \/ m = N + 1
        BY <1>1, <2>3, <3>5, <4>1, <4>2 DEF Holds, N
      <4>3. CASE m \in 1 .. N /\ m # n
        BY <2>3, <4>1, <4>3 DEF Holds, N
      <4>4. QED
        BY <3>1, <3>4, <4>1, <4>2, <4>3
    <3>7. ASSUME Holds(nodes, k, v) PROVE Holds(r.nodes, k, v)
      <4>1. PICK m \in 1 .. N : HoldsIn(nodes[m], k, v)
        BY <3>7 DEF Holds, N
      <4>2. CASE m = n
        BY <1>1, <2>3, <3>2, <3>3, <3>5, <4>1, <4>2 DEF Holds
      <4>3. CASE m # n
        BY <2>3, <3>2, <4>1, <4>3 DEF Holds
      <4>4. QED
        BY <4>2, <4>3
    <3>8. QED
      BY <3>6, <3>7
  <2>8. QED
    BY <2>4, <2>6, <2>7 DEF r
<1>3. CASE parent # 0
  <2>1. /\ parent \in 1 .. N /\ nodes[parent].type = "INDEX"
        /\ \E i \in 0 .. nodes[parent].buf.entries : C!GetChild(nodes[parent], i) = n
    BY <1>3 DEF Below
  <2>2. PICK i \in 0 .. nodes[parent].buf.entries : C!GetChild(nodes[parent], i) = n
    BY <2>1
  <2>3. g[n].h < g[parent].h /\ g[n].h \in Nat /\ parent # n
    <3>1. g[n].h < g[parent].h
      BY <2>1, <2>2, ChildIn
    <3>2. g[n].h \in Nat
      BY <1>1, SpanFields
    <3>3. QED
      BY <3>1, <3>2
  <2> DEFINE y == [nodes[parent] EXCEPT !.buf = C!PutChild(@, sep, Len(nodes) + 1)]
             c == Cut(g, N, n, sep)
  <2>4. /\ Tree(r.nodes, root, c, parent)
        /\ Len(r.nodes) = N + 1 /\ r.ret = N + 1
        /\ r.nodes[n] = kept /\ r.nodes[r.ret] = new /\ r.nodes[parent] = y /\ y.type = "INDEX"
        /\ \A m \in 1 .. N : m # n /\ m # parent => r.nodes[m] = nodes[m]
    <3>1. /\ parent \in 1 .. Len(nodes) /\ nodes[parent].type = "INDEX" /\ parent # n
          /\ i \in 0 .. nodes[parent].buf.entries /\ C!GetChild(nodes[parent], i) = n
      BY <2>1, <2>2, <2>3
    <3>2. LET r0 == C!Attach(nodes, n, kept, new, sep, parent)
              y0 == [nodes[parent] EXCEPT !.buf = C!PutChild(@, sep, Len(nodes) + 1)]
          IN  /\ Tree(r0.nodes, root, Cut(g, Len(nodes), n, sep), parent)
              /\ Len(r0.nodes) = Len(nodes) + 1 /\ r0.ret = Len(nodes) + 1
              /\ r0.nodes[n] = kept /\ r0.nodes[r0.ret] = new /\ r0.nodes[parent] = y0 /\ y0.type = "INDEX"
              /\ \A m \in 1 .. Len(nodes) : m # n /\ m # parent => r0.nodes[m] = nodes[m]
      BY <3>1, SplitBelow, SMTT(60)
    <3>3. QED
      BY <3>2
  <2>5. \A m \in 1 .. N : m # n => c[m] = g[m]
    <3> HIDE DEF N
    <3>1. QED
      BY <1>1 DEF Cut
  <2> HIDE DEF r, N, y, c
  <2>6. r.ret # n /\ N <= N + 1
    BY <1>1, <2>4
  <2>7. Grown(nodes, root, g, n, parent, r)
    <3>1. \A m \in 1 .. N : g[n].h < g[m].h /\ m # parent => r.nodes[m] = nodes[m] /\ c[m] = g[m]
      BY <2>3, <2>4, <2>5
    <3>2. c[parent] = g[parent] /\ r.nodes[parent].type = "INDEX"
      BY <2>1, <2>3, <2>4, <2>5
    <3>3. Tree(r.nodes, IF parent = 0 THEN r.ret ELSE root, c, IF r.ret = n THEN 0 ELSE parent)
      BY <1>3, <2>4, <2>6
    <3>4. N <= Len(r.nodes)
      BY <2>4, <2>6
    <3>5. QED
      BY <2>6, <3>1, <3>2, <3>3, <3>4 DEF Grown, N
  <2>8. ASSUME NEW k, NEW v PROVE Holds(r.nodes, k, v) <=> Holds(nodes, k, v)
    <3>1. \A m \in 1 .. N + 1 : m = N + 1 \/ m = n \/ m = parent \/ (m \in 1 .. N /\ m # n /\ m # parent)
      BY <1>1
    <3>2. \A m \in 1 .. N : m \in 1 .. N + 1
      BY <1>1
    <3>3. N + 1 \in 1 .. N + 1
      BY <1>1
    <3>4. ~ HoldsIn(r.nodes[parent], k, v) /\ ~ HoldsIn(nodes[parent], k, v)
      BY <2>1, <2>4 DEF HoldsIn
    <3>5. HoldsIn(nodes[n], k, v) <=> HoldsIn(kept, k, v) \/ HoldsIn(new, k, v)
      OBVIOUS
    <3>6. ASSUME Holds(r.nodes, k, v) PROVE Holds(nodes, k, v)
      <4>1. PICK m \in 1 .. N + 1 : HoldsIn(r.nodes[m], k, v)
        BY <2>4, <3>6 DEF Holds
      <4>2. CASE m = n \/ m = N + 1
        BY <1>1, <2>4, <3>5, <4>1, <4>2 DEF Holds, N
      <4>3. CASE m \in 1 .. N /\ m # n /\ m # parent
        BY <2>4, <4>1, <4>3 DEF Holds, N
      <4>4. QED
        BY <3>1, <3>4, <4>1, <4>2, <4>3
    <3>7. ASSUME Holds(nodes, k, v) PROVE Holds(r.nodes, k, v)
      <4>1. PICK m \in 1 .. N : HoldsIn(nodes[m], k, v)
        BY <3>7 DEF Holds, N
      <4>2. CASE m = n
        BY <1>1, <2>4, <3>2, <3>3, <3>5, <4>1, <4>2 DEF Holds
      <4>3. CASE m # n
        BY <2>4, <3>2, <3>4, <4>1, <4>3 DEF Holds
      <4>4. QED
        BY <4>2, <4>3
    <3>8. QED
      BY <3>6, <3>7
  <2>9. QED
    BY <2>6, <2>7, <2>8 DEF r
<1>4. QED
  BY <1>2, <1>3


(* A full leaf may be split anywhere but at its ends. *)
LEMMA SplitLeafGood ==
  ASSUME NEW nodes, NEW root, NEW g, NEW n \in 1 .. Len(nodes), Tree(nodes, root, g, n),
         NEW parent, Below(nodes, root, n, parent),
         nodes[n].type = "LEAF", nodes[n].buf.entries = MaxEntries
  PROVE  LET r == C!SplitLeaf(nodes, n, parent)
         IN  /\ Grown(nodes, root, g, n, parent, r) /\ r.ret # n
             /\ \A k, v : Holds(r.nodes, k, v) <=> Holds(nodes, k, v)
<1> DEFINE N == Len(nodes)
           x == nodes[n]
           e == x.buf.entries
           half == e \div 2
           low == C!B!DeleteData(x.buf, half)
           high == C!B!CopyData(x.buf, half)
           sep == C!B!Rec(high, 0).key
           kept == C!Node("LEAF", N + 1, low)
           new == C!Node("LEAF", x.link, high)
           c == Cut(g, N, n, sep)
<1>1. /\ Sound(x.buf) /\ e = MaxEntries /\ e \in Nat /\ e >= 3 /\ x.link \in Nat
      /\ g[n].h = 0 /\ g[n].lo \in Nat /\ g[n].hi \in Nat /\ g[n].hi <= Top /\ g[n].lo < g[n].hi
      /\ Inside(x, g[n]) /\ Fits(x, g[n], g, N)
  BY NodeParts, Sizes
<1>2. N \in Nat /\ n \in 1 .. N /\ g \in [1 .. N -> Span]
  BY DEF Tree
<1>3. half \in 1 .. e - 1 /\ half \in 0 .. e - 1 /\ half < MaxEntries /\ e - half < MaxEntries /\ half \in Nat /\ e - half \in Nat
  BY <1>1, SMTT(60)
<1> HIDE DEF half
<1>4. /\ Sound(low) /\ low.entries = half
      /\ \A r \in 0 .. half - 1 : C!B!Rec(low, r) = C!B!Rec(x.buf, r)
  <2>1. Dimensions /\ Sound(x.buf) /\ half \in 0 .. x.buf.entries - 1
    BY <1>1, <1>3, Sizes
  <2> HIDE DEF x
  <2>2. /\ Sound(C!B!DeleteData(x.buf, half)) /\ C!B!DeleteData(x.buf, half).entries = half
        /\ \A r \in 0 .. half - 1 : C!B!Rec(C!B!DeleteData(x.buf, half), r) = C!B!Rec(x.buf, r)
    BY <2>1, DeleteDataSound
  <2>3. QED
    BY <2>1, <2>2
<1>5. /\ Sound(high) /\ high.entries = e - half
      /\ \A r \in 0 .. e - half - 1 : C!B!Rec(high, r) = C!B!Rec(x.buf, half + r)
  <2>1. Dimensions /\ Sound(x.buf) /\ half \in 0 .. x.buf.entries - 1
    BY <1>1, <1>3, Sizes
  <2> HIDE DEF x
  <2>2. /\ Sound(C!B!CopyData(x.buf, half)) /\ C!B!CopyData(x.buf, half).entries = x.buf.entries - half
        /\ \A r \in 0 .. x.buf.entries - half - 1 :
             C!B!Rec(C!B!CopyData(x.buf, half), r) = C!B!Rec(x.buf, half + r)
    BY <2>1, CopyDataSound
  <2>3. QED
    BY <2>2
<1>6. sep = Key(x, half)
  <2>1. 0 \in 0 .. e - half - 1 /\ half + 0 = half
    BY <1>1, <1>3
  <2>2. QED
    BY <1>5, <2>1 DEF Key
<1>7. /\ kept \in NodeSet /\ kept.type = "LEAF" /\ kept.link = N + 1 /\ kept.buf = low
      /\ new \in NodeSet /\ new.type = "LEAF" /\ new.link = x.link /\ new.buf = high
  <2> HIDE DEF low, high
  <2>1. N + 1 \in Nat
    BY <1>2
  <2>2. QED
    BY <1>1, <1>4, <1>5, <2>1, NodeOf
<1> HIDE DEF low, high, sep, kept, new, x, e
<1>8. /\ \A r \in 0 .. e - 1 : Key(x, r) \in Nat /\ g[n].lo <= Key(x, r) /\ Key(x, r) < g[n].hi
      /\ \A r, t \in 0 .. e - 1 : r < t => Key(x, r) < Key(x, t)
  BY <1>1, KeyIs DEF Inside, e
<1>9. sep \in Nat /\ g[n].lo < sep /\ sep < g[n].hi
  <2>1. half - 1 \in 0 .. e - 1 /\ half - 1 < half
    BY <1>1, <1>3, SMTT(60)
  <2>2. Key(x, half - 1) < Key(x, half) /\ g[n].lo <= Key(x, half - 1) /\ Key(x, half - 1) \in Nat
    BY <1>3, <1>8, <2>1
  <2>3. Key(x, half) \in Nat /\ Key(x, half) < g[n].hi
    BY <1>3, <1>8
  <2>4. QED
    BY <1>1, <1>6, <2>2, <2>3
<1>10. /\ c[N + 1] = Stretch(0, sep, g[n].hi) /\ c[N + 1] \in Span
       /\ c[n] = Stretch(0, g[n].lo, sep) /\ c[n] \in Span
       /\ \A i \in 1 .. N : c[i].h = g[i].h /\ c[i].lo = g[i].lo
  <2>1. /\ c \in [1 .. N + 1 -> Span]
        /\ c[N + 1] = Stretch(g[n].h, sep, g[n].hi)
        /\ c[n] = Stretch(g[n].h, g[n].lo, sep)
        /\ \A m \in 1 .. N : m # n => c[m] = g[m]
        /\ \A i \in 1 .. N : c[i].h = g[i].h /\ c[i].lo = g[i].lo
    <3> HIDE DEF N
    <3>1. c \in [1 .. N + 1 -> Span]
      BY <1>2, <1>9, CutSpans
    <3>2. /\ c[N + 1] = Stretch(g[n].h, sep, g[n].hi) /\ c[n] = Stretch(g[n].h, g[n].lo, sep)
          /\ \A m \in 1 .. N : m # n => c[m] = g[m]
      BY <1>2, CutAt
    <3>3. ASSUME NEW i \in 1 .. N PROVE c[i].h = g[i].h /\ c[i].lo = g[i].lo
      BY <3>2, StretchFields
    <3> HIDE DEF c
    <3>4. QED
      BY <3>1, <3>2, <3>3
  <2>2. N + 1 \in 1 .. N + 1 /\ n \in 1 .. N + 1
    BY <1>2
  <2>3. QED
    BY <1>1, <2>1, <2>2
<1>11. /\ \A r \in 0 .. half - 1 : Key(kept, r) = Key(x, r)
       /\ \A r \in 0 .. e - half - 1 : Key(new, r) = Key(x, half + r)
  BY <1>4, <1>5, <1>7 DEF Key
<1>12. Inside(kept, c[n])
  <2>1. ASSUME NEW r \in 0 .. half - 1 PROVE g[n].lo <= Key(kept, r) /\ Key(kept, r) < sep
    <3>1. r \in 0 .. e - 1 /\ r < half
      BY <1>1, <1>3
    <3>2. QED
      BY <1>3, <1>6, <1>8, <1>11, <3>1
  <2>2. /\ c[n].h = 0 /\ c[n].lo = g[n].lo /\ c[n].hi = sep /\ c[n] \in Span
    BY <1>10 DEF Stretch
  <2>3. g[n].lo < sep /\ sep <= Top
    BY <1>1, <1>9, Sizes DEF Top
  <2>4. QED
    BY <1>4, <1>7, <2>1, <2>2, <2>3 DEF Inside
<1>13. Inside(new, c[N + 1])
  <2>1. ASSUME NEW r \in 0 .. e - half - 1 PROVE sep <= Key(new, r) /\ Key(new, r) < g[n].hi
    <3>1. half + r \in 0 .. e - 1 /\ (r = 0 \/ half < half + r) /\ half + 0 = half
      BY <1>1, <1>3, UpperRank, SMTT(60)
    <3>2. Key(x, half + r) \in Nat /\ Key(x, half + r) < g[n].hi /\ Key(x, half) <= Key(x, half + r)
      BY <1>3, <1>8, <3>1
    <3>3. QED
      BY <1>6, <1>11, <3>2
  <2>2. QED
    BY <1>1, <1>5, <1>7, <1>9, <1>10, <2>1 DEF Inside, Stretch
<1>14. Linked(kept, c[n], c, N + 1)
  <2>1. sep # Top
    BY <1>1, <1>9, Sizes DEF Top
  <2>2. N + 1 \in 1 .. N + 1
    BY <1>2
  <2>3. QED
    BY <1>7, <1>10, <2>1, <2>2 DEF Linked, Stretch
<1>15. Linked(new, c[N + 1], c, N + 1)
  <2>1. x.type = "LEAF"
    BY DEF x
  <2>2. Linked(x, g[n], g, N)
    BY <1>1, <2>1 DEF Fits
  <2>3. \A i \in 1 .. N : i \in 1 .. N + 1
    BY <1>2
  <2>4. QED
    BY <1>7, <1>10, <2>2, <2>3 DEF Linked, Stretch
<1>16. Fits(kept, c[n], c, N + 1) /\ Fits(new, c[N + 1], c, N + 1)
  BY <1>7, <1>12, <1>13, <1>14, <1>15 DEF Fits
<1>17. ASSUME NEW k, NEW v PROVE HoldsIn(nodes[n], k, v) <=> HoldsIn(kept, k, v) \/ HoldsIn(new, k, v)
  <2>1. x.type = "LEAF" /\ x = nodes[n]
    BY DEF x
  <2>2. \A r \in 0 .. e - 1 : r \in 0 .. half - 1 \/ (r - half \in 0 .. e - half - 1 /\ half + (r - half) = r)
    BY <1>1, <1>3
  <2>3. \A r \in 0 .. half - 1 : r \in 0 .. e - 1
    BY <1>1, <1>3
  <2>4. \A r \in 0 .. e - half - 1 : half + r \in 0 .. e - 1
    BY <1>1, <1>3
  <2>5. ASSUME HoldsIn(x, k, v) PROVE HoldsIn(kept, k, v) \/ HoldsIn(new, k, v)
    <3>1. PICK r \in 0 .. e - 1 : C!B!Rec(x.buf, r) = [key |-> k, value |-> v]
      BY <2>5 DEF HoldsIn, e
    <3>2. CASE r \in 0 .. half - 1
      BY <1>4, <1>7, <3>1, <3>2 DEF HoldsIn
    <3>3. CASE r - half \in 0 .. e - half - 1 /\ half + (r - half) = r
      BY <1>5, <1>7, <3>1, <3>3 DEF HoldsIn
    <3>4. QED
      BY <2>2, <3>2, <3>3
  <2>6. ASSUME HoldsIn(kept, k, v) PROVE HoldsIn(x, k, v)
    BY <1>4, <1>7, <2>1, <2>3, <2>6 DEF HoldsIn, e
  <2>7. ASSUME HoldsIn(new, k, v) PROVE HoldsIn(x, k, v)
    BY <1>5, <1>7, <2>1, <2>4, <2>7 DEF HoldsIn, e
  <2>8. QED
    BY <2>1, <2>5, <2>6, <2>7
<1>18. kept.buf.entries < MaxEntries /\ new.buf.entries < MaxEntries
  BY <1>3, <1>4, <1>5, <1>7
<1>19. C!SplitLeaf(nodes, n, parent) = C!Attach(nodes, n, kept, new, sep, parent)
  BY DEF C!SplitLeaf, kept, new, sep, low, high, half, x, e, N
<1>20. QED
  BY <1>9, <1>16, <1>17, <1>18, <1>19, SplitGood

(* A full index node may be split at an entry that is neither first nor last. *)
LEMMA SplitIndexGood ==
  ASSUME NEW nodes, NEW root, NEW g, NEW n \in 1 .. Len(nodes), Tree(nodes, root, g, n),
         NEW parent, Below(nodes, root, n, parent),
         nodes[n].type = "INDEX", nodes[n].buf.entries = MaxEntries
  PROVE  LET r == C!SplitIndex(nodes, n, parent)
         IN  /\ Grown(nodes, root, g, n, parent, r) /\ r.ret # n
             /\ \A k, v : Holds(r.nodes, k, v) <=> Holds(nodes, k, v)
<1> DEFINE N == Len(nodes)
           x == nodes[n]
           e == x.buf.entries
           half == (e + 1) \div 2
           middle == C!B!Rec(x.buf, half - 1)
           low == C!B!DeleteData(x.buf, half - 1)
           high == C!B!CopyData(x.buf, half)
           sep == middle.key
           kept == C!Node("INDEX", x.link, low)
           new == C!Node("INDEX", middle.value, high)
           c == Cut(g, N, n, sep)
<1>1. /\ Sound(x.buf) /\ e = MaxEntries /\ e \in Nat /\ e >= 3 /\ x.link \in Nat
      /\ g[n].h # 0 /\ g[n].h \in Nat /\ g[n].lo \in Nat /\ g[n].hi \in Nat
      /\ g[n].hi <= Top /\ g[n].lo < g[n].hi
      /\ Inside(x, g[n]) /\ Fits(x, g[n], g, N)
  <2>1. nodes[n].type # "LEAF"
    OBVIOUS
  <2>2. QED
    BY <2>1, NodeParts, Sizes
<1>2. N \in Nat /\ n \in 1 .. N /\ g \in [1 .. N -> Span]
  BY DEF Tree
<1>3. /\ half \in 2 .. e - 1 /\ half \in 0 .. e - 1 /\ half - 1 \in 0 .. e - 1 /\ half < MaxEntries
      /\ half - 1 < MaxEntries /\ e - half < MaxEntries /\ half \in Nat /\ e - half \in Nat
  <2>1. half \in 2 .. e - 1 /\ half < e /\ half - 1 < e /\ e - half < e
    BY <1>1, HalfAbove
  <2> HIDE DEF half
  <2>2. half \in 0 .. e - 1 /\ half - 1 \in 0 .. e - 1 /\ half \in Nat /\ e - half \in Nat
    BY <1>1, <2>1, PartOf
  <2>3. QED
    BY <1>1, <2>1, <2>2
<1> HIDE DEF half
<1>4. /\ Sound(low) /\ low.entries = half - 1
      /\ \A r \in 0 .. half - 2 : C!B!Rec(low, r) = C!B!Rec(x.buf, r)
  <2>1. Dimensions /\ Sound(x.buf) /\ half - 1 \in 0 .. x.buf.entries - 1 /\ half - 1 - 1 = half - 2
    BY <1>1, <1>3, Sizes
  <2> HIDE DEF x
  <2>2. /\ Sound(C!B!DeleteData(x.buf, half - 1)) /\ C!B!DeleteData(x.buf, half - 1).entries = half - 1
        /\ \A r \in 0 .. half - 1 - 1 : C!B!Rec(C!B!DeleteData(x.buf, half - 1), r) = C!B!Rec(x.buf, r)
    BY <2>1, DeleteDataSound
  <2>3. QED
    BY <2>1, <2>2
<1>5. /\ Sound(high) /\ high.entries = e - half
      /\ \A r \in 0 .. e - half - 1 : C!B!Rec(high, r) = C!B!Rec(x.buf, half + r)
  <2>1. Dimensions /\ Sound(x.buf) /\ half \in 0 .. x.buf.entries - 1
    BY <1>1, <1>3, Sizes
  <2> HIDE DEF x
  <2>2. /\ Sound(C!B!CopyData(x.buf, half)) /\ C!B!CopyData(x.buf, half).entries = x.buf.entries - half
        /\ \A r \in 0 .. x.buf.entries - half - 1 :
             C!B!Rec(C!B!CopyData(x.buf, half), r) = C!B!Rec(x.buf, half + r)
    BY <2>1, CopyDataSound
  <2>3. QED
    BY <2>2
<1>6. sep = Key(x, half - 1) /\ middle.value \in Nat /\ middle.value = C!GetChild(x, half)
  <2>1. middle.value \in Nat
    BY <1>1, <1>3, BufferParts
  <2>2. half # 0
    BY <1>3
  <2>3. QED
    BY <2>1, <2>2 DEF Key, C!GetChild
<1>7. /\ kept \in NodeSet /\ kept.type = "INDEX" /\ kept.link = x.link /\ kept.buf = low
      /\ new \in NodeSet /\ new.type = "INDEX" /\ new.link = C!GetChild(x, half) /\ new.buf = high
  <2> HIDE DEF low, high, middle
  <2>1. QED
    BY <1>1, <1>4, <1>5, <1>6, NodeOf, SMTT(60)
<1> HIDE DEF low, high, middle, sep, kept, new, x, e
<1>8. /\ \A r \in 0 .. e - 1 : Key(x, r) \in Nat /\ g[n].lo < Key(x, r) /\ Key(x, r) < g[n].hi
      /\ \A r, t \in 0 .. e - 1 : r < t => Key(x, r) < Key(x, t)
  <2>1. x.type = "INDEX"
    BY DEF x
  <2>2. QED
    BY <1>1, <2>1, KeyIs DEF Inside, e
<1>9. sep \in Nat /\ g[n].lo < sep /\ sep < g[n].hi
  BY <1>3, <1>6, <1>8
<1>10. /\ c[N + 1] = Stretch(g[n].h, sep, g[n].hi) /\ c[N + 1] \in Span
       /\ c[n] = Stretch(g[n].h, g[n].lo, sep) /\ c[n] \in Span
       /\ \A i \in 1 .. N : i # n => c[i] = g[i]
  <2>1. /\ c \in [1 .. N + 1 -> Span]
        /\ c[N + 1] = Stretch(g[n].h, sep, g[n].hi)
        /\ c[n] = Stretch(g[n].h, g[n].lo, sep)
        /\ \A m \in 1 .. N : m # n => c[m] = g[m]
        /\ \A i \in 1 .. N : c[i].h = g[i].h /\ c[i].lo = g[i].lo
    <3> HIDE DEF N
    <3>1. c \in [1 .. N + 1 -> Span]
      BY <1>2, <1>9, CutSpans
    <3>2. /\ c[N + 1] = Stretch(g[n].h, sep, g[n].hi) /\ c[n] = Stretch(g[n].h, g[n].lo, sep)
          /\ \A m \in 1 .. N : m # n => c[m] = g[m]
      BY <1>2, CutAt
    <3>3. ASSUME NEW i \in 1 .. N PROVE c[i].h = g[i].h /\ c[i].lo = g[i].lo
      BY <3>2, StretchFields
    <3> HIDE DEF c
    <3>4. QED
      BY <3>1, <3>2, <3>3
  <2>2. N + 1 \in 1 .. N + 1 /\ n \in 1 .. N + 1
    BY <1>2
  <2>3. QED
    BY <1>1, <2>1, <2>2
<1>11. /\ \A r \in 0 .. half - 2 : Key(kept, r) = Key(x, r)
       /\ \A r \in 0 .. e - half - 1 : Key(new, r) = Key(x, half + r)
  BY <1>4, <1>5, <1>7 DEF Key
<1>12. Inside(kept, c[n])
  <2>1. ASSUME NEW r \in 0 .. half - 2
        PROVE  g[n].lo <= Key(kept, r) /\ g[n].lo < Key(kept, r) /\ Key(kept, r) < sep
    <3>1. r \in 0 .. e - 1 /\ r < half - 1
      BY <1>1, <1>3, LowerRank
    <3>2. Key(x, r) < Key(x, half - 1) /\ Key(x, r) \in Nat /\ g[n].lo < Key(x, r)
      BY <1>3, <1>8, <3>1
    <3>3. QED
      BY <1>1, <1>6, <1>11, <3>2
  <2>2. \A r \in 0 .. kept.buf.entries - 1 : r \in 0 .. half - 2
    BY <1>3, <1>4, <1>7
  <2>3. /\ c[n].h # 0 /\ c[n].lo = g[n].lo /\ c[n].hi = sep /\ c[n] \in Span
    BY <1>1, <1>10 DEF Stretch
  <2>4. g[n].lo < sep /\ sep <= Top
    BY <1>1, <1>9, Sizes DEF Top
  <2>5. QED
    BY <1>4, <1>7, <2>1, <2>2, <2>3, <2>4 DEF Inside
<1>13. Inside(new, c[N + 1])
  <2>1. ASSUME NEW r \in 0 .. e - half - 1
        PROVE  sep <= Key(new, r) /\ sep < Key(new, r) /\ Key(new, r) < g[n].hi
    <3>1. half + r \in 0 .. e - 1 /\ half - 1 < half + r
      BY <1>1, <1>3
    <3>2. Key(x, half + r) \in Nat /\ Key(x, half + r) < g[n].hi /\ Key(x, half - 1) < Key(x, half + r)
      BY <1>3, <1>8, <3>1
    <3>3. QED
      BY <1>6, <1>9, <1>11, <3>2
  <2>2. QED
    BY <1>1, <1>5, <1>7, <1>9, <1>10, <2>1 DEF Inside, Stretch
<1>14. ASSUME NEW i \in 0 .. e
       PROVE  /\ C!GetChild(x, i) \in 1 .. N + 1 /\ c[C!GetChild(x, i)] = Part(x, g[n], i)
  <2>1. /\ C!GetChild(x, i) \in 1 .. N /\ g[C!GetChild(x, i)] = Part(x, g[n], i)
        /\ g[C!GetChild(x, i)].h < g[n].h
    <3>1. x.type = "INDEX"
      BY DEF x
    <3>2. QED
      BY <3>1, ChildIn DEF x, e, N
  <2>2. C!GetChild(x, i) # n
    BY <1>1, <2>1
  <2>3. QED
    BY <1>2, <1>10, <2>1, <2>2
<1>15. Shared(kept, c[n], c, N + 1)
  <2>1. ASSUME NEW j \in 0 .. half - 1
        PROVE  C!GetChild(kept, j) = C!GetChild(x, j) /\ Part(kept, c[n], j) = Part(x, g[n], j) /\ j \in 0 .. e
    <3>1. /\ j \in 0 .. e /\ j # e /\ (j # 0 => j - 1 \in 0 .. half - 2)
          /\ (j # half - 1 => j \in 0 .. half - 2)
      BY <1>1, <1>3
    <3>2. C!GetChild(kept, j) = C!GetChild(x, j)
      BY <1>4, <1>7, <3>1 DEF C!GetChild
    <3>3. j # 0 => Key(kept, j - 1) = Key(x, j - 1)
      BY <1>11, <3>1
    <3>4. (IF j = half - 1 THEN sep ELSE Key(kept, j)) = Key(x, j)
      BY <1>6, <1>11, <3>1
    <3>5. Part(kept, c[n], j) = Part(x, g[n], j)
      BY <1>4, <1>7, <1>10, <3>1, <3>3, <3>4 DEF Part, e, Stretch
    <3>6. QED
      BY <3>1, <3>2, <3>5
  <2>2. QED
    BY <1>4, <1>7, <1>14, <2>1 DEF Shared
<1>16. Shared(new, c[N + 1], c, N + 1)
  <2>1. ASSUME NEW j \in 0 .. e - half
        PROVE  /\ C!GetChild(new, j) = C!GetChild(x, half + j)
               /\ Part(new, c[N + 1], j) = Part(x, g[n], half + j) /\ half + j \in 0 .. e
    <3> DEFINE p == half + j
    <3>1. /\ p \in 0 .. e /\ p # 0 /\ (j = e - half <=> p = e)
          /\ (j # 0 => j - 1 \in 0 .. e - half - 1 /\ half + (j - 1) = p - 1)
          /\ (j # e - half => j \in 0 .. e - half - 1) /\ (j = 0 => p = half /\ p - 1 = half - 1)
      BY <1>1, <1>3
    <3>2. j # e - half => Key(new, j) = Key(x, p)
      BY <1>11, <3>1
    <3> HIDE DEF p
    <3>3. C!GetChild(new, j) = C!GetChild(x, p)
      <4>1. CASE j = 0
        BY <1>7, <3>1, <4>1 DEF C!GetChild
      <4>2. CASE j # 0
        <5>1. C!GetChild(new, j) = C!B!Rec(high, j - 1).value
          BY <1>7, <4>2 DEF C!GetChild
        <5>2. C!GetChild(x, p) = C!B!Rec(x.buf, p - 1).value
          BY <3>1 DEF C!GetChild
        <5>3. C!B!Rec(high, j - 1) = C!B!Rec(x.buf, p - 1)
          BY <1>5, <3>1, <4>2
        <5>4. QED
          BY <5>1, <5>2, <5>3
      <4>3. QED
        BY <4>1, <4>2
    <3>4. (IF j = 0 THEN sep ELSE Key(new, j - 1)) = Key(x, p - 1)
      <4>1. CASE j = 0
        BY <1>6, <3>1, <4>1
      <4>2. CASE j # 0
        BY <1>11, <3>1, <4>2
      <4>3. QED
        BY <4>1, <4>2
    <3>5. Part(new, c[N + 1], j) = Part(x, g[n], p)
      <4>1. /\ c[N + 1].h = g[n].h /\ c[N + 1].lo = sep /\ c[N + 1].hi = g[n].hi
            /\ new.buf.entries = e - half
        BY <1>5, <1>7, <1>10 DEF Stretch
      <4>2. Part(new, c[N + 1], j).hi = Part(x, g[n], p).hi
        BY <3>1, <3>2, <4>1 DEF Part, e, Stretch
      <4>3. Part(new, c[N + 1], j).lo = Part(x, g[n], p).lo
        BY <3>1, <3>4, <4>1 DEF Part, Stretch
      <4>4. Part(new, c[N + 1], j).h = Part(x, g[n], p).h
        BY <4>1 DEF Part, Stretch
      <4>5. QED
        BY <4>2, <4>3, <4>4 DEF Part, Stretch
    <3>6. QED
      BY <3>1, <3>3, <3>5 DEF p
  <2>2. QED
    BY <1>5, <1>7, <1>14, <2>1 DEF Shared
<1>17. Fits(kept, c[n], c, N + 1) /\ Fits(new, c[N + 1], c, N + 1)
  BY <1>7, <1>12, <1>13, <1>15, <1>16 DEF Fits
<1>18. \A k, v : HoldsIn(nodes[n], k, v) <=> HoldsIn(kept, k, v) \/ HoldsIn(new, k, v)
  BY <1>7 DEF HoldsIn
<1>19. kept.buf.entries < MaxEntries /\ new.buf.entries < MaxEntries
  BY <1>3, <1>4, <1>5, <1>7
<1>20. C!SplitIndex(nodes, n, parent) = C!Attach(nodes, n, kept, new, sep, parent)
  BY DEF C!SplitIndex, kept, new, sep, middle, low, high, half, x, e, N
<1>21. QED
  BY <1>9, <1>17, <1>18, <1>19, <1>20, SplitGood


-----------------------------------------------------------------------------
(* Calls on one leaf *)

(* A pair is in a buffer. *)
In(b, k, v) == \E r \in 0 .. b.entries - 1 : C!B!Rec(b, r) = [key |-> k, value |-> v]

(* Every key of a buffer is from lo up to hi. *)
Between(b, lo, hi) == \A r \in 0 .. b.entries - 1 : lo <= C!B!Rec(b, r).key /\ C!B!Rec(b, r).key < hi

(* What is in a buffer is of the right type, and under a key but once. *)
LEMMA InOnce ==
  ASSUME NEW b, Sound(b), NEW k, NEW v, In(b, k, v)
  PROVE  /\ k \in Nat /\ v \in Nat
         /\ \A w : In(b, k, w) => w = v
<1>1. /\ \A r \in 0 .. b.entries - 1 : C!B!Rec(b, r) \in [key : Nat, value : Nat]
      /\ \A r, s \in 0 .. b.entries - 1 : r < s => C!B!Rec(b, r).key < C!B!Rec(b, s).key
      /\ \A r \in 0 .. b.entries - 1 : C!B!Rec(b, r).key \in Nat /\ C!B!Rec(b, r).value \in Nat
      /\ b.entries \in Nat
  BY BufferParts
<1>2. PICK r \in 0 .. b.entries - 1 : C!B!Rec(b, r) = [key |-> k, value |-> v]
  BY DEF In
<1>3. C!B!Rec(b, r).key = k /\ C!B!Rec(b, r).value = v
  BY <1>2
<1>4. k \in Nat /\ v \in Nat
  BY <1>1, <1>3
<1>5. ASSUME NEW w, In(b, k, w) PROVE w = v
  <2>1. PICK s \in 0 .. b.entries - 1 : C!B!Rec(b, s) = [key |-> k, value |-> w]
    BY <1>5 DEF In
  <2>2. C!B!Rec(b, s).key = k /\ C!B!Rec(b, s).value = w
    BY <2>1
  <2>3. r \in Int /\ s \in Int
    BY <1>1
  <2>4. ~ (r < s) /\ ~ (s < r)
    BY <1>1, <1>3, <1>4, <2>2
  <2>5. r = s
    BY <2>3, <2>4
  <2>6. QED
    BY <1>3, <2>2, <2>5
<1>6. QED
  BY <1>4, <1>5

(* Find tells whether there is a pair under the key, and where. *)
LEMMA FindIn ==
  ASSUME NEW b, Sound(b), NEW k \in Nat
  PROVE  LET f == C!B!Find(b, k)
         IN  /\ f.exist \in BOOLEAN
             /\ f.exist => /\ f.pos \in 0 .. b.entries - 1 /\ C!B!Rec(b, f.pos).key = k
                           /\ C!B!Rec(b, f.pos).value \in Nat
                           /\ In(b, k, C!B!Rec(b, f.pos).value)
             /\ ~ f.exist => \A v : ~ In(b, k, v)
<1> DEFINE f == C!B!Find(b, k)
<1>1. /\ f.exist \in BOOLEAN
      /\ f.exist => f.pos \in 0 .. b.entries - 1 /\ C!B!Rec(b, f.pos).key = k
      /\ ~ f.exist => /\ f.pos \in 0 .. b.entries
                      /\ \A r \in 0 .. b.entries - 1 : /\ r < f.pos => C!B!Rec(b, r).key < k
                                                       /\ r >= f.pos => C!B!Rec(b, r).key > k
  BY FindFinds
<1>2. /\ \A r \in 0 .. b.entries - 1 : C!B!Rec(b, r) \in [key : Nat, value : Nat]
      /\ b.entries \in Nat
  BY BufferParts
<1> HIDE DEF f
<1>3. ASSUME f.exist
      PROVE  C!B!Rec(b, f.pos).value \in Nat /\ In(b, k, C!B!Rec(b, f.pos).value)
  <2>1. f.pos \in 0 .. b.entries - 1 /\ C!B!Rec(b, f.pos).key = k
    BY <1>1, <1>3
  <2>2. C!B!Rec(b, f.pos) \in [key : Nat, value : Nat]
    BY <1>2, <2>1
  <2>3. C!B!Rec(b, f.pos) = [key |-> k, value |-> C!B!Rec(b, f.pos).value]
    BY <2>1, <2>2
  <2>4. QED
    BY <2>1, <2>2, <2>3 DEF In
<1>4. ASSUME ~ f.exist, NEW v, In(b, k, v) PROVE FALSE
  <2>1. PICK r \in 0 .. b.entries - 1 : C!B!Rec(b, r) = [key |-> k, value |-> v]
    BY <1>4 DEF In
  <2>2. C!B!Rec(b, r).key = k
    BY <2>1
  <2>3. f.pos \in 0 .. b.entries /\ (r < f.pos => k < k) /\ (r >= f.pos => k > k)
    BY <1>1, <1>4, <2>2
  <2>4. r < f.pos \/ r >= f.pos
    BY <1>2, <2>3
  <2>5. QED
    BY <2>3, <2>4
<1>5. QED
  BY <1>1, <1>3, <1>4 DEF f

(* Put of an absent key adds its pair. *)
LEMMA PutIn ==
  ASSUME NEW b, Sound(b), b.entries < MaxEntries, NEW k \in Nat, NEW v \in Nat,
         ~ C!B!Find(b, k).exist
  PROVE  LET a == C!B!Put(b, C!B!Find(b, k).pos, k, v)
         IN  /\ Sound(a) /\ a.entries = b.entries + 1
             /\ \A x, w : In(a, x, w) <=> IF x = k THEN w = v ELSE In(b, x, w)
             /\ \A lo, hi : Between(b, lo, hi) /\ lo <= k /\ k < hi => Between(a, lo, hi)
<1> DEFINE p == C!B!Find(b, k).pos
           a == C!B!Put(b, p, k, v)
           e == b.entries
<1>1. /\ Sound(a) /\ a.entries = e + 1 /\ p \in 0 .. e
      /\ \A r \in 0 .. e :
           C!B!Rec(a, r) = IF r < p THEN C!B!Rec(b, r)
                           ELSE IF r = p THEN [key |-> k, value |-> v]
                           ELSE C!B!Rec(b, r - 1)
  BY PutIs
<1>2. e \in Nat
  BY BufferParts
<1>3. \A w : ~ In(b, k, w)
  BY FindIn
<1> HIDE DEF a, p, e
<1>4. \A r \in 0 .. e : r < p \/ r = p \/ r > p
  BY <1>1, <1>2
<1>5. ASSUME NEW r \in 0 .. e
      PROVE  C!B!Rec(a, r) = [key |-> k, value |-> v] \/ \E s \in 0 .. e - 1 : C!B!Rec(a, r) = C!B!Rec(b, s)
  <2>1. CASE r < p
    <3>1. r \in 0 .. e - 1
      BY <1>1, <1>2, <2>1
    <3>2. QED
      BY <1>1, <2>1, <3>1
  <2>2. CASE r = p
    <3>1. ~ (r < p)
      BY <1>1, <1>2, <2>2
    <3>2. QED
      BY <1>1, <2>2, <3>1
  <2>3. CASE r > p
    <3>1. r - 1 \in 0 .. e - 1 /\ ~ (r < p) /\ r # p
      BY <1>1, <1>2, <2>3
    <3>2. QED
      BY <1>1, <3>1
  <2>4. QED
    BY <1>4, <2>1, <2>2, <2>3
<1>6. \E r \in 0 .. e : C!B!Rec(a, r) = [key |-> k, value |-> v]
  <2>1. p \in 0 .. e /\ ~ (p < p)
    BY <1>1, <1>2
  <2>2. QED
    BY <1>1, <2>1
<1>7. ASSUME NEW s \in 0 .. e - 1
      PROVE  \E r \in 0 .. e : C!B!Rec(a, r) = C!B!Rec(b, s)
  <2>1. CASE s < p
    <3>1. s \in 0 .. e
      BY <1>2
    <3>2. QED
      BY <1>1, <2>1, <3>1
  <2>2. CASE ~ (s < p)
    <3>1. s + 1 \in 0 .. e /\ ~ (s + 1 < p) /\ s + 1 # p /\ s + 1 - 1 = s
      BY <1>1, <1>2, <2>2
    <3>2. QED
      BY <1>1, <3>1
  <2>3. QED
    BY <2>1, <2>2
<1>8. a.entries - 1 = e
  BY <1>1, <1>2
<1>9. ASSUME NEW x, NEW w PROVE In(a, x, w) <=> IF x = k THEN w = v ELSE In(b, x, w)
  <2>1. In(a, x, w) <=> \E r \in 0 .. e : C!B!Rec(a, r) = [key |-> x, value |-> w]
    BY <1>8 DEF In
  <2>2. In(b, x, w) <=> \E r \in 0 .. e - 1 : C!B!Rec(b, r) = [key |-> x, value |-> w]
    BY DEF In, e
  <2>3. [key |-> k, value |-> v] = [key |-> x, value |-> w] <=> k = x /\ v = w
    BY Zenon
  <2>4. In(a, x, w) <=> (k = x /\ v = w) \/ In(b, x, w)
    BY <1>5, <1>6, <1>7, <2>1, <2>2, <2>3
  <2>5. QED
    BY <1>3, <2>4
<1>10. ASSUME NEW lo, NEW hi, Between(b, lo, hi), lo <= k, k < hi PROVE Between(a, lo, hi)
  <2>1. ASSUME NEW r \in 0 .. e PROVE lo <= C!B!Rec(a, r).key /\ C!B!Rec(a, r).key < hi
    <3>1. CASE C!B!Rec(a, r) = [key |-> k, value |-> v]
      BY <1>10, <3>1
    <3>2. CASE \E s \in 0 .. e - 1 : C!B!Rec(a, r) = C!B!Rec(b, s)
      BY <1>10, <3>2 DEF Between, e
    <3>3. QED
      BY <1>5, <3>1, <3>2
  <2>2. QED
    BY <1>8, <2>1 DEF Between
<1>11. QED
  BY <1>1, <1>9, <1>10 DEF a, p, e

(* Update gives the pair under the key another value. *)
LEMMA UpdateIn ==
  ASSUME NEW b, Sound(b), NEW k \in Nat, NEW v \in Nat, C!B!Find(b, k).exist
  PROVE  LET a == C!B!Update(b, C!B!Find(b, k).pos, v)
         IN  /\ Sound(a) /\ a.entries = b.entries
             /\ \A x, w : In(a, x, w) <=> IF x = k THEN w = v ELSE In(b, x, w)
             /\ \A lo, hi : Between(b, lo, hi) => Between(a, lo, hi)
<1> DEFINE p == C!B!Find(b, k).pos
           a == C!B!Update(b, p, v)
           e == b.entries
<1>1. p \in 0 .. e - 1 /\ C!B!Rec(b, p).key = k /\ In(b, k, C!B!Rec(b, p).value)
  BY FindIn
<1> HIDE DEF p
<1>2. /\ Sound(a) /\ a.entries = e /\ C!B!Rec(a, p) = [key |-> k, value |-> v]
      /\ \A r \in 0 .. e - 1 : r # p => C!B!Rec(a, r) = C!B!Rec(b, r)
  BY <1>1, Sizes, UpdateSound
<1> HIDE DEF a, e
<1>3. \A r, s \in 0 .. e - 1 : C!B!Rec(b, r).key = C!B!Rec(b, s).key => r = s
  <2>1. /\ \A r, s \in 0 .. e - 1 : r < s => C!B!Rec(b, r).key < C!B!Rec(b, s).key
        /\ \A r \in 0 .. e - 1 : C!B!Rec(b, r).key \in Nat
        /\ e \in Nat
    BY BufferParts DEF e
  <2>2. ASSUME NEW r \in 0 .. e - 1, NEW s \in 0 .. e - 1, C!B!Rec(b, r).key = C!B!Rec(b, s).key
        PROVE  r = s
    <3>1. ~ (r < s) /\ ~ (s < r)
      BY <2>1, <2>2
    <3>2. QED
      BY <2>1, <3>1
  <2>3. QED
    BY <2>2
<1>4. ASSUME NEW x, NEW w PROVE In(a, x, w) <=> IF x = k THEN w = v ELSE In(b, x, w)
  <2>1. In(a, x, w) <=> \E r \in 0 .. e - 1 : C!B!Rec(a, r) = [key |-> x, value |-> w]
    BY <1>2 DEF In
  <2>2. In(b, x, w) <=> \E r \in 0 .. e - 1 : C!B!Rec(b, r) = [key |-> x, value |-> w]
    BY DEF In, e
  <2>3. [key |-> k, value |-> v] = [key |-> x, value |-> w] <=> k = x /\ v = w
    BY Zenon
  <2>4. CASE x = k
    <3>1. ASSUME NEW r \in 0 .. e - 1, r # p, C!B!Rec(b, r) = [key |-> x, value |-> w] PROVE FALSE
      <4>1. C!B!Rec(b, r).key = k
        BY <2>4, <3>1
      <4>2. QED
        BY <1>1, <1>3, <3>1, <4>1
    <3>2. In(a, x, w) <=> v = w
      BY <1>1, <1>2, <2>1, <2>3, <2>4, <3>1
    <3>3. QED
      BY <2>4, <3>2
  <2>5. CASE x # k
    <3>1. C!B!Rec(b, p) # [key |-> x, value |-> w] /\ C!B!Rec(a, p) # [key |-> x, value |-> w]
      BY <1>1, <1>2, <2>3, <2>5
    <3>2. QED
      BY <1>1, <1>2, <2>1, <2>2, <2>5, <3>1
  <2>6. QED
    BY <2>4, <2>5
<1>5. ASSUME NEW lo, NEW hi, Between(b, lo, hi) PROVE Between(a, lo, hi)
  <2>1. ASSUME NEW r \in 0 .. e - 1 PROVE C!B!Rec(a, r).key = C!B!Rec(b, r).key
    BY <1>1, <1>2, <2>1
  <2>2. QED
    BY <1>2, <1>5, <2>1 DEF Between, e
<1>6. QED
  BY <1>2, <1>4, <1>5 DEF a, p, e

(* Delete takes the pair under the key out. *)
LEMMA DeleteIn ==
  ASSUME NEW b, Sound(b), NEW k \in Nat, C!B!Find(b, k).exist
  PROVE  LET a == C!B!Delete(b, C!B!Find(b, k).pos)
         IN  /\ Sound(a) /\ a.entries = b.entries - 1
             /\ \A x, w : In(a, x, w) <=> x # k /\ In(b, x, w)
             /\ \A lo, hi : Between(b, lo, hi) => Between(a, lo, hi)
<1> DEFINE p == C!B!Find(b, k).pos
           a == C!B!Delete(b, p)
           e == b.entries
<1>1. p \in 0 .. e - 1 /\ C!B!Rec(b, p).key = k
  BY FindIn
<1> HIDE DEF p
<1>2. /\ b \in Buffers /\ e \in Nat
      /\ \A r, s \in 0 .. e - 1 : r < s => C!B!Rec(b, r).key < C!B!Rec(b, s).key
      /\ \A r \in 0 .. e - 1 : C!B!Rec(b, r).key \in Nat
  BY BufferParts DEF Sound
<1>3. a.entries = e - 1
  BY <1>2 DEF C!B!Delete, Buffers
<1>4. /\ Sound(a)
      /\ \A r \in 0 .. p - 1 : C!B!Rec(a, r) = C!B!Rec(b, r)
      /\ \A r \in p .. a.entries - 1 : C!B!Rec(a, r) = C!B!Rec(b, r + 1)
  BY <1>1, Sizes, DeleteSound
<1> HIDE DEF a, e
<1>5. p \in Nat /\ p < e /\ e \in Nat
  BY <1>1, <1>2
<1>6. ASSUME NEW r \in 0 .. e - 2
      PROVE  \E s \in 0 .. e - 1 : s # p /\ C!B!Rec(a, r) = C!B!Rec(b, s)
  <2>1. CASE r < p
    <3>1. r \in 0 .. p - 1 /\ r \in 0 .. e - 1 /\ r # p
      BY <1>5, <2>1
    <3>2. QED
      BY <1>4, <3>1
  <2>2. CASE ~ (r < p)
    <3>1. r \in p .. e - 1 - 1 /\ r + 1 \in 0 .. e - 1 /\ r + 1 # p
      BY <1>5, <2>2
    <3>2. QED
      BY <1>3, <1>4, <3>1
  <2>3. QED
    BY <2>1, <2>2
<1>7. ASSUME NEW s \in 0 .. e - 1, s # p
      PROVE  \E r \in 0 .. e - 2 : C!B!Rec(a, r) = C!B!Rec(b, s)
  <2>1. CASE s < p
    <3>1. s \in 0 .. p - 1 /\ s \in 0 .. e - 2
      BY <1>5, <2>1
    <3>2. QED
      BY <1>4, <3>1
  <2>2. CASE ~ (s < p)
    <3>1. s - 1 \in p .. e - 1 - 1 /\ s - 1 \in 0 .. e - 2 /\ s - 1 + 1 = s
      BY <1>5, <1>7, <2>2
    <3>2. QED
      BY <1>3, <1>4, <3>1
  <2>3. QED
    BY <2>1, <2>2
<1>8. e - 1 - 1 = e - 2
  BY <1>5
<1>9. ASSUME NEW s \in 0 .. e - 1 PROVE C!B!Rec(b, s).key = k <=> s = p
  <2>1. C!B!Rec(b, s).key = k => ~ (s < p) /\ ~ (p < s)
    BY <1>1, <1>2
  <2>2. QED
    BY <1>1, <1>5, <2>1
<1>10. ASSUME NEW x, NEW w PROVE In(a, x, w) <=> x # k /\ In(b, x, w)
  <2>1. In(a, x, w) <=> \E r \in 0 .. e - 2 : C!B!Rec(a, r) = [key |-> x, value |-> w]
    BY <1>3, <1>8 DEF In
  <2>2. In(b, x, w) <=> \E r \in 0 .. e - 1 : C!B!Rec(b, r) = [key |-> x, value |-> w]
    BY DEF In, e
  <2>3. \A s \in 0 .. e - 1 : C!B!Rec(b, s) = [key |-> x, value |-> w] => (x = k <=> s = p)
    <3>1. ASSUME NEW s \in 0 .. e - 1, C!B!Rec(b, s) = [key |-> x, value |-> w] PROVE x = k <=> s = p
      <4>1. C!B!Rec(b, s).key = x
        BY <3>1
      <4>2. QED
        BY <1>9, <4>1
    <3>2. QED
      BY <3>1
  <2>4. QED
    BY <1>6, <1>7, <2>1, <2>2, <2>3
<1>11. ASSUME NEW lo, NEW hi, Between(b, lo, hi) PROVE Between(a, lo, hi)
  <2>1. ASSUME NEW r \in 0 .. e - 2 PROVE lo <= C!B!Rec(a, r).key /\ C!B!Rec(a, r).key < hi
    <3>1. PICK s \in 0 .. e - 1 : C!B!Rec(a, r) = C!B!Rec(b, s)
      BY <1>6
    <3>2. QED
      BY <1>11, <3>1 DEF Between, e
  <2>2. QED
    BY <1>3, <1>8, <2>1 DEF Between
<1>12. QED
  BY <1>3, <1>4, <1>10, <1>11 DEF a, p, e

(* Pairs of a leaf are pairs of its buffer; an index node has none. *)
LEMMA HoldsInIs ==
  ASSUME NEW x, NEW k, NEW v
  PROVE  HoldsIn(x, k, v) <=> x.type = "LEAF" /\ In(x.buf, k, v)
BY DEF HoldsIn, In

(* A tree in which no node is full is one in which any may be. *)
LEMMA TreeWeaker ==
  ASSUME NEW nodes, NEW root, NEW g, NEW q, NEW p, Tree(nodes, root, g, q),
         q \in 1 .. Len(nodes) /\ q # p => nodes[q].buf.entries < MaxEntries
  PROVE  Tree(nodes, root, g, p)
<1>1. \A n \in 1 .. Len(nodes) : n # p => nodes[n].buf.entries < MaxEntries
  BY DEF Tree
<1>2. QED
  BY <1>1 DEF Tree

(* The pairs of a leaf are those of the tree with a key in its span. *)
LEMMA HoldsWhere ==
  ASSUME NEW nodes, NEW root, NEW g, NEW q, Tree(nodes, root, g, q),
         NEW n \in 1 .. Len(nodes), nodes[n].type = "LEAF", NEW k \in Nat, NEW v
  PROVE  HoldsIn(nodes[n], k, v) <=> Holds(nodes, k, v) /\ g[n].lo <= k /\ k < g[n].hi
<1>1. ASSUME NEW m \in 1 .. Len(nodes), HoldsIn(nodes[m], k, v)
      PROVE  g[m].h = 0 /\ g[m].lo <= k /\ k < g[m].hi
  <2>1. PICK r \in 0 .. nodes[m].buf.entries - 1 : C!B!Rec(nodes[m].buf, r) = [key |-> k, value |-> v]
    BY <1>1 DEF HoldsIn
  <2>2. Key(nodes[m], r) = k
    BY <2>1 DEF Key
  <2>3. Inside(nodes[m], g[m]) /\ nodes[m].type = "LEAF"
    BY <1>1, NodeParts DEF HoldsIn
  <2>4. QED
    BY <2>1, <2>2, <2>3 DEF Inside
<1>2. ASSUME Holds(nodes, k, v), g[n].lo <= k, k < g[n].hi PROVE HoldsIn(nodes[n], k, v)
  <2>1. PICK m \in 1 .. Len(nodes) : HoldsIn(nodes[m], k, v)
    BY <1>2 DEF Holds
  <2>2. g[m].h = 0 /\ g[m].lo <= k /\ k < g[m].hi
    BY <1>1, <2>1
  <2>3. g[n].h = 0
    BY NodeParts
  <2>4. CASE m # n
    <3>1. Apart(g[m], g[n])
      BY <2>4 DEF Tree
    <3>2. g[m].hi <= g[n].lo \/ g[n].hi <= g[m].lo
      BY <2>2, <2>3, <3>1 DEF Apart
    <3>3. g[m].lo \in Nat /\ g[m].hi \in Nat /\ g[n].lo \in Nat /\ g[n].hi \in Nat
      BY NodeParts
    <3>4. FALSE
      BY <1>2, <2>2, <3>2, <3>3, SMTT(60)
    <3>5. QED
      BY <3>4
  <2>5. QED
    BY <2>1, <2>4
<1>3. QED
  BY <1>1, <1>2 DEF Holds

(* The nodes once node n has another buffer. *)
WithBuf(nodes, n, b) == [nodes EXCEPT ![n].buf = b]

(* A leaf gets another buffer, with keys from its span. *)
LEMMA LeafWrite ==
  ASSUME NEW nodes, NEW root, NEW g, Tree(nodes, root, g, 0),
         NEW n \in 1 .. Len(nodes), nodes[n].type = "LEAF",
         NEW b, Sound(b), Between(b, g[n].lo, g[n].hi),
         NEW after, after = WithBuf(nodes, n, b)
  PROVE  /\ Tree(after, root, g, n) /\ (b.entries < MaxEntries => Tree(after, root, g, 0))
         /\ Len(after) = Len(nodes) /\ after[n].type = "LEAF" /\ after[n].link = nodes[n].link
         /\ after[n].buf = b
         /\ \A m \in 1 .. Len(nodes) : m # n => after[m] = nodes[m]
         /\ \A k \in Nat : \A v : Holds(after, k, v)
              <=> IF g[n].lo <= k /\ k < g[n].hi THEN In(b, k, v) ELSE Holds(nodes, k, v)
<1> DEFINE N == Len(nodes)
           x == nodes[n]
           y == C!Node("LEAF", x.link, b)
<1>1. /\ nodes \in Seq(NodeSet) /\ N \in Nat /\ g \in [1 .. N -> Span]
      /\ \A j, m \in 1 .. N : j # m => Apart(g[j], g[m])
      /\ root \in 1 .. N /\ g[root].lo = 0 /\ g[root].hi = Top
      /\ \A m \in 1 .. N : m # root => g[m].h < g[root].h
      /\ \A m \in 1 .. N : nodes[m].buf.entries < MaxEntries
      /\ \A m \in 1 .. N : Fits(nodes[m], g[m], g, N)
  <2>1. \A m \in 1 .. N : m # 0
    OBVIOUS
  <2>2. QED
    BY <2>1 DEF Tree
<1>2. x \in NodeSet /\ x.link \in Nat /\ x.type = "LEAF" /\ Fits(x, g[n], g, N) /\ Inside(x, g[n]) /\ g[n].h = 0
  BY NodeParts
<1>3. y \in NodeSet /\ y.type = "LEAF" /\ y.link = x.link /\ y.buf = b
  BY <1>2, NodeOf
<1>4. after = [nodes EXCEPT ![n] = y]
  <2>1. x = [type |-> "LEAF", link |-> x.link, buf |-> x.buf]
    <3> HIDE DEF x
    <3>1. QED
      BY <1>2 DEF NodeSet
  <2>2. [x EXCEPT !.buf = b] = y
    <3> HIDE DEF x
    <3>1. QED
      BY <2>1 DEF C!Node
  <2>3. n \in DOMAIN nodes
    BY <1>1
  <2>4. QED
    BY <2>2, <2>3 DEF WithBuf
<1> HIDE DEF y
<1>5. /\ after \in Seq(NodeSet) /\ Len(after) = N /\ after[n] = y
      /\ \A m \in 1 .. N : m # n => after[m] = nodes[m]
  <2>1. nodes \in Seq(NodeSet) /\ y \in NodeSet
    BY <1>1, <1>3
  <2>2. QED
    BY <1>4, <2>1
<1>6. Fits(y, g[n], g, N)
  <2>1. Linked(x, g[n], g, N)
    BY <1>2 DEF Fits
  <2>2. Linked(y, g[n], g, N)
    BY <1>3, <2>1 DEF Linked
  <2>3. Inside(y, g[n])
    BY <1>2, <1>3 DEF Inside, Between, Key
  <2>4. QED
    BY <1>3, <2>2, <2>3 DEF Fits
<1> HIDE DEF x, N
<1>7. \A m \in 1 .. N : Fits(after[m], g[m], g, N) /\ (m # n => after[m].buf.entries < MaxEntries)
  BY <1>1, <1>5, <1>6
<1>8. Tree(after, root, g, n)
  BY <1>1, <1>5, <1>7 DEF Tree
<1>9. b.entries < MaxEntries => Tree(after, root, g, 0)
  BY <1>3, <1>5, <1>8, TreeWeaker
<1>10. n \in 1 .. N /\ after[n].type = "LEAF" /\ after[n].buf = b
  BY <1>3, <1>5 DEF N
<1>11. ASSUME NEW k \in Nat, NEW v
       PROVE  Holds(after, k, v)
                <=> IF g[n].lo <= k /\ k < g[n].hi THEN In(b, k, v) ELSE Holds(nodes, k, v)
  <2>1. HoldsIn(after[n], k, v) <=> Holds(after, k, v) /\ g[n].lo <= k /\ k < g[n].hi
    BY <1>5, <1>8, <1>10, HoldsWhere
  <2>2. HoldsIn(after[n], k, v) <=> In(b, k, v)
    BY <1>10, HoldsInIs
  <2>3. HoldsIn(nodes[n], k, v) <=> Holds(nodes, k, v) /\ g[n].lo <= k /\ k < g[n].hi
    BY HoldsWhere
  <2>4. ASSUME ~ (g[n].lo <= k /\ k < g[n].hi) PROVE Holds(after, k, v) <=> Holds(nodes, k, v)
    <3>1. ~ HoldsIn(after[n], k, v) /\ ~ HoldsIn(nodes[n], k, v)
      BY <2>1, <2>3, <2>4
    <3>2. Holds(after, k, v) <=> \E m \in 1 .. N : m # n /\ HoldsIn(after[m], k, v)
      BY <1>5, <3>1 DEF Holds
    <3>3. Holds(nodes, k, v) <=> \E m \in 1 .. N : m # n /\ HoldsIn(nodes[m], k, v)
      BY <3>1 DEF Holds, N
    <3>4. QED
      BY <1>5, <3>2, <3>3
  <2>5. QED
    BY <2>1, <2>2, <2>4
<1>12. QED
  BY <1>3, <1>5, <1>8, <1>9, <1>11 DEF x, N

(* Put in a leaf. *)
LEMMA PutLeafGood ==
  ASSUME NEW nodes, NEW root, NEW g, Tree(nodes, root, g, 0),
         NEW n \in 1 .. Len(nodes), nodes[n].type = "LEAF",
         NEW parent, Below(nodes, root, n, parent),
         NEW key \in Nat, NEW value \in Nat, g[n].lo <= key, key < g[n].hi
  PROVE  LET r == C!PutLeaf(nodes, n, key, value, parent)
         IN  /\ Grown(nodes, root, g, n, parent, r)
             /\ \A k \in Nat : \A v : Holds(r.nodes, k, v)
                  <=> IF k = key THEN v = value ELSE Holds(nodes, k, v)
<1> DEFINE b == nodes[n].buf
           f == C!B!Find(b, key)
           a == IF f.exist THEN C!B!Update(b, f.pos, value) ELSE C!B!Put(b, f.pos, key, value)
           put == [nodes EXCEPT ![n].buf = a]
           r == C!PutLeaf(nodes, n, key, value, parent)
<1>1. Sound(b) /\ b.entries < MaxEntries /\ b.entries \in Nat /\ n # 0
  <2>1. n # 0
    OBVIOUS
  <2>2. b.entries < MaxEntries
    BY <2>1 DEF Tree
  <2>3. QED
    BY <2>1, <2>2, NodeParts, BufferParts
<1>2. Between(b, g[n].lo, g[n].hi)
  <2>1. Inside(nodes[n], g[n])
    BY NodeParts
  <2>2. QED
    BY <2>1 DEF Inside, Between, Key
<1>3. f.exist \in BOOLEAN
  BY <1>1, FindIn
<1> HIDE DEF b
<1>4. /\ Sound(a) /\ Between(a, g[n].lo, g[n].hi)
      /\ \A x, w : In(a, x, w) <=> IF x = key THEN w = value ELSE In(b, x, w)
      /\ f.exist => a.entries = b.entries
      /\ ~ f.exist => a.entries = b.entries + 1
  <2>1. CASE f.exist
    <3>1. a = C!B!Update(b, f.pos, value)
      BY <2>1
    <3> HIDE DEF a
    <3>2. /\ Sound(a) /\ a.entries = b.entries
          /\ \A x, w : In(a, x, w) <=> IF x = key THEN w = value ELSE In(b, x, w)
          /\ \A lo, hi : Between(b, lo, hi) => Between(a, lo, hi)
      BY <1>1, <2>1, <3>1, UpdateIn
    <3>3. QED
      BY <1>2, <2>1, <3>2
  <2>2. CASE ~ f.exist
    <3>1. a = C!B!Put(b, f.pos, key, value)
      BY <2>2
    <3> HIDE DEF a
    <3>2. /\ Sound(a) /\ a.entries = b.entries + 1
          /\ \A x, w : In(a, x, w) <=> IF x = key THEN w = value ELSE In(b, x, w)
          /\ \A lo, hi : Between(b, lo, hi) /\ lo <= key /\ key < hi => Between(a, lo, hi)
      BY <1>1, <2>2, <3>1, PutIn
    <3>3. QED
      BY <1>2, <2>2, <3>2
  <2>3. QED
    BY <1>3, <2>1, <2>2
<1>5. r = IF ~ f.exist /\ C!IsFull(a) THEN C!SplitLeaf(put, n, parent) ELSE [nodes |-> put, ret |-> n]
  BY DEF C!PutLeaf, b
<1> HIDE DEF a, f, r
<1>6. put = WithBuf(nodes, n, a)
  BY DEF WithBuf
<1> HIDE DEF put
<1>7. /\ Tree(put, root, g, n) /\ (a.entries < MaxEntries => Tree(put, root, g, 0))
      /\ Len(put) = Len(nodes) /\ put[n].type = "LEAF" /\ put[n].buf = a
      /\ \A m \in 1 .. Len(nodes) : m # n => put[m] = nodes[m]
      /\ \A k \in Nat : \A v : Holds(put, k, v)
           <=> IF g[n].lo <= k /\ k < g[n].hi THEN In(a, k, v) ELSE Holds(nodes, k, v)
  <2>1. Sound(a) /\ Between(a, g[n].lo, g[n].hi)
    BY <1>4
  <2>2. QED
    BY <1>6, <2>1, LeafWrite
<1>8. ASSUME NEW k \in Nat, NEW v
      PROVE  Holds(put, k, v) <=> IF k = key THEN v = value ELSE Holds(nodes, k, v)
  <2>1. HoldsIn(nodes[n], k, v) <=> Holds(nodes, k, v) /\ g[n].lo <= k /\ k < g[n].hi
    BY HoldsWhere
  <2>2. HoldsIn(nodes[n], k, v) <=> In(b, k, v)
    BY HoldsInIs DEF b
  <2>3. QED
    BY <1>4, <1>7, <2>1, <2>2
<1>9. parent # n /\ (parent # 0 => parent \in 1 .. Len(nodes) /\ nodes[parent].type = "INDEX")
  BY <1>1 DEF Below
<1>10. Below(put, root, n, parent)
  BY <1>7, <1>9 DEF Below
<1>11. g[n].h = 0
  BY NodeParts
<1>12. CASE ~ f.exist /\ C!IsFull(a)
  <2>1. r = C!SplitLeaf(put, n, parent) /\ a.entries = MaxEntries
    BY <1>5, <1>12 DEF C!IsFull
  <2>2. /\ Grown(put, root, g, n, parent, r) /\ r.ret # n
        /\ \A k, v : Holds(r.nodes, k, v) <=> Holds(put, k, v)
    BY <1>7, <1>10, <2>1, SplitLeafGood
  <2>3. Grown(nodes, root, g, n, parent, r)
    <3>1. PICK g1 :
            /\ Tree(r.nodes, IF parent = 0 THEN r.ret ELSE root, g1, IF r.ret = n THEN 0 ELSE parent)
            /\ Len(put) <= Len(r.nodes)
            /\ parent # 0 => /\ g1[parent] = g[parent] /\ r.nodes[parent].type = "INDEX"
                             /\ r.ret = n => r.nodes[parent] = put[parent]
            /\ \A m \in 1 .. Len(put) : g[n].h < g[m].h /\ m # parent
                                            => r.nodes[m] = put[m] /\ g1[m] = g[m]
      BY <2>2 DEF Grown
    <3>2. \A m \in 1 .. Len(nodes) : g[n].h < g[m].h => m # n
      BY <1>11
    <3>3. \A m \in 1 .. Len(nodes) : g[n].h < g[m].h /\ m # parent
                                       => r.nodes[m] = nodes[m] /\ g1[m] = g[m]
      BY <1>7, <3>1, <3>2
    <3>4. QED
      BY <1>7, <2>2, <3>1, <3>3 DEF Grown
  <2>4. QED
    BY <1>8, <2>2, <2>3 DEF r
<1>13. CASE ~ (~ f.exist /\ C!IsFull(a))
  <2>1. r = [nodes |-> put, ret |-> n]
    BY <1>5, <1>13
  <2>2. a.entries < MaxEntries
    <3>1. CASE f.exist
      BY <1>1, <1>4, <3>1
    <3>2. CASE ~ f.exist
      <4>1. a.entries = b.entries + 1 /\ a.entries # MaxEntries
        BY <1>4, <1>13, <3>2 DEF C!IsFull
      <4>2. QED
        BY <1>1, <4>1, Sizes
    <3>3. QED
      BY <3>1, <3>2
  <2>3. Tree(put, root, g, 0) /\ r.nodes = put /\ r.ret = n
    BY <1>7, <2>1, <2>2
  <2>4. parent = 0 => root = n
    BY DEF Below
  <2>5. Grown(nodes, root, g, n, parent, r)
    <3>1. Tree(r.nodes, IF parent = 0 THEN r.ret ELSE root, g, IF r.ret = n THEN 0 ELSE parent)
      BY <2>3, <2>4
    <3>2. parent # 0 => r.nodes[parent] = nodes[parent] /\ r.nodes[parent].type = "INDEX"
      BY <1>7, <1>9, <2>3
    <3>3. \A m \in 1 .. Len(nodes) : g[n].h < g[m].h => m # n
      BY <1>11
    <3>4. Len(nodes) <= Len(r.nodes)
      <4>1. nodes \in Seq(NodeSet)
        BY DEF Tree
      <4>2. QED
        BY <1>7, <2>3, <4>1
    <3>5. \A m \in 1 .. Len(nodes) : g[n].h < g[m].h => r.nodes[m] = nodes[m]
      BY <1>7, <2>3, <3>3
    <3>6. QED
      BY <3>1, <3>2, <3>4, <3>5 DEF Grown
  <2>6. QED
    BY <1>8, <2>3, <2>5 DEF r
<1>14. QED
  BY <1>12, <1>13

(* Put in an index node, once it has been done in a child. *)
LEMMA PutIndexGood ==
  ASSUME NEW nodes, NEW root, NEW g, Tree(nodes, root, g, 0),
         NEW n \in 1 .. Len(nodes), nodes[n].type = "INDEX",
         NEW parent, Below(nodes, root, n, parent),
         NEW child \in 1 .. Len(nodes), g[child].h < g[n].h,
         NEW s, Grown(nodes, root, g, child, n, s)
  PROVE  LET r == C!PutIndex(s, n, child, parent)
         IN  /\ Grown(nodes, root, g, n, parent, r)
             /\ \A k, v : Holds(r.nodes, k, v) <=> Holds(s.nodes, k, v)
<1> DEFINE r == C!PutIndex(s, n, child, parent)
<1>1. n # 0
  OBVIOUS
<1>2. PICK g1 : /\ Tree(s.nodes, root, g1, IF s.ret = child THEN 0 ELSE n)
                /\ Len(nodes) <= Len(s.nodes)
                /\ g1[n] = g[n] /\ s.nodes[n].type = "INDEX"
                /\ s.ret = child => s.nodes[n] = nodes[n]
                /\ \A m \in 1 .. Len(nodes) : g[child].h < g[m].h /\ m # n
                                                => s.nodes[m] = nodes[m] /\ g1[m] = g[m]
  BY <1>1 DEF Grown
<1>3. /\ Len(nodes) \in Nat /\ Len(s.nodes) \in Nat /\ n \in 1 .. Len(s.nodes)
      /\ \A m \in 1 .. Len(nodes) : m \in 1 .. Len(s.nodes) /\ g[m].h \in Nat
  <2>1. Len(nodes) \in Nat /\ Len(s.nodes) \in Nat
    BY <1>2 DEF Tree
  <2>2. \A m \in 1 .. Len(nodes) : g[m].h \in Nat
    BY NodeParts
  <2>3. QED
    BY <1>2, <2>1, <2>2
<1>4. parent # 0 => parent \in 1 .. Len(nodes) /\ nodes[parent].type = "INDEX" /\ g[n].h < g[parent].h /\ parent # n
  <2>1. CASE parent # 0
    <3>1. PICK i \in 0 .. nodes[parent].buf.entries : C!GetChild(nodes[parent], i) = n
      BY <2>1 DEF Below
    <3>2. parent \in 1 .. Len(nodes) /\ nodes[parent].type = "INDEX"
      BY <2>1 DEF Below
    <3>3. g[n].h < g[parent].h
      BY <3>1, <3>2, ChildIn
    <3>4. QED
      BY <1>3, <3>2, <3>3
  <2>2. QED
    BY <2>1
<1>5. \A m \in 1 .. Len(nodes) : g[n].h < g[m].h => s.nodes[m] = nodes[m] /\ g1[m] = g[m]
  <2>1. ASSUME NEW m \in 1 .. Len(nodes), g[n].h < g[m].h PROVE s.nodes[m] = nodes[m] /\ g1[m] = g[m]
    <3>1. g[child].h < g[m].h /\ m # n
      BY <1>3, <2>1
    <3>2. QED
      BY <1>2, <3>1
  <2>2. QED
    BY <2>1
<1>6. parent # 0 => s.nodes[parent] = nodes[parent] /\ g1[parent] = g[parent]
  BY <1>4, <1>5
<1>7. Below(s.nodes, root, n, parent)
  BY <1>3, <1>4, <1>6 DEF Below
<1>8. parent = 0 => root = n
  BY DEF Below
<1>9. CASE s.ret # child /\ C!IsFull(s.nodes[n].buf)
  <2>1. r = C!SplitIndex(s.nodes, n, parent) /\ s.nodes[n].buf.entries = MaxEntries
    BY <1>9 DEF C!PutIndex, C!IsFull
  <2> HIDE DEF r
  <2>2. Tree(s.nodes, root, g1, n)
    BY <1>2, <1>9
  <2>3. /\ Grown(s.nodes, root, g1, n, parent, r) /\ r.ret # n
        /\ \A k, v : Holds(r.nodes, k, v) <=> Holds(s.nodes, k, v)
    BY <1>2, <1>3, <1>7, <2>1, <2>2, SplitIndexGood
  <2>4. PICK g2 :
          /\ Tree(r.nodes, IF parent = 0 THEN r.ret ELSE root, g2, IF r.ret = n THEN 0 ELSE parent)
          /\ Len(s.nodes) <= Len(r.nodes)
          /\ parent # 0 => /\ g2[parent] = g1[parent] /\ r.nodes[parent].type = "INDEX"
                           /\ r.ret = n => r.nodes[parent] = s.nodes[parent]
          /\ \A m \in 1 .. Len(s.nodes) : g1[n].h < g1[m].h /\ m # parent
                                          => r.nodes[m] = s.nodes[m] /\ g2[m] = g1[m]
    BY <2>3 DEF Grown
  <2>5. Len(nodes) <= Len(r.nodes)
    <3>1. Len(r.nodes) \in Nat
      BY <2>4 DEF Tree
    <3>2. QED
      BY <1>2, <1>3, <2>4, <3>1
  <2>6. ASSUME NEW m \in 1 .. Len(nodes), g[n].h < g[m].h, m # parent
        PROVE  r.nodes[m] = nodes[m] /\ g2[m] = g[m]
    <3>1. s.nodes[m] = nodes[m] /\ g1[m] = g[m] /\ m \in 1 .. Len(s.nodes)
      BY <1>3, <1>5, <2>6
    <3>2. g1[n].h < g1[m].h
      BY <1>2, <2>6, <3>1
    <3>3. QED
      BY <2>4, <2>6, <3>1, <3>2
  <2>7. parent # 0 => g2[parent] = g[parent]
    BY <1>6, <2>4
  <2>8. Grown(nodes, root, g, n, parent, r)
    BY <2>3, <2>4, <2>5, <2>6, <2>7 DEF Grown
  <2>9. QED
    BY <2>3, <2>8 DEF r
<1>10. CASE ~ (s.ret # child /\ C!IsFull(s.nodes[n].buf))
  <2>1. r = [nodes |-> s.nodes, ret |-> n]
    BY <1>10 DEF C!PutIndex
  <2> HIDE DEF r
  <2>2. r.nodes = s.nodes /\ r.ret = n
    BY <2>1
  <2>3. Tree(s.nodes, root, g1, 0)
    <3>1. CASE s.ret = child
      BY <1>2, <3>1
    <3>2. CASE s.ret # child
      <4>1. Tree(s.nodes, root, g1, n)
        BY <1>2, <3>2
      <4>2. s.nodes[n].buf.entries \in 0 .. MaxEntries /\ s.nodes[n].buf.entries # MaxEntries
        BY <1>3, <1>10, <3>2, <4>1, NodeParts DEF C!IsFull
      <4>3. s.nodes[n].buf.entries < MaxEntries
        BY <4>2, Sizes, SMTT(60)
      <4>4. QED
        BY <4>1, <4>3, TreeWeaker
    <3>3. QED
      BY <3>1, <3>2
  <2>4. Tree(r.nodes, IF parent = 0 THEN r.ret ELSE root, g1, IF r.ret = n THEN 0 ELSE parent)
    BY <1>8, <2>2, <2>3
  <2>5. parent # 0 => r.nodes[parent] = nodes[parent] /\ r.nodes[parent].type = "INDEX"
    BY <1>4, <1>6, <2>2
  <2>6. Grown(nodes, root, g, n, parent, r)
    BY <1>2, <1>5, <1>6, <2>2, <2>4, <2>5 DEF Grown
  <2>7. QED
    BY <2>2, <2>6 DEF r
<1>11. QED
  BY <1>9, <1>10

-----------------------------------------------------------------------------
(* Put from the root down *)

(* A search goes to a child, whatever the key. *)
LEMMA ChildForAny ==
  ASSUME NEW x, Sound(x.buf), NEW k \in Nat
  PROVE  \E i \in 0 .. x.buf.entries : C!ChildFor(x, k) = C!GetChild(x, i)
<1> DEFINE p == C!B!FindLE(x.buf, k)
<1>1. p \in -1 .. x.buf.entries - 1 /\ x.buf.entries \in Nat
  BY FindLEIs, BufferParts
<1>2. C!ChildFor(x, k) = C!GetChild(x, p + 1)
  BY DEF C!ChildFor
<1> HIDE DEF p
<1>3. p + 1 \in 0 .. x.buf.entries
  BY <1>1
<1>4. QED
  BY <1>2, <1>3

(* The child that a key is sought in lies lower. *)
LEMMA ChildLower ==
  ASSUME NEW nodes, NEW root, NEW g, NEW q, Tree(nodes, root, g, q),
         NEW n \in 1 .. Len(nodes), nodes[n].type # "LEAF", NEW k \in Nat
  PROVE  /\ C!ChildFor(nodes[n], k) \in 1 .. Len(nodes) /\ g[C!ChildFor(nodes[n], k)].h < g[n].h
         /\ \E i \in 0 .. nodes[n].buf.entries : C!ChildFor(nodes[n], k) = C!GetChild(nodes[n], i)
         /\ g[n].lo <= k /\ k < g[n].hi
              => g[C!ChildFor(nodes[n], k)].lo <= k /\ k < g[C!ChildFor(nodes[n], k)].hi
<1>1. Sound(nodes[n].buf) /\ nodes[n].type = "INDEX" /\ Inside(nodes[n], g[n])
  BY NodeParts
<1>2. PICK i \in 0 .. nodes[n].buf.entries : C!ChildFor(nodes[n], k) = C!GetChild(nodes[n], i)
  BY <1>1, ChildForAny
<1>3. C!GetChild(nodes[n], i) \in 1 .. Len(nodes) /\ g[C!GetChild(nodes[n], i)].h < g[n].h
  BY <1>1, ChildIn
<1>4. ASSUME g[n].lo <= k, k < g[n].hi
      PROVE  g[C!ChildFor(nodes[n], k)].lo <= k /\ k < g[C!ChildFor(nodes[n], k)].hi
  <2>1. PICK j \in 0 .. nodes[n].buf.entries :
          /\ C!ChildFor(nodes[n], k) = C!GetChild(nodes[n], j)
          /\ Part(nodes[n], g[n], j).lo <= k /\ k < Part(nodes[n], g[n], j).hi
    BY <1>1, <1>4, ChildForIs
  <2>2. g[C!GetChild(nodes[n], j)] = Part(nodes[n], g[n], j)
    BY <1>1, ChildIn
  <2>3. QED
    BY <2>1, <2>2
<1>5. QED
  BY <1>2, <1>3, <1>4

(* The root is highest. *)
LEMMA HeightsBounded ==
  ASSUME NEW nodes, NEW root, NEW g, NEW q, Tree(nodes, root, g, q)
  PROVE  /\ root \in 1 .. Len(nodes) /\ g[root].h \in Nat /\ Len(nodes) \in Nat
         /\ \A n \in 1 .. Len(nodes) : g[n].h \in 0 .. g[root].h
<1>1. root \in 1 .. Len(nodes) /\ \A n \in 1 .. Len(nodes) : n # root => g[n].h < g[root].h
  BY DEF Tree
<1>2. \A n \in 1 .. Len(nodes) : g[n].h \in Nat
  BY NodeParts
<1>3. Len(nodes) \in Nat
  BY DEF Tree
<1>4. QED
  BY <1>1, <1>2, <1>3

(* One call of Node::Put, with the answers of those below it in f. *)
PutTurn(f, nodes, key, value, at) ==
  LET n     == at[1]
      child == C!ChildFor(nodes[n], key)
  IN  IF nodes[n].type = "LEAF" THEN C!PutLeaf(nodes, n, key, value, at[2])
      ELSE C!PutIndex(f[<<child, n>>], n, child, at[2])

(* A node and the node that the Put came to it from, 0 for none. *)
PutPlaces(nodes) == (1 .. Len(nodes)) \X (0 .. Len(nodes))

(* f answers the call of Put at every place. *)
Puts(f, nodes, key, value) ==
  f = [at \in PutPlaces(nodes) |-> PutTurn(f, nodes, key, value, at)]

(* The calls end: there is a function that answers all of them. *)
LEMMA PutsExist ==
  ASSUME NEW nodes, NEW root, NEW g, NEW q, Tree(nodes, root, g, q), NEW key \in Nat, NEW value
  PROVE  \E f : Puts(f, nodes, key, value)
<1> DEFINE D == PutPlaces(nodes)
           H == g[root].h
           Low(k) == {at \in D : g[at[1]].h < k}
           T(f, at) == PutTurn(f, nodes, key, value, at)
           P(f, k) == f = [at \in Low(k) |-> T(f, at)]
           G == {k \in 0 .. H + 1 : \E f : P(f, k)}
<1>1. /\ H \in Nat /\ Len(nodes) \in Nat /\ \A n \in 1 .. Len(nodes) : g[n].h \in 0 .. H
  BY HeightsBounded
<1>2. ASSUME NEW at \in D, nodes[at[1]].type # "LEAF"
      PROVE  /\ <<C!ChildFor(nodes[at[1]], key), at[1]>> \in D
             /\ g[(<<C!ChildFor(nodes[at[1]], key), at[1]>>)[1]].h < g[at[1]].h
  <2>1. at[1] \in 1 .. Len(nodes)
    BY DEF PutPlaces
  <2>2. C!ChildFor(nodes[at[1]], key) \in 1 .. Len(nodes) /\ g[C!ChildFor(nodes[at[1]], key)].h < g[at[1]].h
    BY <1>2, <2>1, ChildLower
  <2>3. at[1] \in 0 .. Len(nodes)
    BY <1>1, <2>1
  <2>4. QED
    BY <2>1, <2>2, <2>3 DEF PutPlaces
<1>3. \A at \in D : g[at[1]].h \in 0 .. H
  BY <1>1 DEF PutPlaces
<1> HIDE DEF D, H
<1>4. ASSUME NEW f, NEW h, NEW at \in D, \A b \in D : g[b[1]].h < g[at[1]].h => f[b] = h[b]
      PROVE  T(f, at) = T(h, at)
  <2>1. CASE nodes[at[1]].type = "LEAF"
    BY <2>1 DEF PutTurn
  <2>2. CASE nodes[at[1]].type # "LEAF"
    <3>1. f[<<C!ChildFor(nodes[at[1]], key), at[1]>>] = h[<<C!ChildFor(nodes[at[1]], key), at[1]>>]
      BY <1>2, <1>4, <2>2
    <3>2. QED
      BY <2>2, <3>1 DEF PutTurn
  <2>3. QED
    BY <2>1, <2>2
<1> HIDE DEF T
<1>5. 0 \in G
  <2>1. Low(0) = {}
    BY <1>3
  <2> DEFINE f == [at \in Low(0) |-> 0]
  <2>2. P(f, 0)
    BY <2>1
  <2>3. 0 \in 0 .. H + 1
    BY <1>1 DEF H
  <2>4. QED
    BY <2>2, <2>3
<1>6. ASSUME NEW k \in 0 .. H + 1 - 1, k \in G PROVE k + 1 \in G
  <2>1. PICK f : P(f, k)
    BY <1>6
  <2> DEFINE h == [at \in Low(k + 1) |-> T(f, at)]
  <2>2. H \in Nat /\ k \in Nat
    BY <1>1 DEF H
  <2>3. \A at \in Low(k) : f[at] = T(f, at)
    <3> HIDE DEF Low
    <3>1. QED
      BY <2>1
  <2>4. \A at \in Low(k) : at \in Low(k + 1)
    BY <1>3, <2>2
  <2>5. \A at \in Low(k) : f[at] = h[at]
    <3> HIDE DEF Low
    <3>1. QED
      BY <2>3, <2>4
  <2>6. ASSUME NEW at \in Low(k + 1) PROVE T(f, at) = T(h, at)
    <3>1. at \in D /\ g[at[1]].h < k + 1 /\ g[at[1]].h \in Nat
      BY <1>3
    <3>2. ASSUME NEW b \in D, g[b[1]].h < g[at[1]].h PROVE b \in Low(k)
      BY <1>3, <2>2, <3>1, <3>2
    <3> HIDE DEF h, Low
    <3>3. QED
      BY <1>4, <2>5, <3>1, <3>2
  <2>7. P(h, k + 1)
    <3> HIDE DEF Low
    <3>1. \A at \in Low(k + 1) : T(f, at) = T(h, at)
      BY <2>6
    <3>2. [at \in Low(k + 1) |-> T(f, at)] = [at \in Low(k + 1) |-> T(h, at)]
      <4> HIDE DEF h
      <4>1. QED
        BY <3>1
    <3>3. QED
      BY <3>2
  <2>8. k + 1 \in 0 .. H + 1
    BY <2>2
  <2> HIDE DEF P, h
  <2>9. QED
    BY <2>7, <2>8
<1>7. H + 1 \in G
  <2> DEFINE M == H + 1
  <2>1. M \in Nat /\ M \in 0 .. M
    BY <1>1 DEF H
  <2>2. \A i \in 0 .. M - 1 : i \in G => i + 1 \in G
    <3>1. H \in Nat
      BY <1>1
    <3> HIDE DEF G
    <3>2. QED
      BY <1>6, <3>1
  <2> HIDE DEF G, M
  <2>3. \A i \in 0 .. M : i \in G
    BY <1>5, <2>1, <2>2, Induct
  <2>4. M \in G
    BY <2>1, <2>3
  <2>5. QED
    BY <2>4 DEF M
<1>8. Low(H + 1) = D
  <2>1. H \in Nat
    BY <1>1 DEF H
  <2>2. QED
    BY <1>3, <2>1
<1>9. PICK f : P(f, H + 1)
  BY <1>7
<1>10. f = [at \in D |-> T(f, at)]
  <2> HIDE DEF Low
  <2>1. QED
    BY <1>8, <1>9
<1>11. QED
  BY <1>10 DEF Puts, T, D

(* What NodePut finds. *)
LEMMA NodePutIs ==
  ASSUME NEW nodes, NEW root, NEW g, NEW q, Tree(nodes, root, g, q), NEW key \in Nat, NEW value
  PROVE  \E f : Puts(f, nodes, key, value) /\ C!NodePut(nodes, root, key, value) = f[<<root, 0>>]
<1> DEFINE Body(f, at) == LET n     == at[1]
                              child == C!ChildFor(nodes[n], key)
                          IN  IF nodes[n].type = "LEAF" THEN C!PutLeaf(nodes, n, key, value, at[2])
                              ELSE C!PutIndex(f[<<child, n>>], n, child, at[2])
           P(f) == f = [at \in (1 .. Len(nodes)) \X (0 .. Len(nodes)) |-> Body(f, at)]
<1>1. \A f : P(f) <=> Puts(f, nodes, key, value)
  BY DEF Puts, PutPlaces, PutTurn
<1>2. \E f : P(f)
  <2> HIDE DEF P
  <2>1. QED
    BY <1>1, PutsExist
<1>3. C!NodePut(nodes, root, key, value) = (CHOOSE f : P(f))[<<root, 0>>]
  BY DEF C!NodePut
<1>4. P(CHOOSE f : P(f))
  <2> HIDE DEF P
  <2>1. QED
    BY <1>2
<1> HIDE DEF P
<1>5. QED
  BY <1>1, <1>3, <1>4

(* What is asked of the answer at every node. *)
PutGoodAt(f, nodes, root, g, key, value, n, parent) ==
  LET r == f[<<n, parent>>]
  IN  /\ Grown(nodes, root, g, n, parent, r)
      /\ \A k \in Nat : \A v : Holds(r.nodes, k, v) <=> IF k = key THEN v = value ELSE Holds(nodes, k, v)

(* Put adds the pair, or replaces its value, and leaves a tree. *)
LEMMA NodePutGood ==
  ASSUME NEW nodes, NEW root, NEW g, Tree(nodes, root, g, 0),
         NEW key \in Nat, key < Top, NEW value \in Nat
  PROVE  LET r == C!NodePut(nodes, root, key, value)
         IN  /\ \E g1 : Tree(r.nodes, r.ret, g1, 0)
             /\ \A k \in Nat : \A v : Holds(r.nodes, k, v)
                  <=> IF k = key THEN v = value ELSE Holds(nodes, k, v)
<1>1. PICK f : Puts(f, nodes, key, value) /\ C!NodePut(nodes, root, key, value) = f[<<root, 0>>]
  BY NodePutIs
<1>2. /\ root \in 1 .. Len(nodes) /\ g[root].h \in Nat /\ Len(nodes) \in Nat
      /\ \A n \in 1 .. Len(nodes) : g[n].h \in 0 .. g[root].h
  BY HeightsBounded
<1> DEFINE H == g[root].h
           Good(n, parent) == PutGoodAt(f, nodes, root, g, key, value, n, parent)
           Asked(n, parent) == Below(nodes, root, n, parent) /\ g[n].lo <= key /\ key < g[n].hi
           G == {k \in 0 .. H + 1 : \A n \in 1 .. Len(nodes) : \A parent \in 0 .. Len(nodes) :
                    g[n].h < k /\ Asked(n, parent) => Good(n, parent)}
<1>3. 0 \in G
  <2>1. \A n \in 1 .. Len(nodes) : ~ (g[n].h < 0)
    BY <1>2
  <2>2. 0 \in 0 .. H + 1
    BY <1>2
  <2> HIDE DEF Good, Asked
  <2>3. QED
    BY <2>1, <2>2
<1>4. ASSUME NEW k \in 0 .. H + 1 - 1, k \in G PROVE k + 1 \in G
  <2>1. ASSUME NEW n \in 1 .. Len(nodes), NEW parent \in 0 .. Len(nodes), g[n].h < k + 1, Asked(n, parent)
        PROVE  Good(n, parent)
    <3>1. <<n, parent>> \in PutPlaces(nodes)
      BY DEF PutPlaces
    <3>2. f[<<n, parent>>] = IF nodes[n].type = "LEAF" THEN C!PutLeaf(nodes, n, key, value, parent)
                             ELSE C!PutIndex(f[<<C!ChildFor(nodes[n], key), n>>], n, C!ChildFor(nodes[n], key), parent)
      BY <1>1, <3>1 DEF Puts, PutTurn
    <3>3. CASE nodes[n].type = "LEAF"
      <4>1. f[<<n, parent>>] = C!PutLeaf(nodes, n, key, value, parent)
        BY <3>2, <3>3
      <4>2. QED
        BY <2>1, <3>3, <4>1, PutLeafGood DEF PutGoodAt
    <3>4. CASE nodes[n].type # "LEAF"
      <4> DEFINE c == C!ChildFor(nodes[n], key)
      <4>1. /\ c \in 1 .. Len(nodes) /\ g[c].h < g[n].h /\ g[c].lo <= key /\ key < g[c].hi
            /\ \E i \in 0 .. nodes[n].buf.entries : C!GetChild(nodes[n], i) = c
        BY <2>1, <3>4, ChildLower
      <4>2. nodes[n].type = "INDEX" /\ n # 0 /\ n \in 0 .. Len(nodes)
        BY <1>2, <3>4, NodeParts
      <4>3. f[<<n, parent>>] = C!PutIndex(f[<<c, n>>], n, c, parent)
        BY <3>2, <3>4
      <4> HIDE DEF c
      <4>4. Below(nodes, root, c, n)
        BY <4>1, <4>2 DEF Below
      <4>5. g[c].h < k
        <5>1. g[c].h \in Nat /\ g[n].h \in Nat /\ k \in Nat
          BY <1>2, <4>1
        <5>2. QED
          BY <2>1, <4>1, <5>1
      <4>6. Good(c, n)
        <5> HIDE DEF Good
        <5>1. Asked(c, n)
          BY <4>1, <4>4
        <5> HIDE DEF Asked
        <5>2. QED
          BY <1>4, <4>1, <4>2, <4>5, <5>1
      <4>7. /\ Grown(nodes, root, g, c, n, f[<<c, n>>])
            /\ \A x \in Nat : \A v : Holds(f[<<c, n>>].nodes, x, v)
                 <=> IF x = key THEN v = value ELSE Holds(nodes, x, v)
        BY <4>6 DEF PutGoodAt
      <4>8. /\ Grown(nodes, root, g, n, parent, f[<<n, parent>>])
            /\ \A x, v : Holds(f[<<n, parent>>].nodes, x, v) <=> Holds(f[<<c, n>>].nodes, x, v)
        <5> DEFINE s == f[<<c, n>>]
        <5>1. f[<<n, parent>>] = C!PutIndex(s, n, c, parent)
          BY <4>3
        <5>2. Grown(nodes, root, g, c, n, s)
          BY <4>7
        <5>3. Below(nodes, root, n, parent)
          BY <2>1
        <5> HIDE DEF s, Good, Asked, G, H
        <5>4. LET r == C!PutIndex(s, n, c, parent)
              IN  /\ Grown(nodes, root, g, n, parent, r)
                  /\ \A x, v : Holds(r.nodes, x, v) <=> Holds(s.nodes, x, v)
          BY <4>1, <4>2, <5>2, <5>3, PutIndexGood
        <5>5. QED
          BY <5>1, <5>4 DEF s
      <4>9. QED
        BY <4>7, <4>8 DEF PutGoodAt
    <3>5. QED
      BY <3>3, <3>4
  <2>2. k + 1 \in 0 .. H + 1
    BY <1>2
  <2> HIDE DEF Good, Asked, H
  <2>3. QED
    BY <2>1, <2>2
<1>5. H + 1 \in G
  <2> DEFINE M == H + 1
  <2>1. M \in Nat /\ M \in 0 .. M
    BY <1>2
  <2>2. \A i \in 0 .. M - 1 : i \in G => i + 1 \in G
    <3>1. H \in Nat
      BY <1>2
    <3> HIDE DEF G, H
    <3>2. QED
      BY <1>4, <3>1
  <2> HIDE DEF G, M
  <2>3. \A i \in 0 .. M : i \in G
    BY <1>3, <2>1, <2>2, Induct
  <2>4. M \in G
    BY <2>1, <2>3
  <2>5. QED
    BY <2>4 DEF M
<1>6. Good(root, 0)
  <2>1. g[root].h < H + 1 /\ 0 \in 0 .. Len(nodes)
    BY <1>2
  <2>2. g[root].lo = 0 /\ g[root].hi = Top
    BY DEF Tree
  <2>3. Asked(root, 0)
    BY <2>2 DEF Below
  <2> HIDE DEF Good, Asked
  <2>4. QED
    BY <1>2, <1>5, <2>1, <2>3
<1> DEFINE r == f[<<root, 0>>]
<1>7. /\ Grown(nodes, root, g, root, 0, r)
      /\ \A k \in Nat : \A v : Holds(r.nodes, k, v) <=> IF k = key THEN v = value ELSE Holds(nodes, k, v)
  BY <1>6 DEF PutGoodAt
<1> HIDE DEF r
<1>8. \E g1 : Tree(r.nodes, r.ret, g1, 0)
  BY <1>7 DEF Grown
<1>9. QED
  BY <1>1, <1>7, <1>8 DEF r

-----------------------------------------------------------------------------
(* Going down the tree *)

(* A recursive definition over D, with values in V: the turns B look only  *)
(* at members of a lower rank r.                                           *)
Recursive(D, V, M, r, B) ==
  /\ V # {} /\ M \in Nat /\ r \in [D -> 0 .. M]
  /\ B \in [[D -> V] \X D -> V]
  /\ \A f, h \in [D -> V] : \A x \in D :
       (\A y \in D : r[y] < r[x] => f[y] = h[y]) => B[<<f, x>>] = B[<<h, x>>]

(* Such a definition defines a function.                                   *)
LEMMA Recursion ==
  ASSUME NEW D, NEW V, NEW M, NEW r, NEW B, Recursive(D, V, M, r, B)
  PROVE  \E f \in [D -> V] : \A x \in D : f[x] = B[<<f, x>>]
<1>0. /\ V # {} /\ M \in Nat /\ r \in [D -> 0 .. M]
      /\ B \in [[D -> V] \X D -> V]
      /\ \A f, h \in [D -> V] : \A x \in D :
           (\A y \in D : r[y] < r[x] => f[y] = h[y]) => B[<<f, x>>] = B[<<h, x>>]
  BY DEF Recursive
<1> DEFINE G == {k \in 0 .. M + 1 : \E f \in [D -> V] : \A x \in D : r[x] < k => f[x] = B[<<f, x>>]}
           E == M + 1
<1>1. E \in Nat /\ E \in 0 .. E /\ 0 \in 0 .. E /\ \A x \in D : r[x] < E
  BY <1>0
<1>2. 0 \in G
  <2>1. PICK v \in V : TRUE
    BY <1>0
  <2> DEFINE f == [x \in D |-> v]
  <2>2. f \in [D -> V]
    OBVIOUS
  <2>3. \A x \in D : ~ (r[x] < 0)
    BY <1>0
  <2>4. QED
    BY <1>1, <2>2, <2>3
<1>3. ASSUME NEW k \in 0 .. E - 1, k \in G PROVE k + 1 \in G
  <2>1. PICK f \in [D -> V] : \A x \in D : r[x] < k => f[x] = B[<<f, x>>]
    BY <1>3
  <2> DEFINE h == [x \in D |-> B[<<f, x>>]]
  <2>2. h \in [D -> V]
    BY <1>0
  <2>3. ASSUME NEW x \in D, r[x] < k + 1 PROVE h[x] = B[<<h, x>>]
    <3>1. \A y \in D : r[y] < r[x] => r[y] < k
      BY <1>0, <2>3
    <3>2. \A y \in D : r[y] < r[x] => f[y] = h[y]
      BY <2>1, <3>1
    <3> HIDE DEF h
    <3>3. B[<<f, x>>] = B[<<h, x>>]
      BY <1>0, <2>2, <3>2
    <3>4. QED
      BY <3>3 DEF h
  <2>4. k + 1 \in 0 .. E
    BY <1>1
  <2> HIDE DEF h
  <2>5. QED
    BY <2>2, <2>3, <2>4
<1>4. \A k \in 0 .. E - 1 : k \in G => k + 1 \in G
  BY <1>3
<1> HIDE DEF G, E
<1>5. E \in G
  BY <1>1, <1>2, <1>4, Induct
<1>6. QED
  BY <1>1, <1>5 DEF G

(* What each member of D has when those of a lower rank have it, all have. *)
LEMMA ByRank ==
  ASSUME NEW D, NEW M \in Nat, NEW r \in [D -> 0 .. M], NEW G \in SUBSET D,
         \A x \in D : (\A y \in D : r[y] < r[x] => y \in G) => x \in G
  PROVE  G = D
<1> DEFINE Bad == {r[x] : x \in {y \in D : y \notin G}}
<1>1. SUFFICES ASSUME G # D PROVE FALSE
  OBVIOUS
<1>2. Bad \in SUBSET Nat /\ Bad # {}
  BY <1>1
<1>3. PICK k \in Bad : \A j \in Bad : k <= j
  <2> HIDE DEF Bad
  <2>1. QED
    BY <1>2, Least
<1>4. PICK x \in D : x \notin G /\ k = r[x]
  OBVIOUS
<1>5. \A y \in D : y \notin G => r[x] <= r[y]
  BY <1>3, <1>4
<1>6. \A y \in D : r[y] < r[x] => y \in G
  BY <1>5
<1>7. QED
  BY <1>4, <1>6

(* The heights of the nodes of a tree are a rank. *)
Heights(g, N) == [n \in 1 .. N |-> g[n].h]

(* Turn after turn of FindLeaf, or, with the first child, of FindHead. *)
Downs(down, nodes, Child) ==
  \A n \in 1 .. Len(nodes) : down[n] = IF nodes[n].type = "LEAF" THEN n ELSE down[Child[n]]

(* Such a function exists when each child is a lower node. *)
LEMMA DownsExist ==
  ASSUME NEW nodes, NEW root, NEW g, NEW q, Tree(nodes, root, g, q), NEW Child,
         \A n \in 1 .. Len(nodes) : nodes[n].type # "LEAF"
           => Child[n] \in 1 .. Len(nodes) /\ g[Child[n]].h < g[n].h
  PROVE  \E down \in [1 .. Len(nodes) -> 1 .. Len(nodes)] : Downs(down, nodes, Child)
<1> DEFINE D == 1 .. Len(nodes)
           r == Heights(g, Len(nodes))
           T(f, n) == IF nodes[n].type = "LEAF" THEN n ELSE f[Child[n]]
           B == [x \in [D -> D] \X D |-> T(x[1], x[2])]
<1>1. root \in D /\ g[root].h \in Nat /\ \A n \in D : r[n] \in 0 .. g[root].h /\ r[n] = g[n].h
  BY HeightsBounded DEF Heights
<1>2. D # {}
  BY <1>1
<1>3. \A f \in [D -> D] : \A n \in D : B[<<f, n>>] = T(f, n) /\ T(f, n) \in D
  OBVIOUS
<1>4. \A n \in D : nodes[n].type # "LEAF" => Child[n] \in D /\ r[Child[n]] < r[n]
  BY <1>1
<1> HIDE DEF r, B, D
<1>5. ASSUME NEW f \in [D -> D], NEW h \in [D -> D], NEW x \in D, \A y \in D : r[y] < r[x] => f[y] = h[y]
      PROVE  T(f, x) = T(h, x)
  BY <1>4, <1>5
<1> HIDE DEF T
<1>6. \E f \in [D -> D] : \A x \in D : f[x] = B[<<f, x>>]
  <2>1. B \in [[D -> D] \X D -> D]
    BY <1>3 DEF B
  <2> DEFINE H == g[root].h
  <2>2. H \in Nat /\ r \in [D -> 0 .. H]
    BY <1>1 DEF r, D, Heights
  <2> HIDE DEF H
  <2>3. \A f, h \in [D -> D] : \A x \in D :
          (\A y \in D : r[y] < r[x] => f[y] = h[y]) => B[<<f, x>>] = B[<<h, x>>]
    BY <1>3, <1>5
  <2>5. Recursive(D, D, H, r, B)
    BY <1>2, <2>1, <2>2, <2>3 DEF Recursive
  <2>4. QED
    BY <2>5, Recursion
<1>7. PICK f \in [D -> D] : \A x \in D : f[x] = T(f, x)
  BY <1>3, <1>6
<1>8. QED
  BY <1>7 DEF D, T, Downs

(* What FindLeaf finds: the leaf whose span holds the key. *)
LEMMA FindLeafGood ==
  ASSUME NEW t, NEW g, NEW q, Tree(t.nodes, t.root, g, q), NEW key \in Nat, key < Top
  PROVE  LET n == C!FindLeaf(t, key)
         IN  n \in 1 .. Len(t.nodes) /\ t.nodes[n].type = "LEAF" /\ g[n].lo <= key /\ key < g[n].hi
<1> DEFINE N == Len(t.nodes)
           nodes == t.nodes
           Child == [n \in 1 .. N |-> C!ChildFor(nodes[n], key)]
           P(f) == f = [n \in DOMAIN nodes |-> IF nodes[n].type = "LEAF" THEN n ELSE f[C!ChildFor(nodes[n], key)]]
           f == CHOOSE f : P(f)
           G == {n \in 1 .. N : g[n].lo <= key /\ key < g[n].hi
                   => f[n] \in 1 .. N /\ nodes[f[n]].type = "LEAF" /\ g[f[n]].lo <= key /\ key < g[f[n]].hi}
<1>1. DOMAIN nodes = 1 .. N
  BY DEF Tree
<1>2. \A n \in 1 .. N : nodes[n].type # "LEAF"
        => /\ Child[n] \in 1 .. N /\ g[Child[n]].h < g[n].h
           /\ g[n].lo <= key /\ key < g[n].hi => g[Child[n]].lo <= key /\ key < g[Child[n]].hi
  BY ChildLower
<1>3. PICK h \in [1 .. N -> 1 .. N] : Downs(h, nodes, Child)
  <2> HIDE DEF Child
  <2>1. QED
    BY <1>2, DownsExist
<1>4. P(h)
  BY <1>1, <1>3 DEF Downs
<1>5. P(f)
  <2> HIDE DEF P
  <2>1. QED
    BY <1>4
<1>6. \A n \in 1 .. N : f[n] = IF nodes[n].type = "LEAF" THEN n ELSE f[Child[n]]
  <2> HIDE DEF f
  <2>1. QED
    BY <1>1, <1>5
<1>7. C!FindLeaf(t, key) = f[t.root]
  BY DEF C!FindLeaf
<1> HIDE DEF Child, f, P
<1>8. ASSUME NEW n \in 1 .. N, \A m \in 1 .. N : Heights(g, N)[m] < Heights(g, N)[n] => m \in G PROVE n \in G
  <2>1. \A m \in 1 .. N : Heights(g, N)[m] = g[m].h
    BY DEF Heights
  <2>2. CASE nodes[n].type = "LEAF"
    BY <1>6, <2>2
  <2>3. CASE nodes[n].type # "LEAF"
    <3>1. Child[n] \in 1 .. N /\ Child[n] \in G
      BY <1>2, <1>8, <2>1, <2>3
    <3>2. f[n] = f[Child[n]]
      BY <1>6, <2>3
    <3>3. QED
      BY <1>2, <2>3, <3>1, <3>2
  <2>4. QED
    BY <2>2, <2>3
<1>9. t.root \in 1 .. N /\ g[t.root].h \in Nat /\ \A n \in 1 .. N : Heights(g, N)[n] \in 0 .. g[t.root].h
  BY HeightsBounded DEF Heights
<1>10. t.root \in G
  <2> DEFINE D == 1 .. N
             r == Heights(g, N)
             H == g[t.root].h
  <2>1. \A x \in D : (\A y \in D : r[y] < r[x] => y \in G) => x \in G
    BY <1>8
  <2>2. H \in Nat /\ t.root \in D /\ r \in [D -> 0 .. H]
    BY <1>9 DEF Heights
  <2>0. G \in SUBSET D
    OBVIOUS
  <2> HIDE DEF G, D, r, H
  <2>3. QED
    BY <2>0, <2>1, <2>2, ByRank, SMTT(60)
<1>11. g[t.root].lo = 0 /\ g[t.root].hi = Top
  BY DEF Tree
<1>12. QED
  BY <1>7, <1>10, <1>11

-----------------------------------------------------------------------------
(* Calls on the tree *)

(* A tree between calls: it is sound and no node is full. *)
Built(t) ==
  /\ t = [nodes |-> t.nodes, root |-> t.root]
  /\ \E g : Tree(t.nodes, t.root, g, 0)

(* A key has one value. *)
LEMMA HoldsOnce ==
  ASSUME NEW nodes, NEW root, NEW g, NEW q, Tree(nodes, root, g, q), NEW k, NEW v, Holds(nodes, k, v)
  PROVE  k \in Nat /\ k < Top /\ v \in Nat /\ \A w : Holds(nodes, k, w) => w = v
<1>1. PICK n \in 1 .. Len(nodes) : HoldsIn(nodes[n], k, v)
  BY DEF Holds
<1>2. nodes[n].type = "LEAF" /\ In(nodes[n].buf, k, v)
  BY <1>1, HoldsInIs
<1>3. Sound(nodes[n].buf) /\ g[n].hi \in Nat /\ g[n].hi <= Top
  BY NodeParts
<1>4. k \in Nat /\ v \in Nat /\ \A w : In(nodes[n].buf, k, w) => w = v
  BY <1>2, <1>3, InOnce
<1>5. k < g[n].hi
  BY <1>1, <1>2, <1>4, HoldsWhere
<1>6. ASSUME NEW w, Holds(nodes, k, w) PROVE w = v
  <2>1. g[n].lo <= k /\ k < g[n].hi
    BY <1>1, <1>2, <1>4, HoldsWhere
  <2>2. HoldsIn(nodes[n], k, w)
    BY <1>2, <1>4, <1>6, <2>1, HoldsWhere
  <2>3. QED
    BY <1>4, <2>2, HoldsInIs
<1>7. k < Top
  BY <1>3, <1>4, <1>5, Sizes DEF Top
<1>8. QED
  BY <1>4, <1>6, <1>7

(* Put adds the pair or replaces its value. *)
LEMMA PutGood ==
  ASSUME NEW t, Built(t), NEW key \in Nat, key < Top, NEW value \in Nat
  PROVE  LET a == C!Put(t, key, value)
         IN  /\ Built(a)
             /\ \A k \in Nat : \A v : Holds(a.nodes, k, v) <=> IF k = key THEN v = value ELSE Holds(t.nodes, k, v)
<1>1. PICK g : Tree(t.nodes, t.root, g, 0)
  BY DEF Built
<1> DEFINE r == C!NodePut(t.nodes, t.root, key, value)
           a == C!Put(t, key, value)
<1>2. /\ \E g1 : Tree(r.nodes, r.ret, g1, 0)
      /\ \A k \in Nat : \A v : Holds(r.nodes, k, v) <=> IF k = key THEN v = value ELSE Holds(t.nodes, k, v)
  BY <1>1, NodePutGood
<1>3. a = [nodes |-> r.nodes, root |-> r.ret]
  BY DEF C!Put
<1> HIDE DEF r
<1>4. a.nodes = r.nodes /\ a.root = r.ret
  BY <1>3
<1> HIDE DEF a
<1>5. Built(a)
  BY <1>2, <1>3, <1>4 DEF Built
<1>6. QED
  BY <1>2, <1>4, <1>5 DEF a

(* Get returns the value of a key, or 0. *)
LEMMA GetGood ==
  ASSUME NEW t, Built(t), NEW key \in Nat, key < Top
  PROVE  /\ \A v : Holds(t.nodes, key, v) => C!Get(t, key) = v
         /\ (\A v : ~ Holds(t.nodes, key, v)) => C!Get(t, key) = 0
<1>1. PICK g : Tree(t.nodes, t.root, g, 0)
  BY DEF Built
<1> DEFINE n == C!FindLeaf(t, key)
           b == t.nodes[n].buf
           f == C!B!Find(b, key)
<1>2. n \in 1 .. Len(t.nodes) /\ t.nodes[n].type = "LEAF" /\ g[n].lo <= key /\ key < g[n].hi
  BY <1>1, FindLeafGood
<1>3. C!Get(t, key) = IF f.exist THEN C!B!Rec(b, f.pos).value ELSE 0
  BY DEF C!Get
<1> HIDE DEF n
<1>4. Sound(b)
  BY <1>1, <1>2, NodeParts
<1>5. \A v : Holds(t.nodes, key, v) <=> In(b, key, v)
  BY <1>1, <1>2, HoldsWhere, HoldsInIs
<1> HIDE DEF b
<1>6. /\ f.exist \in BOOLEAN
      /\ f.exist => In(b, key, C!B!Rec(b, f.pos).value)
      /\ ~ f.exist => \A v : ~ In(b, key, v)
  BY <1>4, FindIn
<1>7. \A v, w : In(b, key, v) /\ In(b, key, w) => w = v
  BY <1>4, InOnce
<1> HIDE DEF f
<1>8. QED
  BY <1>3, <1>5, <1>6, <1>7

(* A leaf is given another buffer by a call. *)
LEMMA WriteGood ==
  ASSUME NEW t, Built(t), NEW n, NEW b, NEW a, a = [t EXCEPT !.nodes[n].buf = b]
  PROVE  /\ a = [nodes |-> WithBuf(t.nodes, n, b), root |-> t.root]
         /\ a.nodes = WithBuf(t.nodes, n, b) /\ a.root = t.root
<1>1. t = [nodes |-> t.nodes, root |-> t.root]
  BY DEF Built
<1>2. a = [t EXCEPT !.nodes = WithBuf(t.nodes, n, b)]
  BY <1>1 DEF WithBuf
<1>3. QED
  BY <1>1, <1>2

(* Update of a key that is there. *)
LEMMA UpdateGood ==
  ASSUME NEW t, Built(t), NEW key \in Nat, NEW value \in Nat, \E v : Holds(t.nodes, key, v)
  PROVE  LET a == C!Update(t, key, value)
         IN  /\ Built(a)
             /\ \A k \in Nat : \A v : Holds(a.nodes, k, v) <=> IF k = key THEN v = value ELSE Holds(t.nodes, k, v)
<1>1. PICK g : Tree(t.nodes, t.root, g, 0)
  BY DEF Built
<1>2. key < Top
  BY <1>1, HoldsOnce
<1> DEFINE n == C!FindLeaf(t, key)
           b == t.nodes[n].buf
           c == C!B!Update(b, C!B!Find(b, key).pos, value)
           a == C!Update(t, key, value)
<1>3. n \in 1 .. Len(t.nodes) /\ t.nodes[n].type = "LEAF" /\ g[n].lo <= key /\ key < g[n].hi
  BY <1>1, <1>2, FindLeafGood
<1>4. a = [t EXCEPT !.nodes[n].buf = c]
  <2>1. t = [nodes |-> t.nodes, root |-> t.root]
    BY DEF Built
  <2>2. a = [t EXCEPT !.nodes[n].buf = C!B!Update(@, C!B!Find(@, key).pos, value)]
    BY DEF C!Update
  <2> HIDE DEF a, n
  <2>3. QED
    BY <2>1, <2>2
<1> HIDE DEF n, a
<1>5. a.nodes = WithBuf(t.nodes, n, c) /\ a.root = t.root /\ a = [nodes |-> a.nodes, root |-> a.root]
  <2> HIDE DEF c
  <2>1. QED
    <3>1. /\ a = [nodes |-> WithBuf(t.nodes, n, c), root |-> t.root]
          /\ a.nodes = WithBuf(t.nodes, n, c) /\ a.root = t.root
      BY <1>4, WriteGood
    <3>2. QED
      BY <3>1
<1>6. Sound(b) /\ Inside(t.nodes[n], g[n]) /\ b.entries < MaxEntries /\ g[n].lo \in Nat /\ g[n].hi \in Nat
  <2>1. n # 0
    BY <1>3
  <2>2. QED
    <3>1. t.nodes[n].buf.entries < MaxEntries
      BY <1>1, <1>3, <2>1 DEF Tree
    <3>2. /\ Sound(t.nodes[n].buf) /\ Inside(t.nodes[n], g[n])
          /\ g[n].lo \in Nat /\ g[n].hi \in Nat
      BY <1>1, <1>3, NodeParts
    <3>3. QED
      BY <3>1, <3>2
<1>7. Between(b, g[n].lo, g[n].hi)
  BY <1>6 DEF Inside, Between, Key
<1>8. \A k \in Nat : \A v : In(b, k, v) <=> Holds(t.nodes, k, v) /\ g[n].lo <= k /\ k < g[n].hi
  BY <1>1, <1>3, HoldsWhere, HoldsInIs
<1>9. C!B!Find(b, key).exist
  <2>1. \E v : In(b, key, v)
    BY <1>3, <1>8
  <2> HIDE DEF b
  <2>2. QED
    BY <1>6, <2>1, FindIn
<1> HIDE DEF b
<1>10. /\ Sound(c) /\ c.entries = b.entries /\ Between(c, g[n].lo, g[n].hi)
       /\ \A x, w : In(c, x, w) <=> IF x = key THEN w = value ELSE In(b, x, w)
  BY <1>6, <1>7, <1>9, UpdateIn
<1> HIDE DEF c
<1>11. /\ Tree(a.nodes, t.root, g, 0)
       /\ \A k \in Nat : \A v : Holds(a.nodes, k, v)
            <=> IF g[n].lo <= k /\ k < g[n].hi THEN In(c, k, v) ELSE Holds(t.nodes, k, v)
  <2>1. c.entries < MaxEntries
    BY <1>6, <1>10
  <2>2. QED
    BY <1>1, <1>3, <1>5, <1>10, <2>1, LeafWrite
<1>12. Built(a)
  BY <1>5, <1>11 DEF Built
<1>13. \A k \in Nat : \A v : Holds(a.nodes, k, v) <=> IF k = key THEN v = value ELSE Holds(t.nodes, k, v)
  BY <1>3, <1>8, <1>10, <1>11
<1>14. QED
  BY <1>12, <1>13 DEF a

(* Delete of any key. *)
LEMMA DeleteGood ==
  ASSUME NEW t, Built(t), NEW key \in Nat, key < Top
  PROVE  LET a == C!Delete(t, key)
         IN  /\ Built(a)
             /\ \A k \in Nat : \A v : Holds(a.nodes, k, v) <=> k # key /\ Holds(t.nodes, k, v)
<1>1. PICK g : Tree(t.nodes, t.root, g, 0)
  BY DEF Built
<1> DEFINE n == C!FindLeaf(t, key)
           b == t.nodes[n].buf
           f == C!B!Find(b, key)
           c == IF f.exist THEN C!B!Delete(b, f.pos) ELSE b
           a == C!Delete(t, key)
<1>3. n \in 1 .. Len(t.nodes) /\ t.nodes[n].type = "LEAF" /\ g[n].lo <= key /\ key < g[n].hi
  BY <1>1, FindLeafGood
<1>4. a = [t EXCEPT !.nodes[n].buf = c]
  <2>1. t = [nodes |-> t.nodes, root |-> t.root]
    BY DEF Built
  <2>2. a = [t EXCEPT !.nodes[n].buf =
               LET h == C!B!Find(@, key) IN IF h.exist THEN C!B!Delete(@, h.pos) ELSE @]
    BY DEF C!Delete
  <2> HIDE DEF a, n
  <2>3. QED
    BY <2>1, <2>2
<1> HIDE DEF n, a
<1>5. a.nodes = WithBuf(t.nodes, n, c) /\ a.root = t.root /\ a = [nodes |-> a.nodes, root |-> a.root]
  <2> HIDE DEF c
  <2>1. QED
    BY <1>4, WriteGood
<1>6. Sound(b) /\ Inside(t.nodes[n], g[n]) /\ b.entries < MaxEntries /\ g[n].lo \in Nat /\ g[n].hi \in Nat
      /\ b.entries \in Nat
  <2>1. n # 0
    BY <1>3
  <2>2. b.entries < MaxEntries
    BY <1>1, <1>3, <2>1 DEF Tree
  <2>3. Sound(b) /\ Inside(t.nodes[n], g[n]) /\ g[n].lo \in Nat /\ g[n].hi \in Nat
    BY <1>1, <1>3, NodeParts
  <2>4. b.entries \in Nat
    <3> HIDE DEF b
    <3>1. QED
      BY <2>3, BufferParts
  <2>5. QED
    BY <2>2, <2>3, <2>4
<1>7. Between(b, g[n].lo, g[n].hi)
  BY <1>6 DEF Inside, Between, Key
<1>8. \A k \in Nat : \A v : In(b, k, v) <=> Holds(t.nodes, k, v) /\ g[n].lo <= k /\ k < g[n].hi
  BY <1>1, <1>3, HoldsWhere, HoldsInIs
<1> HIDE DEF b
<1>9. f.exist \in BOOLEAN /\ (~ f.exist => \A v : ~ In(b, key, v))
  BY <1>6, FindIn
<1>10. /\ Sound(c) /\ c.entries < MaxEntries /\ Between(c, g[n].lo, g[n].hi)
       /\ \A x, w : In(c, x, w) <=> x # key /\ In(b, x, w)
  <2>1. CASE f.exist
    <3> DEFINE d == C!B!Delete(b, f.pos)
    <3>1. /\ Sound(d) /\ d.entries = b.entries - 1 /\ Between(d, g[n].lo, g[n].hi)
          /\ \A x, w : In(d, x, w) <=> x # key /\ In(b, x, w)
      BY <1>6, <1>7, <2>1, DeleteIn
    <3>2. c = d
      BY <2>1
    <3>3. b.entries - 1 < MaxEntries
      BY <1>6, Sizes
    <3> HIDE DEF c, d
    <3>4. QED
      BY <3>1, <3>2, <3>3
  <2>2. CASE ~ f.exist
    <3>1. c = b
      BY <2>2
    <3>2. \A v : ~ In(b, key, v)
      BY <1>9, <2>2
    <3> HIDE DEF c
    <3>3. QED
      BY <1>6, <1>7, <3>1, <3>2
  <2>3. QED
    BY <1>9, <2>1, <2>2
<1> HIDE DEF c
<1>11. /\ Tree(a.nodes, t.root, g, 0)
       /\ \A k \in Nat : \A v : Holds(a.nodes, k, v)
            <=> IF g[n].lo <= k /\ k < g[n].hi THEN In(c, k, v) ELSE Holds(t.nodes, k, v)
  BY <1>1, <1>3, <1>5, <1>10, LeafWrite
<1>12. Built(a)
  BY <1>5, <1>11 DEF Built
<1>13. \A k \in Nat : \A v : Holds(a.nodes, k, v) <=> k # key /\ Holds(t.nodes, k, v)
  BY <1>3, <1>8, <1>10, <1>11
<1>14. QED
  BY <1>12, <1>13 DEF a

-----------------------------------------------------------------------------
(* The unsorted buffer *)

Pair == [key : Keys, value : 1 .. 2]

(* A buffer has each key once. *)
GoodBuf(b) ==
  /\ b \in Seq(Pair) /\ Len(b) <= MaxEntries
  /\ \A i, j \in 1 .. Len(b) : b[i].key = b[j].key => i = j

(* The pair (k, v) is in the buffer. *)
InBuf(b, k, v) == \E i \in 1 .. Len(b) : b[i].key = k /\ b[i].value = v

(* The pairs of a buffer. *)
LEMMA BufParts ==
  ASSUME NEW b, GoodBuf(b)
  PROVE  /\ Len(b) \in Nat /\ Len(b) <= MaxEntries /\ DOMAIN b = 1 .. Len(b)
         /\ \A i \in 1 .. Len(b) : /\ b[i] \in Pair /\ b[i].key \in Keys /\ b[i].value \in 1 .. 2
                                   /\ b[i].key \in Nat /\ b[i].value \in Nat
                                   /\ b[i].key < Top
         /\ \A i, j \in 1 .. Len(b) : b[i].key = b[j].key => i = j
<1>1. \A p \in Pair : p.key \in Keys /\ p.value \in 1 .. 2
  BY DEF Pair
<1>2. /\ Len(b) \in Nat /\ Len(b) <= MaxEntries /\ DOMAIN b = 1 .. Len(b)
      /\ \A i \in 1 .. Len(b) : b[i] \in Pair
      /\ \A i, j \in 1 .. Len(b) : b[i].key = b[j].key => i = j
  BY DEF GoodBuf
<1>3. \A k \in Keys : k \in Nat /\ k < Top
  BY Sizes DEF Top
<1> HIDE DEF Pair
<1>4. QED
  BY <1>1, <1>2, <1>3

(* The place of a key, if any. *)
LEMMA BufFind ==
  ASSUME NEW b, GoodBuf(b), NEW k
  PROVE  LET at == K!Find(b, k)
         IN  /\ at = 0 => \A v : ~ InBuf(b, k, v)
             /\ at # 0 => /\ at \in 1 .. Len(b) /\ b[at].key = k
                          /\ \A v : InBuf(b, k, v) <=> v = b[at].value
<1> DEFINE Q == {i \in DOMAIN b : b[i].key = k}
           at == K!Find(b, k)
<1>1. /\ Len(b) \in Nat /\ DOMAIN b = 1 .. Len(b)
      /\ \A i, j \in 1 .. Len(b) : b[i].key = b[j].key => i = j
  BY BufParts
<1>2. at = IF Q = {} THEN 0 ELSE CHOOSE i \in Q : \A j \in Q : j <= i
  BY DEF K!Find
<1>3. CASE Q = {}
  <2>1. at = 0
    BY <1>2, <1>3
  <2>2. \A i \in 1 .. Len(b) : b[i].key # k
    BY <1>1, <1>3
  <2>3. \A v : ~ InBuf(b, k, v)
    BY <2>2 DEF InBuf
  <2> HIDE DEF at
  <2>4. QED
    BY <2>1, <2>3 DEF at
<1>4. CASE Q # {}
  <2>1. PICK i \in Q : TRUE
    BY <1>4
  <2>2. Q = {i} /\ i \in 1 .. Len(b) /\ i # 0
    BY <1>1, <2>1
  <2>3. (CHOOSE x \in Q : \A j \in Q : j <= x) = i
    <3> HIDE DEF Q
    <3>1. QED
      BY <1>1, <2>2
  <2>4. at = i /\ b[i].key = k
    <3>1. b[i].key = k
      BY <2>1
    <3> HIDE DEF Q, at
    <3>2. QED
      BY <1>2, <1>4, <2>3, <3>1
  <2>5. at \in 1 .. Len(b) /\ at # 0
    BY <2>2, <2>4
  <2>6. \A v : InBuf(b, k, v) <=> v = b[at].value
    <3> HIDE DEF at, Q
    <3>1. QED
      BY <1>1, <2>2, <2>4 DEF InBuf
  <2> HIDE DEF at
  <2>7. QED
    BY <2>4, <2>5, <2>6 DEF at
<1>5. QED
  BY <1>3, <1>4

(* Put of an absent key. *)
LEMMA BufPut ==
  ASSUME NEW b, GoodBuf(b), Len(b) < MaxEntries, NEW k \in Keys, NEW v \in 1 .. 2, \A w : ~ InBuf(b, k, w)
  PROVE  LET a == K!Put(b, k, v)
         IN  /\ GoodBuf(a) /\ Len(a) = Len(b) + 1
             /\ \A x, w : InBuf(a, x, w) <=> IF x = k THEN w = v ELSE InBuf(b, x, w)
<1> DEFINE a == K!Put(b, k, v)
           p == [key |-> k, value |-> v]
           n == Len(b)
<1>1. p \in Pair /\ p.key = k /\ p.value = v
  BY DEF Pair
<1>2. a = Append(b, p)
  BY DEF K!Put
<1>3. b \in Seq(Pair) /\ n \in Nat /\ \A i, j \in 1 .. n : b[i].key = b[j].key => i = j
  BY BufParts DEF GoodBuf
<1> HIDE DEF a, p
<1>4. a \in Seq(Pair) /\ Len(a) = n + 1 /\ a[n + 1] = p /\ \A i \in 1 .. n : a[i] = b[i]
  <2> HIDE DEF Pair
  <2>1. QED
    BY <1>1, <1>2, <1>3
<1>5. \A i \in 1 .. n : b[i].key # k
  BY DEF InBuf
<1> HIDE DEF n
<1>6. \A i, j \in 1 .. n + 1 : a[i].key = a[j].key => i = j
  <2>1. ASSUME NEW i \in 1 .. n + 1, NEW j \in 1 .. n + 1, a[i].key = a[j].key PROVE i = j
    <3>1. i = n + 1 \/ i \in 1 .. n
      BY <1>3
    <3>2. j = n + 1 \/ j \in 1 .. n
      BY <1>3
    <3>3. QED
      BY <1>1, <1>3, <1>4, <1>5, <2>1, <3>1, <3>2
  <2>2. QED
    BY <2>1
<1>7. GoodBuf(a)
  <2>1. n + 1 <= MaxEntries
    BY <1>3, Sizes DEF n
  <2>2. QED
    BY <1>4, <1>6, <2>1 DEF GoodBuf
<1>8. ASSUME NEW x, NEW w PROVE InBuf(a, x, w) <=> IF x = k THEN w = v ELSE InBuf(b, x, w)
  <2>1. InBuf(a, x, w) <=> \E i \in 1 .. n + 1 : a[i].key = x /\ a[i].value = w
    BY <1>4 DEF InBuf
  <2>2. InBuf(b, x, w) <=> \E i \in 1 .. n : b[i].key = x /\ b[i].value = w
    BY DEF InBuf, n
  <2>3. \A i \in 1 .. n + 1 : i = n + 1 \/ i \in 1 .. n
    BY <1>3
  <2>4. n + 1 \in 1 .. n + 1 /\ \A i \in 1 .. n : i \in 1 .. n + 1
    BY <1>3
  <2>5. QED
    BY <1>1, <1>4, <1>5, <2>1, <2>2, <2>3, <2>4
<1>9. QED
  BY <1>4, <1>7, <1>8 DEF a, n

(* Update of the pair at a place. *)
LEMMA BufUpdate ==
  ASSUME NEW b, GoodBuf(b), NEW at \in 1 .. Len(b), NEW v \in 1 .. 2
  PROVE  LET a == K!Update(b, at, v)
         IN  /\ GoodBuf(a) /\ Len(a) = Len(b)
             /\ \A x, w : InBuf(a, x, w) <=> IF x = b[at].key THEN w = v ELSE InBuf(b, x, w)
<1> DEFINE a == K!Update(b, at, v)
           p == [key |-> b[at].key, value |-> v]
           n == Len(b)
<1>1. /\ b \in Seq(Pair) /\ n \in Nat /\ n <= MaxEntries /\ b[at] \in Pair /\ b[at].key \in Keys
      /\ \A i, j \in 1 .. n : b[i].key = b[j].key => i = j
  BY BufParts DEF GoodBuf
<1>2. p \in Pair /\ p.key = b[at].key /\ p.value = v
  BY <1>1 DEF Pair
<1>3. a = [b EXCEPT ![at] = p]
  <2>1. b[at] = [key |-> b[at].key, value |-> b[at].value]
    BY <1>1 DEF Pair
  <2>2. [b[at] EXCEPT !.value = v] = p
    BY <2>1
  <2>3. QED
    BY <2>2 DEF K!Update
<1> HIDE DEF a, p
<1>4. a \in Seq(Pair) /\ Len(a) = n /\ a[at] = p /\ \A i \in 1 .. n : i # at => a[i] = b[i]
  <2> HIDE DEF Pair
  <2>1. QED
    BY <1>1, <1>2, <1>3
<1> HIDE DEF n
<1>5. \A i \in 1 .. n : a[i].key = b[i].key
  BY <1>2, <1>4
<1>6. GoodBuf(a)
  BY <1>1, <1>4, <1>5 DEF GoodBuf
<1>7. ASSUME NEW x, NEW w PROVE InBuf(a, x, w) <=> IF x = b[at].key THEN w = v ELSE InBuf(b, x, w)
  <2>1. InBuf(a, x, w) <=> \E i \in 1 .. n : a[i].key = x /\ a[i].value = w
    BY <1>4 DEF InBuf
  <2>2. InBuf(b, x, w) <=> \E i \in 1 .. n : b[i].key = x /\ b[i].value = w
    BY DEF InBuf, n
  <2>3. at \in 1 .. n
    BY DEF n
  <2>4. \A i \in 1 .. n : b[i].key = b[at].key <=> i = at
    BY <1>1, <2>3
  <2>5. QED
    BY <1>2, <1>4, <1>5, <2>1, <2>2, <2>3, <2>4
<1>8. QED
  BY <1>4, <1>6, <1>7 DEF a, n

(* Delete of the pair at a place. *)
LEMMA BufDelete ==
  ASSUME NEW b, GoodBuf(b), NEW at \in 1 .. Len(b)
  PROVE  LET a == K!Delete(b, at)
         IN  /\ GoodBuf(a) /\ Len(a) = Len(b) - 1
             /\ \A x, w : InBuf(a, x, w) <=> x # b[at].key /\ InBuf(b, x, w)
<1> DEFINE a == K!Delete(b, at)
           n == Len(b)
           c == [b EXCEPT ![at] = b[n]]
<1>1. /\ b \in Seq(Pair) /\ n \in Nat /\ n <= MaxEntries /\ n \in 1 .. n
      /\ \A i, j \in 1 .. n : b[i].key = b[j].key => i = j
  BY BufParts DEF GoodBuf
<1>2. a = SubSeq(c, 1, Len(c) - 1)
  BY DEF K!Delete, K!Front, K!Last
<1>3. c \in Seq(Pair) /\ Len(c) = n /\ c[at] = b[n] /\ \A i \in 1 .. n : i # at => c[i] = b[i]
  <2>1. b[n] \in Pair
    BY <1>1
  <2> HIDE DEF Pair
  <2>2. QED
    BY <1>1, <2>1
<1> HIDE DEF a, c
<1>4. a \in Seq(Pair) /\ Len(a) = n - 1 /\ \A i \in 1 .. n - 1 : a[i] = c[i]
  <2> HIDE DEF Pair
  <2>1. QED
    BY <1>1, <1>2, <1>3
<1>5. at \in 1 .. n
  OBVIOUS
<1> HIDE DEF n
<1>6. \A i \in 1 .. n - 1 : a[i] = IF i = at THEN b[n] ELSE b[i]
  BY <1>1, <1>3, <1>4
<1> HIDE DEF Pair
<1>7. \A i, j \in 1 .. n - 1 : a[i].key = a[j].key => i = j
  <2>1. ASSUME NEW i \in 1 .. n - 1, NEW j \in 1 .. n - 1, a[i].key = a[j].key PROVE i = j
    <3> DEFINE s == IF i = at THEN n ELSE i
               t == IF j = at THEN n ELSE j
    <3>1. s \in 1 .. n /\ t \in 1 .. n
      BY <1>1
    <3>2. a[i] = b[s] /\ a[j] = b[t]
      BY <1>6
    <3>3. s = t
      BY <1>1, <2>1, <3>1, <3>2
    <3>4. i # n /\ j # n
      BY <1>1
    <3>5. QED
      BY <3>3, <3>4
  <2>2. QED
    BY <2>1
<1>8. GoodBuf(a)
  <2>1. n - 1 <= MaxEntries
    BY <1>1, Sizes
  <2>2. QED
    BY <1>4, <1>7, <2>1 DEF GoodBuf
<1>9. ASSUME NEW x, NEW w PROVE InBuf(a, x, w) <=> x # b[at].key /\ InBuf(b, x, w)
  <2>1. InBuf(a, x, w) <=> \E i \in 1 .. n - 1 : a[i].key = x /\ a[i].value = w
    BY <1>4 DEF InBuf
  <2>2. InBuf(b, x, w) <=> \E i \in 1 .. n : b[i].key = x /\ b[i].value = w
    BY DEF InBuf, n
  <2>3. ASSUME InBuf(a, x, w) PROVE x # b[at].key /\ InBuf(b, x, w)
    <3>1. PICK i \in 1 .. n - 1 : a[i].key = x /\ a[i].value = w
      BY <2>1, <2>3
    <3> DEFINE s == IF i = at THEN n ELSE i
    <3>2. s \in 1 .. n /\ s # at /\ a[i] = b[s]
      BY <1>1, <1>5, <1>6
    <3> HIDE DEF s
    <3>3. QED
      BY <1>1, <1>5, <2>2, <3>1, <3>2
  <2>4. ASSUME x # b[at].key, InBuf(b, x, w) PROVE InBuf(a, x, w)
    <3>1. PICK i \in 1 .. n : b[i].key = x /\ b[i].value = w
      BY <2>2, <2>4
    <3>2. i # at
      BY <2>4, <3>1
    <3> DEFINE s == IF i = n THEN at ELSE i
    <3>3. s \in 1 .. n - 1 /\ a[s] = b[i]
      <4>1. CASE i = n
        <5>1. at \in 1 .. n - 1
          BY <1>1, <1>5, <3>2, <4>1
        <5>2. QED
          BY <1>6, <4>1, <5>1
      <4>2. CASE i # n
        <5>1. i \in 1 .. n - 1
          BY <1>1, <4>2
        <5>2. QED
          BY <1>6, <3>2, <4>2, <5>1
      <4>3. QED
        BY <4>1, <4>2
    <3> HIDE DEF s
    <3>4. QED
      BY <2>1, <3>1, <3>3
  <2>5. QED
    BY <2>3, <2>4
<1>10. QED
  BY <1>4, <1>8, <1>9 DEF a, n

-----------------------------------------------------------------------------
(* The first leaf *)

(* The tree of one leaf that Setup starts with. *)
LEMMA OneLeaf ==
  ASSUME NEW b, Sound(b), Between(b, 0, Top), b.entries < MaxEntries
  PROVE  LET t == [nodes |-> <<C!Node("LEAF", 0, b)>>, root |-> 1]
         IN  /\ Built(t) /\ t.root = 1
             /\ \A k, v : Holds(t.nodes, k, v) <=> In(b, k, v)
<1> DEFINE x == C!Node("LEAF", 0, b)
           t == [nodes |-> <<x>>, root |-> 1]
           s == Stretch(0, 0, Top)
           g == [i \in 1 .. 1 |-> s]
<1>1. x \in NodeSet /\ x.type = "LEAF" /\ x.link = 0 /\ x.buf = b
  BY NodeOf
<1>2. s \in Span /\ s.h = 0 /\ s.lo = 0 /\ s.hi = Top /\ Top \in Nat /\ 0 < Top
  <2>1. Top \in Nat /\ 0 < Top
    BY Sizes DEF Top
  <2>2. QED
    BY <2>1, SpanOf, StretchFields
<1> HIDE DEF x, s
<1>3. Fits(x, s, g, 1)
  <2>1. Inside(x, s)
    BY <1>1, <1>2 DEF Inside, Between, Key
  <2>2. Linked(x, s, g, 1)
    BY <1>1, <1>2 DEF Linked
  <2>3. QED
    BY <1>1, <2>1, <2>2 DEF Fits
<1> DEFINE nodes == <<x>>
<1>4. nodes \in Seq(NodeSet) /\ Len(nodes) = 1 /\ nodes[1] = x
  <2> HIDE DEF NodeSet
  <2>1. QED
    BY <1>1
<1>5. g \in [1 .. 1 -> Span] /\ g[1] = s
  BY <1>2
<1>6. \A i \in 1 .. 1 : i = 1
  OBVIOUS
<1> HIDE DEF nodes, g
<1>7. Tree(nodes, 1, g, 0)
  BY <1>1, <1>2, <1>3, <1>4, <1>5, <1>6 DEF Tree
<1>8. t.nodes = nodes /\ t.root = 1 /\ t = [nodes |-> t.nodes, root |-> t.root]
  BY DEF nodes
<1>9. \A k, v : Holds(nodes, k, v) <=> In(b, k, v)
  BY <1>1, <1>4, <1>6, HoldsInIs DEF Holds
<1> HIDE DEF t
<1>10. Built(t)
  BY <1>7, <1>8 DEF Built
<1>11. QED
  BY <1>8, <1>9, <1>10 DEF t, x

(* The leaf that the constructors make is empty. *)
LEMMA SetupGood ==
  /\ Built(C!Setup) /\ C!Setup.root = 1
  /\ \A k, v : ~ Holds(C!Setup.nodes, k, v)
<1> DEFINE b == C!B!Blank
<1>1. Sound(b)
  BY BlankSound, Sizes
<1>2. b.entries = 0
  BY DEF C!B!Blank
<1>3. C!Setup = [nodes |-> <<C!Node("LEAF", 0, b)>>, root |-> 1]
  BY DEF C!Setup
<1> HIDE DEF b
<1>4. Between(b, 0, Top) /\ b.entries < MaxEntries /\ \A k, v : ~ In(b, k, v)
  BY <1>2, Sizes DEF Between, In
<1> DEFINE t == [nodes |-> <<C!Node("LEAF", 0, b)>>, root |-> 1]
<1>5. Built(t) /\ t.root = 1 /\ \A k, v : Holds(t.nodes, k, v) <=> In(b, k, v)
  BY <1>1, <1>4, OneLeaf
<1>6. C!Setup = t
  BY <1>3
<1> HIDE DEF t
<1>7. QED
  BY <1>4, <1>5, <1>6

(* GetSortedIndex: the slots in the order of their keys. *)
LEMMA SortedIs ==
  ASSUME NEW b, GoodBuf(b)
  PROVE  LET s == K!GetSortedIndex(b)
         IN  /\ DOMAIN s = 1 .. Len(b)
             /\ \A n \in 1 .. Len(b) : s[n] + 1 \in 1 .. Len(b) /\ s[n] \in 0 .. Len(b) - 1
             /\ \A m, n \in 1 .. Len(b) : m < n => b[s[m] + 1].key < b[s[n] + 1].key
             /\ \A i \in 1 .. Len(b) : \E n \in 1 .. Len(b) : s[n] + 1 = i
<1> DEFINE s == K!GetSortedIndex(b)
           l == Len(b)
           Q == DOMAIN b
           w == [i \in Q |-> b[i].key]
           A(i) == {j \in Q : b[j].key < b[i].key}
           At(n) == CHOOSE i \in Q : Cardinality(A(i)) = n - 1
           c == [n \in Q |-> At(n)]
<1>1. /\ l \in Nat /\ Q = 1 .. l /\ \A i \in Q : b[i].key \in Nat
      /\ \A i, j \in Q : b[i].key = b[j].key => i = j
  BY BufParts
<1>2. s = [n \in Q |-> At(n) - 1]
  <2> DEFINE Bt(n) == CHOOSE i \in Q : K!Cardinality(A(i)) = n - 1
  <2>1. s = [n \in Q |-> Bt(n) - 1]
    BY DEF K!GetSortedIndex
  <2>2. \A T : K!Cardinality(T) = Cardinality(T)
    BY DEF K!Cardinality, Cardinality
  <2>3. \A n : Bt(n) = At(n)
    <3> HIDE DEF A, Q
    <3>1. QED
      BY <2>2
  <2> HIDE DEF Bt, At, s, Q
  <2>4. QED
    BY <2>1, <2>3
<1> HIDE DEF s
<1>3. IsFiniteSet(Q) /\ Cardinality(Q) = l
  BY <1>1, FS_Interval, SMTT(60)
<1>4. w \in [Q -> Int] /\ (\A x, y \in Q : w[x] = w[y] => x = y) /\ \A x \in Q : w[x] = b[x].key
  BY <1>1
<1> DEFINE Under == [x \in Q |-> A(x)]
<1>5. Under \in [Q -> SUBSET Q] /\ \A x, y \in Q : y \in Under[x] <=> w[y] < w[x]
  OBVIOUS
<1>6. ASSUME NEW n \in 1 .. l, \E x \in Q : Cardinality(Under[x]) = n - 1
      PROVE  c[n] \in Q /\ Cardinality(Under[c[n]]) = n - 1
  <2>1. \A x \in Q : Under[x] = A(x)
    OBVIOUS
  <2>2. \E x \in Q : Cardinality(A(x)) = n - 1
    <3> HIDE DEF Under, A
    <3>1. QED
      BY <1>6, <2>1
  <2>3. At(n) \in Q /\ Cardinality(A(At(n))) = n - 1
    <3> HIDE DEF A, Q
    <3>1. QED
      BY <2>2, Zenon
  <2>4. c[n] = At(n)
    BY <1>1
  <2> HIDE DEF A, At, c, Under
  <2>5. QED
    BY <2>1, <2>3, <2>4
<1>7. c = [n \in Q |-> c[n]] /\ \A n \in Q : s[n] = c[n] - 1
  <2> HIDE DEF At, Q
  <2>1. QED
    BY <1>2
<1>15. DOMAIN s = 1 .. l
  BY <1>1, <1>2
<1> HIDE DEF w, Under, c, Q
<1>8. /\ \A n \in 1 .. l : c[n] \in Q
      /\ \A m, n \in 1 .. l : m < n => w[c[m]] < w[c[n]]
      /\ \A x \in Q : \E n \in 1 .. l : c[n] = x
  <2>1. \A i \in 1 .. Cardinality(Q) :
             (\E x \in Q : Cardinality(Under[x]) = i - 1) => c[i] \in Q /\ Cardinality(Under[c[i]]) = i - 1
    BY <1>3, <1>6, Zenon
  <2>2. IsFiniteSet(Q)
    BY <1>3
  <2>3. /\ \A i \in 1 .. Cardinality(Q) : c[i] \in Q
        /\ \A i, j \in 1 .. Cardinality(Q) : i < j => w[c[i]] < w[c[j]]
        /\ \A x \in Q : \E i \in 1 .. Cardinality(Q) : c[i] = x
    BY <1>4, <1>5, <2>1, <2>2, Ranked, SMTT(60)
  <2>4. QED
    BY <1>3, <2>3
<1>9. \A n \in 1 .. l : c[n] \in 1 .. l /\ s[n] = c[n] - 1
  BY <1>1, <1>7, <1>8
<1>10. \A n \in 1 .. l : s[n] + 1 = c[n] /\ s[n] \in 0 .. l - 1
  BY <1>1, <1>9
<1>12. \A m, n \in 1 .. l : m < n => b[s[m] + 1].key < b[s[n] + 1].key
  <2>1. ASSUME NEW m \in 1 .. l, NEW n \in 1 .. l, m < n PROVE b[s[m] + 1].key < b[s[n] + 1].key
    <3>1. s[m] + 1 = c[m] /\ s[n] + 1 = c[n]
      BY <1>10
    <3>2. w[c[m]] < w[c[n]] /\ c[m] \in Q /\ c[n] \in Q
      BY <1>8, <2>1
    <3>3. w[c[m]] = b[c[m]].key /\ w[c[n]] = b[c[n]].key
      BY <1>4, <3>2
    <3>4. QED
      BY <3>1, <3>2, <3>3
  <2>2. QED
    BY <2>1
<1>13. \A i \in 1 .. l : \E n \in 1 .. l : s[n] + 1 = i
  <2>1. ASSUME NEW i \in 1 .. l PROVE \E n \in 1 .. l : s[n] + 1 = i
    <3>1. PICK n \in 1 .. l : c[n] = i
      BY <1>1, <1>8
    <3>2. s[n] + 1 = c[n]
      BY <1>10
    <3>3. QED
      BY <3>1, <3>2
  <2>2. QED
    BY <2>1
<1>14. QED
  BY <1>9, <1>10, <1>15, <1>12, <1>13 DEF s

(* The slots of a buffer and what GetSortedIndex makes of them. *)
Ranking(n, slots, sorted) ==
  /\ n \in 0 .. MaxEntries
  /\ \A s \in 0 .. n - 1 : slots[s] \in [key : Nat, value : Nat]
  /\ \A i \in 1 .. n : sorted[i] \in 0 .. n - 1
  /\ \A i, j \in 1 .. n : i < j => slots[sorted[i]].key < slots[sorted[j]].key

(* The buffer that FromKVBuffer makes. *)
LEMMA FromRanking ==
  ASSUME NEW n, NEW slots, NEW sorted, Ranking(n, slots, sorted)
  PROVE  LET b == C!B!FromKVBuffer(n, slots, sorted)
         IN  /\ Sound(b)
             /\ b.entries = n
             /\ \A r \in 0 .. n - 1 : C!B!Rec(b, r) = slots[sorted[r + 1]]
<1>1. Dimensions
  BY Sizes
<1>2. /\ n \in 0 .. MaxEntries
      /\ \A s \in 0 .. n - 1 : slots[s] \in [key : Nat, value : Nat]
      /\ \A i \in 1 .. n : sorted[i] \in 0 .. n - 1
      /\ \A i, j \in 1 .. n : i < j => slots[sorted[i]].key < slots[sorted[j]].key
  BY DEF Ranking
<1>3. QED
  BY <1>1, <1>2, FromKVBufferSound

(* The leaf that a full buffer becomes has its pairs. *)
LEMMA SetupFromGood ==
  ASSUME NEW b, GoodBuf(b), Len(b) < MaxEntries
  PROVE  LET t == C!SetupFrom(Len(b), [s \in 0 .. Len(b) - 1 |-> b[s + 1]], K!GetSortedIndex(b))
         IN  /\ Built(t) /\ t.root = 1
             /\ \A k, v : Holds(t.nodes, k, v) <=> InBuf(b, k, v)
<1> DEFINE n == Len(b)
           slots == [s \in 0 .. n - 1 |-> b[s + 1]]
           sorted == K!GetSortedIndex(b)
           c == C!B!FromKVBuffer(n, slots, sorted)
           t == [nodes |-> <<C!Node("LEAF", 0, c)>>, root |-> 1]
<1>1. /\ n \in Nat /\ n < MaxEntries /\ n \in 0 .. MaxEntries
      /\ \A i \in 1 .. n : b[i] \in Pair /\ b[i].key \in Nat /\ b[i].value \in Nat /\ b[i].key < Top
  BY BufParts
<1>2. /\ \A i \in 1 .. n : sorted[i] + 1 \in 1 .. n /\ sorted[i] \in 0 .. n - 1
      /\ \A i, j \in 1 .. n : i < j => b[sorted[i] + 1].key < b[sorted[j] + 1].key
      /\ \A i \in 1 .. n : \E m \in 1 .. n : sorted[m] + 1 = i
  BY SortedIs
<1>3. C!SetupFrom(n, slots, sorted) = t
  BY DEF C!SetupFrom
<1>4. \A s \in 0 .. n - 1 : slots[s] = b[s + 1] /\ s + 1 \in 1 .. n
  BY <1>1
<1>5. \A p \in Pair : p \in [key : Nat, value : Nat]
  BY Sizes DEF Pair
<1> HIDE DEF sorted, slots, n, Pair
<1>6. \A s \in 0 .. n - 1 : slots[s] \in [key : Nat, value : Nat]
  BY <1>1, <1>4, <1>5
<1>7. \A i \in 1 .. n : slots[sorted[i]] = b[sorted[i] + 1]
  BY <1>2, <1>4
<1>8. \A i, j \in 1 .. n : i < j => slots[sorted[i]].key < slots[sorted[j]].key
  BY <1>2, <1>7
<1>9. /\ Sound(c) /\ c.entries = n
      /\ \A r \in 0 .. n - 1 : C!B!Rec(c, r) = slots[sorted[r + 1]]
  <2>1. Ranking(n, slots, sorted)
    BY <1>1, <1>2, <1>6, <1>8 DEF Ranking
  <2>2. QED
    BY <2>1, FromRanking
<1> HIDE DEF c
<1>10. \A r \in 0 .. n - 1 : r + 1 \in 1 .. n /\ C!B!Rec(c, r) = b[sorted[r + 1] + 1]
  BY <1>1, <1>7, <1>9
<1>11. Between(c, 0, Top)
  <2>1. \A r \in 0 .. n - 1 : sorted[r + 1] + 1 \in 1 .. n
    BY <1>2, <1>10
  <2>2. \A r \in 0 .. n - 1 : C!B!Rec(c, r).key \in Nat /\ C!B!Rec(c, r).key < Top
    BY <1>1, <1>10, <2>1
  <2>3. QED
    BY <1>9, <2>2 DEF Between
<1>12. ASSUME NEW k, NEW v PROVE In(c, k, v) <=> InBuf(b, k, v)
  <2>1. \A i \in 1 .. n : b[i] = [key |-> k, value |-> v] <=> b[i].key = k /\ b[i].value = v
    BY <1>1 DEF Pair
  <2>2. In(c, k, v) <=> \E r \in 0 .. n - 1 : b[sorted[r + 1] + 1] = [key |-> k, value |-> v]
    BY <1>9, <1>10 DEF In
  <2>3. InBuf(b, k, v) <=> \E i \in 1 .. n : b[i] = [key |-> k, value |-> v]
    BY <2>1 DEF InBuf, n
  <2>4. ASSUME NEW r \in 0 .. n - 1 PROVE sorted[r + 1] + 1 \in 1 .. n
    BY <1>2, <1>10
  <2>5. ASSUME NEW i \in 1 .. n PROVE \E r \in 0 .. n - 1 : sorted[r + 1] + 1 = i
    <3>1. PICK m \in 1 .. n : sorted[m] + 1 = i
      BY <1>2
    <3>2. m - 1 \in 0 .. n - 1 /\ (m - 1) + 1 = m
      BY <1>1
    <3>3. QED
      BY <3>1, <3>2
  <2>6. QED
    BY <2>2, <2>3, <2>4, <2>5
<1>13. Built(t) /\ t.root = 1 /\ \A k, v : Holds(t.nodes, k, v) <=> In(c, k, v)
  BY <1>1, <1>9, <1>11, OneLeaf
<1> HIDE DEF t
<1>14. QED
  BY <1>3, <1>12, <1>13 DEF n, slots, sorted

-----------------------------------------------------------------------------
(* FlushToCLevel *)

(* The loop over the buffer b when there is a tree t. *)
FlushInto(t, b) ==
  LET after[i \in 0 .. Len(b)] == IF i = 0 THEN t ELSE C!Put(after[i - 1], b[i].key, b[i].value)
  IN  after[Len(b)]

(* What it leaves is a tree with the pairs of both. *)
LEMMA FlushGood ==
  ASSUME NEW t, Built(t), NEW b, GoodBuf(b), \A k, v, w : InBuf(b, k, v) => ~ Holds(t.nodes, k, w)
  PROVE  LET a == FlushInto(t, b)
         IN  /\ Built(a)
             /\ \A k \in Nat : \A v : Holds(a.nodes, k, v) <=> InBuf(b, k, v) \/ Holds(t.nodes, k, v)
<1> DEFINE l == Len(b)
           Q == {x \in [nodes : Seq(NodeSet), root : Nat] : Built(x)}
           T(x, i) == C!Put(x, b[i].key, b[i].value)
           F == [y \in Q \X (1 .. l) |-> T(y[1], y[2])]
           P(f) == f = [i \in 0 .. l |-> IF i = 0 THEN t ELSE T(f[i - 1], i)]
           f == CHOOSE f : P(f)
<1>1. /\ l \in Nat
      /\ \A i \in 1 .. l : b[i].key \in Nat /\ b[i].key < Top /\ b[i].value \in Nat
      /\ \A i, j \in 1 .. l : b[i].key = b[j].key => i = j
  BY BufParts
<1>2. \A x : x \in Q <=> Built(x)
  <2>1. ASSUME NEW x, Built(x) PROVE x \in [nodes : Seq(NodeSet), root : Nat]
    <3>1. x = [nodes |-> x.nodes, root |-> x.root] /\ \E g : Tree(x.nodes, x.root, g, 0)
      BY <2>1 DEF Built
    <3>2. x.nodes \in Seq(NodeSet) /\ x.root \in Nat
      BY <3>1 DEF Tree
    <3> HIDE DEF NodeSet
    <3>3. QED
      BY <3>1, <3>2
  <2>2. QED
    BY <2>1
<1> HIDE DEF Q
<1>3. \A x \in Q : \A i \in 1 .. l : T(x, i) \in Q
  BY <1>1, <1>2, PutGood
<1>4. \E h : P(h)
  <2>1. F \in [Q \X (1 .. l) -> Q] /\ \A x \in Q : \A i \in 1 .. l : F[<<x, i>>] = T(x, i)
    BY <1>3
  <2>2. t \in Q
    BY <1>2
  <2> HIDE DEF F
  <2>3. PICK h : Turns(h, l, Q, t, F)
    BY <1>1, <2>1, <2>2, TurnsExist
  <2>4. /\ h \in [0 .. l -> Q] /\ h[0] = t
        /\ \A i \in 1 .. l : h[i] = F[<<h[i - 1], i>>]
    BY <2>3 DEF Turns
  <2>5. \A i \in 1 .. l : h[i] = T(h[i - 1], i)
    <3>1. \A i \in 1 .. l : i - 1 \in 0 .. l /\ h[i - 1] \in Q
      BY <1>1, <2>4
    <3>2. QED
      BY <2>1, <2>4, <3>1
  <2> HIDE DEF T
  <2>6. \A i \in 0 .. l : h[i] = IF i = 0 THEN t ELSE T(h[i - 1], i)
    <3>1. \A i \in 0 .. l : i = 0 \/ i \in 1 .. l
      BY <1>1
    <3>2. \A i \in 1 .. l : i # 0
      OBVIOUS
    <3>3. QED
      BY <2>4, <2>5, <3>1, <3>2
  <2>7. P(h)
    BY <2>4, <2>6
  <2> HIDE DEF P
  <2>8. QED
    BY <2>7
<1>5. P(f)
  <2> HIDE DEF P
  <2>1. QED
    BY <1>4
<1>6. FlushInto(t, b) = f[l]
  BY DEF FlushInto
<1> HIDE DEF f
<1>7. f[0] = t /\ \A i \in 0 .. l - 1 : f[i + 1] = T(f[i], i + 1)
  <2> HIDE DEF T, l
  <2>1. 0 \in 0 .. l /\ \A i \in 0 .. l - 1 : i + 1 \in 0 .. l /\ i + 1 # 0 /\ (i + 1) - 1 = i
    BY <1>1
  <2>2. QED
    BY <1>5, <2>1
<1> DEFINE Has(i, k, v) == \E j \in 1 .. i : b[j].key = k /\ b[j].value = v
           Good(i) == /\ Built(f[i])
                      /\ \A k \in Nat : \A v : Holds(f[i].nodes, k, v) <=> Has(i, k, v) \/ Holds(t.nodes, k, v)
           G == {i \in 0 .. l : Good(i)}
<1>8. 0 \in G
  BY <1>1, <1>7
<1>9. ASSUME NEW i \in 0 .. l - 1, i \in G PROVE i + 1 \in G
  <2> DEFINE x == b[i + 1].key
             y == b[i + 1].value
             a == f[i + 1]
  <2>1. i + 1 \in 1 .. l /\ i + 1 \in 0 .. l /\ i \in Nat
    BY <1>1
  <2>2. x \in Nat /\ x < Top /\ y \in Nat
    BY <1>1, <2>1
  <2>3. Built(f[i]) /\ a = C!Put(f[i], x, y)
    BY <1>7, <1>9
  <2>4. \A k \in Nat : \A v : Holds(f[i].nodes, k, v) <=> Has(i, k, v) \/ Holds(t.nodes, k, v)
    BY <1>9
  <2> HIDE DEF x, y, a
  <2>5. /\ Built(a)
        /\ \A k \in Nat : \A v : Holds(a.nodes, k, v) <=> IF k = x THEN v = y ELSE Holds(f[i].nodes, k, v)
    BY <2>2, <2>3, PutGood
  <2>6. \A v : ~ Holds(t.nodes, x, v)
    <3>1. InBuf(b, x, y)
      BY <2>1 DEF InBuf, x, y
    <3>2. QED
      BY <3>1
  <2>7. \A v : ~ Has(i, x, v)
    <3>1. \A j \in 1 .. i : j \in 1 .. l /\ j # i + 1
      BY <1>1, <2>1
    <3>2. QED
      BY <1>1, <2>1, <3>1 DEF x
  <2>8. \A k, v : Has(i + 1, k, v) <=> Has(i, k, v) \/ (k = x /\ v = y)
    <3>1. \A j : j \in 1 .. i + 1 <=> j \in 1 .. i \/ j = i + 1
      BY <2>1
    <3>2. QED
      BY <3>1 DEF x, y
  <2> HIDE DEF Has
  <2>9. \A k \in Nat : \A v : Holds(a.nodes, k, v) <=> Has(i + 1, k, v) \/ Holds(t.nodes, k, v)
    <3>1. ASSUME NEW k \in Nat, NEW v, k = x
          PROVE  Holds(a.nodes, k, v) <=> Has(i + 1, k, v) \/ Holds(t.nodes, k, v)
      <4>1. Holds(a.nodes, k, v) <=> v = y
        BY <2>5, <3>1
      <4>2. Has(i + 1, k, v) <=> v = y
        BY <2>7, <2>8, <3>1
      <4>3. ~ Holds(t.nodes, k, v)
        BY <2>6, <3>1
      <4>4. QED
        BY <4>1, <4>2, <4>3
    <3>2. ASSUME NEW k \in Nat, NEW v, k # x
          PROVE  Holds(a.nodes, k, v) <=> Has(i + 1, k, v) \/ Holds(t.nodes, k, v)
      <4>1. Holds(a.nodes, k, v) <=> Holds(f[i].nodes, k, v)
        BY <2>5, <3>2
      <4>2. Has(i + 1, k, v) <=> Has(i, k, v)
        BY <2>8, <3>2
      <4>3. QED
        BY <2>4, <4>1, <4>2
    <3>3. QED
      BY <3>1, <3>2
  <2>10. QED
    BY <2>1, <2>5, <2>9 DEF a
<1>10. l \in G
  <2>1. l \in 0 .. l
    BY <1>1
  <2>2. \A i \in 0 .. l - 1 : i \in G => i + 1 \in G
    BY <1>9
  <2> HIDE DEF G, l
  <2>3. QED
    BY <1>1, <1>8, <2>1, <2>2, Induct
<1>11. Good(l)
  BY <1>10
<1>12. \A k, v : Has(l, k, v) <=> InBuf(b, k, v)
  BY DEF InBuf
<1> HIDE DEF l, Has
<1>13. QED
  BY <1>6, <1>11, <1>12

-----------------------------------------------------------------------------
(* The invariant *)

(* The pairs of the buffer b and of the nodes are those of the map s, and   *)
(* no key is in both.                                                       *)
Together(b, nodes, s) ==
  /\ \A k \in Nat : \A v, w : InBuf(b, k, v) => ~ Holds(nodes, k, w)
  /\ \A k \in Nat : \A v : (InBuf(b, k, v) \/ Holds(nodes, k, v)) <=> (k \in Keys /\ v # 0 /\ v = s[k])

(* There is a tree, or there will be one when the buffer, which then fits   *)
(* in a leaf, is flushed.                                                   *)
TreeGood == IF clevel.root = 0 THEN clevel = C!NotSetup /\ Len(buf) < MaxEntries ELSE Built(clevel)

BInv ==
  /\ kind \in Kinds /\ changes \in 0 .. MaxChanges /\ store \in [Keys -> 0 .. 2]
  /\ GoodBuf(buf)
  /\ kind # "BEntry" => buf = <<>> /\ clevel.root # 0
  /\ TreeGood
  /\ Together(buf, clevel.nodes, store)

(* An empty buffer. *)
LEMMA EmptyBuf == GoodBuf(<<>>) /\ Len(<<>>) = 0 /\ \A k, v : ~ InBuf(<<>>, k, v)
<1>1. <<>> \in Seq(Pair) /\ Len(<<>>) = 0
  <2> HIDE DEF Pair
  <2>1. QED
    OBVIOUS
<1>2. QED
  BY <1>1, Sizes DEF GoodBuf, InBuf

(* A tree that is not set up has no pairs. *)
LEMMA NotSetupHolds ==
  C!NotSetup.root = 0 /\ \A k, v : ~ Holds(C!NotSetup.nodes, k, v)
<1>1. C!NotSetup.nodes = <<>> /\ C!NotSetup.root = 0
  BY DEF C!NotSetup
<1>2. QED
  BY <1>1 DEF Holds

(* A tree that is set up has a root. *)
LEMMA BuiltRoot ==
  ASSUME NEW t, Built(t)
  PROVE  t.root # 0 /\ t.root \in 1 .. Len(t.nodes)
BY DEF Built, Tree

(* What is known of the parts in a state. *)
LEMMA BInvParts ==
  ASSUME BInv
  PROVE  /\ kind \in Kinds /\ changes \in 0 .. MaxChanges /\ store \in [Keys -> 0 .. 2]
         /\ GoodBuf(buf) /\ Len(buf) \in Nat /\ Len(buf) <= MaxEntries
         /\ kind # "BEntry" => buf = <<>> /\ clevel.root # 0 /\ Built(clevel)
         /\ clevel.root # 0 => Built(clevel)
         /\ clevel.root = 0 => /\ clevel = C!NotSetup /\ Len(buf) < MaxEntries
                               /\ \A k, v : ~ Holds(clevel.nodes, k, v)
         /\ (C!HasSetup(clevel) <=> clevel.root # 0)
         /\ \A k, v, w : InBuf(buf, k, v) => ~ Holds(clevel.nodes, k, w)
         /\ \A k \in Nat : \A v : InBuf(buf, k, v) \/ Holds(clevel.nodes, k, v) <=> k \in Keys /\ v # 0 /\ v = store[k]
<1>1. GoodBuf(buf) /\ TreeGood /\ Together(buf, clevel.nodes, store)
  BY DEF BInv
<1>2. \A k, v : InBuf(buf, k, v) => k \in Nat
  BY <1>1, BufParts DEF InBuf
<1>3. \A k, v, w : InBuf(buf, k, v) => ~ Holds(clevel.nodes, k, w)
  BY <1>1, <1>2 DEF Together
<1>4. Len(buf) \in Nat /\ Len(buf) <= MaxEntries
  BY <1>1, BufParts
<1>5. clevel.root = 0 => /\ clevel = C!NotSetup /\ Len(buf) < MaxEntries
                         /\ \A k, v : ~ Holds(clevel.nodes, k, v)
  BY <1>1, NotSetupHolds DEF TreeGood
<1>6. clevel.root # 0 => Built(clevel)
  BY <1>1 DEF TreeGood
<1>7. C!HasSetup(clevel) <=> clevel.root # 0
  BY DEF C!HasSetup
<1>8. \A k \in Nat : \A v : InBuf(buf, k, v) \/ Holds(clevel.nodes, k, v) <=> k \in Keys /\ v # 0 /\ v = store[k]
  BY <1>1 DEF Together
<1>9. QED
  BY <1>1, <1>3, <1>4, <1>5, <1>6, <1>7, <1>8 DEF BInv

(* A call gives one key of b and nodes another value, 0 for none.          *)
Changed(b, nodes, c, after, key, value) ==
  /\ \A k \in Nat : \A v, w : InBuf(c, k, v) => ~ Holds(after, k, w)
  /\ \A k \in Nat : \A v : InBuf(c, k, v) \/ Holds(after, k, v)
       <=> IF k = key THEN v # 0 /\ v = value ELSE InBuf(b, k, v) \/ Holds(nodes, k, v)

(* Such a call leaves parts that go together. *)
LEMMA TogetherStill ==
  ASSUME NEW b, NEW nodes, NEW s \in [Keys -> 0 .. 2], Together(b, nodes, s),
         NEW c, NEW after, NEW key \in Keys, NEW value \in 0 .. 2,
         Changed(b, nodes, c, after, key, value)
  PROVE  /\ Together(c, after, [s EXCEPT ![key] = value])
         /\ [s EXCEPT ![key] = value] \in [Keys -> 0 .. 2]
<1> DEFINE t == [s EXCEPT ![key] = value]
<1>1. t \in [Keys -> 0 .. 2] /\ t[key] = value /\ \A k \in Keys : k # key => t[k] = s[k]
  OBVIOUS
<1> HIDE DEF t
<1>2. \A k \in Nat : \A v : InBuf(b, k, v) \/ Holds(nodes, k, v) <=> k \in Keys /\ v # 0 /\ v = s[k]
  BY DEF Together
<1>3. ASSUME NEW k \in Nat, NEW v
      PROVE  InBuf(c, k, v) \/ Holds(after, k, v) <=> k \in Keys /\ v # 0 /\ v = t[k]
  <2>1. CASE k = key
    BY <1>1, <2>1 DEF Changed
  <2>2. CASE k # key
    BY <1>1, <1>2, <2>2 DEF Changed
  <2>3. QED
    BY <2>1, <2>2
<1>4. Together(c, after, t)
  BY <1>3 DEF Together, Changed
<1>5. QED
  BY <1>1, <1>4 DEF t

(* It holds at first. *)
LEMMA BInvInit == Init => BInv
<1> SUFFICES ASSUME Init PROVE BInv
  OBVIOUS
<1>1. /\ kind \in Kinds /\ buf = <<>> /\ store = [k \in Keys |-> 0] /\ changes = 0
      /\ clevel = IF kind = "BEntry" THEN C!NotSetup ELSE C!Setup
  BY DEF Init
<1>2. store \in [Keys -> 0 .. 2] /\ changes \in 0 .. MaxChanges /\ \A k \in Keys : store[k] = 0
  BY <1>1, BEntryAssumption
<1>3. GoodBuf(buf) /\ Len(buf) = 0 /\ \A k, v : ~ InBuf(buf, k, v)
  BY <1>1, EmptyBuf
<1>4. \A k, v : ~ Holds(clevel.nodes, k, v)
  BY <1>1, NotSetupHolds, SetupGood
<1>5. TreeGood /\ (kind # "BEntry" => clevel.root # 0)
  <2>1. CASE kind = "BEntry"
    BY <1>1, <1>3, <2>1, NotSetupHolds, Sizes DEF TreeGood
  <2>2. CASE kind # "BEntry"
    BY <1>1, <2>2, SetupGood DEF TreeGood
  <2>3. QED
    BY <2>1, <2>2
<1>6. Together(buf, clevel.nodes, store)
  BY <1>2, <1>3, <1>4 DEF Together
<1>7. QED
  BY <1>1, <1>2, <1>3, <1>5, <1>6 DEF BInv

-----------------------------------------------------------------------------
(* The steps *)

(* FlushToCLevel, when it is due. *)
LEMMA FlushedGood ==
  ASSUME BInv, clevel.root = 0 => Len(buf) < MaxEntries
  PROVE  /\ Built(Flushed)
         /\ \A k \in Nat : \A v : Holds(Flushed.nodes, k, v) <=> InBuf(buf, k, v) \/ Holds(clevel.nodes, k, v)
<1> DEFINE t == clevel
           b == buf
           F == Flushed
<1>1. GoodBuf(b) /\ (C!HasSetup(t) <=> t.root # 0) /\ (t.root # 0 => Built(t))
  BY BInvParts
<1>2. CASE t.root # 0
  <2>1. \A k, v, w : InBuf(b, k, v) => ~ Holds(t.nodes, k, w)
    BY BInvParts
  <2>2. F = FlushInto(t, b)
    BY <1>1, <1>2 DEF Flushed, FlushInto
  <2> HIDE DEF t, b, F
  <2>3. /\ Built(F)
        /\ \A k \in Nat : \A v : Holds(F.nodes, k, v) <=> InBuf(b, k, v) \/ Holds(t.nodes, k, v)
    BY <1>1, <1>2, <2>1, <2>2, FlushGood
  <2>4. QED
    BY <2>3 DEF F, t, b
<1>3. CASE t.root = 0
  <2>1. F = C!SetupFrom(Len(b), [s \in 0 .. Len(b) - 1 |-> b[s + 1]], K!GetSortedIndex(b))
    BY <1>1, <1>3 DEF Flushed
  <2>2. Len(b) < MaxEntries /\ \A k, v : ~ Holds(t.nodes, k, v)
    BY <1>3, BInvParts
  <2> HIDE DEF F, t, b
  <2>3. Built(F) /\ \A k, v : Holds(F.nodes, k, v) <=> InBuf(b, k, v)
    BY <1>1, <2>1, <2>2, SetupFromGood
  <2>4. QED
    BY <2>2, <2>3 DEF F, t, b
<1>4. QED
  BY <1>2, <1>3

(* What is known after a call that leaves the rest to TogetherStill. *)
LEMMA BInvNext ==
  ASSUME BInv, NEW key \in Keys, NEW value \in 0 .. 2,
         kind' = kind, changes' \in 0 .. MaxChanges, store' = [store EXCEPT ![key] = value],
         GoodBuf(buf'), TreeGood', (kind # "BEntry" => buf' = <<>> /\ clevel'.root # 0),
         Changed(buf, clevel.nodes, buf', clevel'.nodes, key, value)
  PROVE  BInv'
<1>1. store \in [Keys -> 0 .. 2] /\ Together(buf, clevel.nodes, store) /\ kind \in Kinds
  BY DEF BInv
<1>2. Together(buf', clevel'.nodes, store') /\ store' \in [Keys -> 0 .. 2]
  BY <1>1, TogetherStill
<1>3. QED
  BY <1>1, <1>2 DEF BInv

(* PutBuffered of an absent key. *)
LEMMA BufferedStep ==
  ASSUME BInv, NEW key \in Keys, store[key] = 0, kind = "BEntry", PutBuffered(key, 1),
         store' = [store EXCEPT ![key] = 1], kind' = kind, changes' = changes
  PROVE  BInv'
<1>0. 1 \in 0 .. 2 /\ changes' \in 0 .. MaxChanges
  BY BInvParts
<1>1. /\ GoodBuf(buf) /\ Len(buf) \in Nat /\ Len(buf) <= MaxEntries /\ changes \in 0 .. MaxChanges
      /\ (clevel.root # 0 => Built(clevel)) /\ (C!HasSetup(clevel) <=> clevel.root # 0)
      /\ clevel.root = 0 => clevel = C!NotSetup /\ Len(buf) < MaxEntries
      /\ \A k, v, w : InBuf(buf, k, v) => ~ Holds(clevel.nodes, k, w)
      /\ \A k \in Nat : \A v : InBuf(buf, k, v) \/ Holds(clevel.nodes, k, v) <=> k \in Keys /\ v # 0 /\ v = store[k]
  BY BInvParts
<1>2. key \in Nat /\ \A v : ~ InBuf(buf, key, v) /\ ~ Holds(clevel.nodes, key, v)
  <2>1. key \in Nat
    BY Sizes
  <2>2. QED
    BY <1>1, <2>1
<1>3. CASE NeedsFlush
  <2>1. buf' = K!Put(<<>>, key, 1) /\ clevel' = Flushed
    BY <1>3 DEF PutBuffered
  <2>2. /\ Built(clevel')
        /\ \A k \in Nat : \A v : Holds(clevel'.nodes, k, v) <=> InBuf(buf, k, v) \/ Holds(clevel.nodes, k, v)
    BY <1>1, <2>1, FlushedGood
  <2>3. GoodBuf(buf') /\ \A x, w : InBuf(buf', x, w) <=> x = key /\ w = 1
    <3>1. GoodBuf(<<>>) /\ Len(<<>>) < MaxEntries /\ \A k, v : ~ InBuf(<<>>, k, v)
      BY EmptyBuf, Sizes
    <3>2. 1 \in 1 .. 2
      OBVIOUS
    <3> DEFINE e == <<>>
    <3>3. GoodBuf(e) /\ Len(e) < MaxEntries /\ \A k, v : ~ InBuf(e, k, v)
      BY <3>1
    <3>4. buf' = K!Put(e, key, 1)
      BY <2>1
    <3> HIDE DEF e
    <3>5. GoodBuf(buf') /\ \A x, w : InBuf(buf', x, w) <=> IF x = key THEN w = 1 ELSE InBuf(e, x, w)
      BY <3>2, <3>3, <3>4, BufPut
    <3>6. QED
      BY <3>3, <3>5
  <2>4. clevel'.root # 0 /\ TreeGood'
    BY <2>2, BuiltRoot DEF TreeGood
  <2>5. \A k \in Nat : \A v, w : InBuf(buf', k, v) => ~ Holds(clevel'.nodes, k, w)
    BY <1>2, <2>2, <2>3
  <2>6. \A k \in Nat : \A v : InBuf(buf', k, v) \/ Holds(clevel'.nodes, k, v)
           <=> IF k = key THEN v # 0 /\ v = 1 ELSE InBuf(buf, k, v) \/ Holds(clevel.nodes, k, v)
    BY <1>2, <2>2, <2>3
  <2>7. Changed(buf, clevel.nodes, buf', clevel'.nodes, key, 1)
    BY <2>5, <2>6 DEF Changed
  <2>8. QED
    BY <1>1, <1>0, <2>3, <2>4, <2>7, BInvNext
<1>4. CASE ~ NeedsFlush
  <2>1. buf' = K!Put(buf, key, 1) /\ clevel' = clevel
    BY <1>4 DEF PutBuffered
  <2>2. Len(buf) < MaxEntries /\ (clevel.root = 0 => Len(buf) + 1 < MaxEntries)
    BY <1>1, <1>4, Sizes DEF NeedsFlush, K!Full
  <2>3. 1 \in 1 .. 2
    OBVIOUS
  <2>4. /\ GoodBuf(buf') /\ Len(buf') = Len(buf) + 1
        /\ \A x, w : InBuf(buf', x, w) <=> IF x = key THEN w = 1 ELSE InBuf(buf, x, w)
    BY <1>1, <1>2, <2>1, <2>2, <2>3, BufPut
  <2>5. TreeGood'
    BY <1>1, <2>1, <2>2, <2>4 DEF TreeGood
  <2>6. \A k \in Nat : \A v, w : InBuf(buf', k, v) => ~ Holds(clevel'.nodes, k, w)
    BY <1>1, <1>2, <2>1, <2>4
  <2>7. \A k \in Nat : \A v : InBuf(buf', k, v) \/ Holds(clevel'.nodes, k, v)
           <=> IF k = key THEN v # 0 /\ v = 1 ELSE InBuf(buf, k, v) \/ Holds(clevel.nodes, k, v)
    BY <1>2, <2>1, <2>4
  <2>8. Changed(buf, clevel.nodes, buf', clevel'.nodes, key, 1)
    BY <2>6, <2>7 DEF Changed
  <2>9. QED
    BY <1>1, <1>0, <2>4, <2>5, <2>8, BInvNext
<1>5. QED
  BY <1>3, <1>4

(* PutDirect. *)
LEMMA DirectStep ==
  ASSUME BInv, NEW key \in Keys, kind # "BEntry", NEW value \in 1 .. 2, PutDirect(key, value),
         store' = [store EXCEPT ![key] = value], kind' = kind, changes' \in 0 .. MaxChanges
  PROVE  BInv'
<1>1. /\ GoodBuf(buf) /\ buf = <<>> /\ Built(clevel)
      /\ \A k, v : ~ InBuf(buf, k, v)
  BY BInvParts, EmptyBuf
<1>2. key \in Nat /\ key < Top /\ value \in Nat /\ value # 0 /\ value \in 0 .. 2
  BY Sizes DEF Top
<1>3. clevel' = C!Put(clevel, key, value) /\ buf' = buf
  BY DEF PutDirect
<1>4. /\ Built(clevel')
      /\ \A k \in Nat : \A v : Holds(clevel'.nodes, k, v) <=> IF k = key THEN v = value ELSE Holds(clevel.nodes, k, v)
  BY <1>1, <1>2, <1>3, PutGood
<1>5. clevel'.root # 0 /\ TreeGood'
  BY <1>4, BuiltRoot DEF TreeGood
<1>6. /\ \A k \in Nat : \A v, w : InBuf(buf', k, v) => ~ Holds(clevel'.nodes, k, w)
      /\ \A k \in Nat : \A v : InBuf(buf', k, v) \/ Holds(clevel'.nodes, k, v)
           <=> IF k = key THEN v # 0 /\ v = value ELSE InBuf(buf, k, v) \/ Holds(clevel.nodes, k, v)
  BY <1>1, <1>2, <1>3, <1>4
<1>7. Changed(buf, clevel.nodes, buf', clevel'.nodes, key, value)
  BY <1>6 DEF Changed
<1>8. QED
  BY <1>1, <1>2, <1>3, <1>5, <1>7, BInvNext

(* Put. *)
LEMMA PutStep ==
  ASSUME BInv, NEW key \in Keys, Put(key)
  PROVE  BInv'
<1>1. /\ store[key] = 0 /\ store' = [store EXCEPT ![key] = 1] /\ kind' = kind /\ changes' = changes
      /\ IF kind = "BEntry" THEN PutBuffered(key, 1) ELSE PutDirect(key, 1)
  BY DEF Put
<1>2. changes \in 0 .. MaxChanges /\ 1 \in 1 .. 2
  BY DEF BInv
<1>3. CASE kind = "BEntry"
  BY <1>1, <1>3, BufferedStep
<1>4. CASE kind # "BEntry"
  BY <1>1, <1>2, <1>4, DirectStep
<1>5. QED
  BY <1>3, <1>4

(* PutAgain. *)
LEMMA PutAgainStep ==
  ASSUME BInv, NEW key \in Keys, PutAgain(key)
  PROVE  BInv'
<1>1. /\ kind # "BEntry" /\ store' = [store EXCEPT ![key] = 2] /\ kind' = kind
      /\ changes < MaxChanges /\ changes' = changes + 1 /\ PutDirect(key, 2)
  BY DEF PutAgain
<1>2. changes' \in 0 .. MaxChanges /\ 2 \in 1 .. 2
  BY <1>1, BEntryAssumption DEF BInv
<1>3. QED
  BY <1>1, <1>2, DirectStep

(* Update. *)
LEMMA UpdateStep ==
  ASSUME BInv, NEW key \in Keys, Update(key)
  PROVE  BInv'
<1> DEFINE at == K!Find(buf, key)
<1>1. /\ store[key] # 0 /\ changes < MaxChanges /\ changes' = changes + 1 /\ kind' = kind
      /\ store' = [store EXCEPT ![key] = 2]
      /\ IF at # 0 THEN buf' = K!Update(buf, at, 2) /\ clevel' = clevel
         ELSE clevel' = C!Update(clevel, key, 2) /\ buf' = buf
  BY DEF Update, UpdateTree
<1> HIDE DEF at
<1>2. /\ GoodBuf(buf) /\ Len(buf) \in Nat /\ changes' \in 0 .. MaxChanges /\ store[key] \in 0 .. 2
      /\ (clevel.root # 0 => Built(clevel))
      /\ clevel.root = 0 => /\ clevel = C!NotSetup /\ Len(buf) < MaxEntries
                            /\ \A k, v : ~ Holds(clevel.nodes, k, v)
      /\ (kind # "BEntry" => buf = <<>> /\ clevel.root # 0)
      /\ \A k, v, w : InBuf(buf, k, v) => ~ Holds(clevel.nodes, k, w)
      /\ \A k \in Nat : \A v : InBuf(buf, k, v) \/ Holds(clevel.nodes, k, v) <=> k \in Keys /\ v # 0 /\ v = store[k]
  <2>1. changes' \in 0 .. MaxChanges
    BY <1>1, BEntryAssumption, BInvParts
  <2>2. QED
    BY <2>1, BInvParts
<1>3. key \in Nat /\ key < Top /\ 2 \in 1 .. 2 /\ 2 \in Nat /\ 2 \in 0 .. 2
  BY Sizes DEF Top
<1>4. /\ at = 0 => \A v : ~ InBuf(buf, key, v)
      /\ at # 0 => /\ at \in 1 .. Len(buf) /\ buf[at].key = key
                   /\ \A v : InBuf(buf, key, v) <=> v = buf[at].value
  BY <1>2, BufFind DEF at
<1>5. CASE at # 0
  <2>1. buf' = K!Update(buf, at, 2) /\ clevel' = clevel
    BY <1>1, <1>5
  <2>2. /\ GoodBuf(buf') /\ Len(buf') = Len(buf)
        /\ \A x, w : InBuf(buf', x, w) <=> IF x = key THEN w = 2 ELSE InBuf(buf, x, w)
    BY <1>2, <1>3, <1>4, <1>5, <2>1, BufUpdate
  <2>3. TreeGood'
    BY <1>2, <2>1, <2>2 DEF TreeGood
  <2>4. InBuf(buf, key, buf[at].value)
    BY <1>4, <1>5
  <2>5. \A k \in Nat : \A v, w : InBuf(buf', k, v) => ~ Holds(clevel'.nodes, k, w)
    BY <1>2, <2>1, <2>2, <2>4
  <2>6. \A k \in Nat : \A v : InBuf(buf', k, v) \/ Holds(clevel'.nodes, k, v)
           <=> IF k = key THEN v # 0 /\ v = 2 ELSE InBuf(buf, k, v) \/ Holds(clevel.nodes, k, v)
    BY <1>2, <2>1, <2>2, <2>4
  <2>7. kind # "BEntry" => buf' = <<>> /\ clevel'.root # 0
    <3>1. buf # <<>>
      BY <2>4, EmptyBuf
    <3>2. QED
      BY <1>2, <3>1
  <2>8. Changed(buf, clevel.nodes, buf', clevel'.nodes, key, 2)
    BY <2>5, <2>6 DEF Changed
  <2>9. QED
    BY <1>1, <1>2, <1>3, <2>2, <2>3, <2>7, <2>8, BInvNext
<1>6. CASE at = 0
  <2>1. clevel' = C!Update(clevel, key, 2) /\ buf' = buf
    BY <1>1, <1>6
  <2>2. \A v : ~ InBuf(buf, key, v)
    BY <1>4, <1>6
  <2>3. Holds(clevel.nodes, key, store[key])
    BY <1>1, <1>2, <1>3, <2>2
  <2>4. Built(clevel)
    BY <1>2, <2>3
  <2>5. /\ Built(clevel')
        /\ \A k \in Nat : \A v : Holds(clevel'.nodes, k, v) <=> IF k = key THEN v = 2 ELSE Holds(clevel.nodes, k, v)
    <3>1. \E v : Holds(clevel.nodes, key, v)
      BY <2>3
    <3> DEFINE two == 2
    <3>2. two \in Nat /\ clevel' = C!Update(clevel, key, two)
      BY <2>1
    <3> HIDE DEF two
    <3>3. /\ Built(clevel')
          /\ \A k \in Nat : \A v : Holds(clevel'.nodes, k, v)
               <=> IF k = key THEN v = two ELSE Holds(clevel.nodes, k, v)
      BY <1>3, <2>4, <3>1, <3>2, UpdateGood
    <3>4. QED
      BY <3>3 DEF two
  <2>6. clevel'.root # 0 /\ TreeGood'
    BY <2>5, BuiltRoot DEF TreeGood
  <2>7. \A k \in Nat : \A v, w : InBuf(buf', k, v) => ~ Holds(clevel'.nodes, k, w)
    BY <1>2, <2>1, <2>2, <2>5
  <2>8. \A k \in Nat : \A v : InBuf(buf', k, v) \/ Holds(clevel'.nodes, k, v)
           <=> IF k = key THEN v # 0 /\ v = 2 ELSE InBuf(buf, k, v) \/ Holds(clevel.nodes, k, v)
    BY <2>1, <2>2, <2>5
  <2>9. GoodBuf(buf') /\ (kind # "BEntry" => buf' = <<>> /\ clevel'.root # 0)
    BY <1>2, <2>1, <2>6
  <2>10. Changed(buf, clevel.nodes, buf', clevel'.nodes, key, 2)
    BY <2>7, <2>8 DEF Changed
  <2>11. QED
    BY <1>1, <1>2, <1>3, <2>6, <2>9, <2>10, BInvNext
<1>7. QED
  BY <1>5, <1>6

(* Delete. *)
LEMMA DeleteStep ==
  ASSUME BInv, NEW key \in Keys, Delete(key)
  PROVE  BInv'
<1> DEFINE at == K!Find(buf, key)
<1>1. /\ changes < MaxChanges /\ changes' = changes + 1 /\ kind' = kind
      /\ store' = [store EXCEPT ![key] = 0]
      /\ IF at # 0 THEN buf' = K!Delete(buf, at) /\ clevel' = clevel
         ELSE clevel' = (IF C!HasSetup(clevel) THEN C!Delete(clevel, key) ELSE clevel) /\ buf' = buf
  BY DEF Delete, DeleteTree
<1> HIDE DEF at
<1>2. /\ GoodBuf(buf) /\ Len(buf) \in Nat /\ changes' \in 0 .. MaxChanges
      /\ (clevel.root # 0 => Built(clevel)) /\ (C!HasSetup(clevel) <=> clevel.root # 0)
      /\ clevel.root = 0 => /\ clevel = C!NotSetup /\ Len(buf) < MaxEntries
                            /\ \A k, v : ~ Holds(clevel.nodes, k, v)
      /\ (kind # "BEntry" => buf = <<>> /\ clevel.root # 0)
      /\ \A k, v, w : InBuf(buf, k, v) => ~ Holds(clevel.nodes, k, w)
  <2>1. changes' \in 0 .. MaxChanges
    BY <1>1, BEntryAssumption, BInvParts
  <2>2. QED
    BY <2>1, BInvParts
<1>3. key \in Nat /\ key < Top /\ 0 \in 0 .. 2
  BY Sizes DEF Top
<1>4. /\ at = 0 => \A v : ~ InBuf(buf, key, v)
      /\ at # 0 => /\ at \in 1 .. Len(buf) /\ buf[at].key = key
                   /\ \A v : InBuf(buf, key, v) <=> v = buf[at].value
  BY <1>2, BufFind DEF at
<1>5. CASE at # 0
  <2>1. buf' = K!Delete(buf, at) /\ clevel' = clevel
    BY <1>1, <1>5
  <2>2. /\ GoodBuf(buf') /\ Len(buf') = Len(buf) - 1
        /\ \A x, w : InBuf(buf', x, w) <=> x # key /\ InBuf(buf, x, w)
    BY <1>2, <1>4, <1>5, <2>1, BufDelete
  <2>3. TreeGood'
    BY <1>2, <2>1, <2>2, Sizes DEF TreeGood
  <2>4. InBuf(buf, key, buf[at].value)
    BY <1>4, <1>5
  <2>5. \A k \in Nat : \A v, w : InBuf(buf', k, v) => ~ Holds(clevel'.nodes, k, w)
    BY <1>2, <2>1, <2>2
  <2>6. \A k \in Nat : \A v : InBuf(buf', k, v) \/ Holds(clevel'.nodes, k, v)
           <=> IF k = key THEN v # 0 /\ v = 0 ELSE InBuf(buf, k, v) \/ Holds(clevel.nodes, k, v)
    BY <1>2, <2>1, <2>2, <2>4
  <2>7. kind # "BEntry" => buf' = <<>> /\ clevel'.root # 0
    <3>1. buf # <<>>
      BY <2>4, EmptyBuf
    <3>2. QED
      BY <1>2, <3>1
  <2>8. Changed(buf, clevel.nodes, buf', clevel'.nodes, key, 0)
    BY <2>5, <2>6 DEF Changed
  <2>9. QED
    BY <1>1, <1>2, <1>3, <2>2, <2>3, <2>7, <2>8, BInvNext
<1>6. CASE at = 0
  <2>1. buf' = buf /\ \A v : ~ InBuf(buf, key, v)
    BY <1>1, <1>4, <1>6
  <2>2. /\ clevel'.root = 0 <=> clevel.root = 0
        /\ TreeGood'
        /\ \A k \in Nat : \A v : Holds(clevel'.nodes, k, v) <=> k # key /\ Holds(clevel.nodes, k, v)
    <3>1. CASE clevel.root = 0
      <4>1. clevel' = clevel
        BY <1>1, <1>2, <1>6, <3>1
      <4>2. QED
        BY <1>2, <2>1, <3>1, <4>1 DEF TreeGood
    <3>2. CASE clevel.root # 0
      <4>1. clevel' = C!Delete(clevel, key) /\ Built(clevel)
        BY <1>1, <1>2, <1>6, <3>2
      <4>2. /\ Built(clevel')
            /\ \A k \in Nat : \A v : Holds(clevel'.nodes, k, v) <=> k # key /\ Holds(clevel.nodes, k, v)
        BY <1>3, <4>1, DeleteGood
      <4>3. clevel'.root # 0 /\ TreeGood'
        BY <4>2, BuiltRoot DEF TreeGood
      <4>4. QED
        BY <3>2, <4>2, <4>3
    <3>3. QED
      BY <3>1, <3>2
  <2>3. \A k \in Nat : \A v, w : InBuf(buf', k, v) => ~ Holds(clevel'.nodes, k, w)
    BY <1>2, <2>1, <2>2
  <2>4. \A k \in Nat : \A v : InBuf(buf', k, v) \/ Holds(clevel'.nodes, k, v)
           <=> IF k = key THEN v # 0 /\ v = 0 ELSE InBuf(buf, k, v) \/ Holds(clevel.nodes, k, v)
    BY <2>1, <2>2
  <2>5. GoodBuf(buf') /\ (kind # "BEntry" => buf' = <<>> /\ clevel'.root # 0)
    BY <1>2, <2>1, <2>2
  <2>6. Changed(buf, clevel.nodes, buf', clevel'.nodes, key, 0)
    BY <2>3, <2>4 DEF Changed
  <2>7. QED
    BY <1>1, <1>2, <1>3, <2>2, <2>5, <2>6, BInvNext
<1>7. QED
  BY <1>5, <1>6

(* Every step keeps it. *)
LEMMA BInvStep == BInv /\ [Next]_vars => BInv'
<1> SUFFICES ASSUME BInv, [Next]_vars PROVE BInv'
  OBVIOUS
<1>1. CASE vars' = vars
  BY <1>1 DEF vars, BInv, TreeGood
<1>2. ASSUME NEW k \in Keys, Put(k) PROVE BInv'
  BY <1>2, PutStep
<1>3. ASSUME NEW k \in ChangeKeys, PutAgain(k) \/ Update(k) \/ Delete(k) PROVE BInv'
  <2>1. k \in Keys
    BY BEntryAssumption DEF Keys
  <2>2. QED
    BY <1>3, <2>1, PutAgainStep, UpdateStep, DeleteStep
<1>4. QED
  BY <1>1, <1>2, <1>3 DEF Next

(* The inductive invariant. *)
THEOREM Invariant == Spec => []BInv
BY BInvInit, BInvStep, PTL DEF Spec

-----------------------------------------------------------------------------
(* What follows from the invariant *)

(* The links of a tree lead to its nodes. *)
LEMMA NodeTypes ==
  ASSUME NEW nodes, NEW root, NEW g, NEW q, Tree(nodes, root, g, q), NEW n \in 1 .. Len(nodes)
  PROVE  /\ nodes[n].type \in {"LEAF", "INDEX"}
         /\ nodes[n].link \in (1 .. Len(nodes)) \union {0}
         /\ nodes[n].buf.entries \in 0 .. MaxEntries
<1>1. /\ nodes[n].type \in {"LEAF", "INDEX"} /\ nodes[n].buf.entries \in 0 .. MaxEntries
      /\ Fits(nodes[n], g[n], g, Len(nodes))
  BY NodeParts
<1>2. CASE nodes[n].type = "LEAF"
  BY <1>1, <1>2 DEF Fits, Linked
<1>3. CASE nodes[n].type = "INDEX"
  <2>1. 0 \in 0 .. nodes[n].buf.entries
    BY <1>1, Sizes
  <2>2. C!GetChild(nodes[n], 0) \in 1 .. Len(nodes)
    BY <1>3, <2>1, ChildIn
  <2>3. C!GetChild(nodes[n], 0) = nodes[n].link
    BY DEF C!GetChild
  <2>4. QED
    BY <1>1, <2>2, <2>3
<1>4. QED
  BY <1>1, <1>2, <1>3

(* The invariant implies the type invariant. *)
LEMMA BInvTypes == BInv => TypeOK
<1> SUFFICES ASSUME BInv PROVE TypeOK
  OBVIOUS
<1>1. /\ kind \in Kinds /\ changes \in 0 .. MaxChanges /\ store \in [Keys -> 0 .. 2]
      /\ Len(buf) <= MaxEntries
      /\ clevel.root # 0 => Built(clevel)
      /\ clevel.root = 0 => clevel = C!NotSetup
  BY BInvParts
<1>2. CASE clevel.root = 0
  <2>1. clevel.nodes = <<>>
    BY <1>1, <1>2 DEF C!NotSetup
  <2>2. Nodes = {}
    BY <2>1 DEF Nodes
  <2>3. QED
    BY <1>1, <1>2, <2>2 DEF TypeOK
<1>3. CASE clevel.root # 0
  <2>1. PICK g : Tree(clevel.nodes, clevel.root, g, 0)
    BY <1>1, <1>3 DEF Built
  <2>2. Nodes = 1 .. Len(clevel.nodes) /\ clevel.root \in 1 .. Len(clevel.nodes)
    BY <2>1 DEF Tree, Nodes
  <2>3. \A n \in Nodes :
          /\ clevel.nodes[n].type \in {"LEAF", "INDEX"}
          /\ clevel.nodes[n].link \in Nodes \union {0}
          /\ Buffer(n).entries \in 0 .. MaxEntries
    BY <2>1, <2>2, NodeTypes DEF Buffer
  <2>4. QED
    BY <1>1, <2>2, <2>3 DEF TypeOK
<1>4. QED
  BY <1>2, <1>3

(***************************************************************************)
(* BEntry.TypeOK: the states stay of their types, and a node of the C      *)
(* level is linked to one that exists, through every split.                *)
(***************************************************************************)
THEOREM TypeCorrect == Spec => []TypeOK
BY Invariant, BInvTypes, PTL

(* The invariant implies that a Get answers what the store has. *)
LEMMA BInvGet == BInv => GetAgrees
<1> SUFFICES ASSUME BInv, NEW key \in Keys PROVE Get(key) = store[key]
  BY DEF GetAgrees
<1> DEFINE at == K!Find(buf, key)
<1>1. /\ GoodBuf(buf) /\ store \in [Keys -> 0 .. 2]
      /\ (clevel.root # 0 => Built(clevel)) /\ (C!HasSetup(clevel) <=> clevel.root # 0)
      /\ (clevel.root = 0 => \A k, v : ~ Holds(clevel.nodes, k, v))
      /\ \A k, v, w : InBuf(buf, k, v) => ~ Holds(clevel.nodes, k, w)
      /\ \A k \in Nat : \A v : InBuf(buf, k, v) \/ Holds(clevel.nodes, k, v) <=> k \in Keys /\ v # 0 /\ v = store[k]
  BY BInvParts
<1>2. key \in Nat /\ key < Top
  BY Sizes DEF Top
<1>3. \A v : InBuf(buf, key, v) \/ Holds(clevel.nodes, key, v) <=> v # 0 /\ v = store[key]
  BY <1>1, <1>2
<1>4. /\ at = 0 => \A v : ~ InBuf(buf, key, v)
      /\ at # 0 => InBuf(buf, key, buf[at].value)
  BY <1>1, BufFind
<1>5. Get(key) = IF at # 0 THEN buf[at].value ELSE IF C!HasSetup(clevel) THEN C!Get(clevel, key) ELSE 0
  BY DEF Get, GetTree
<1> HIDE DEF at
<1>6. CASE at # 0
  BY <1>3, <1>4, <1>5, <1>6
<1>7. CASE at = 0
  <2>1. \A v : Holds(clevel.nodes, key, v) <=> v # 0 /\ v = store[key]
    BY <1>3, <1>4, <1>7
  <2>2. CASE clevel.root = 0
    <3>1. store[key] = 0
      BY <1>1, <2>1, <2>2
    <3>2. QED
      BY <1>1, <1>5, <1>7, <2>2, <3>1
  <2>3. CASE clevel.root # 0
    <3>1. /\ \A v : Holds(clevel.nodes, key, v) => C!Get(clevel, key) = v
          /\ (\A v : ~ Holds(clevel.nodes, key, v)) => C!Get(clevel, key) = 0
      BY <1>1, <1>2, <2>3, GetGood
    <3>2. C!Get(clevel, key) = store[key]
      <4>1. CASE store[key] = 0
        BY <2>1, <3>1, <4>1
      <4>2. CASE store[key] # 0
        BY <2>1, <3>1, <4>2
      <4>3. QED
        BY <4>1, <4>2
    <3>3. QED
      BY <1>1, <1>5, <1>7, <2>3, <3>2
  <2>4. QED
    BY <2>2, <2>3
<1>8. QED
  BY <1>6, <1>7

(***************************************************************************)
(* BEntry.GetAgrees: a Get finds each pair with its last value, and none   *)
(* that was deleted, wherever buffering, flushes and splits have put it.   *)
(***************************************************************************)
THEOREM GetAlwaysAgrees == Spec => []GetAgrees
BY Invariant, BInvGet, PTL

-----------------------------------------------------------------------------
(* Rows of leaves *)

(* FlattenSeq, as SequencesExt has it: g holds the first j rows. *)
LEMMA FlattenIs ==
  ASSUME NEW V, NEW Q \in Seq(Seq(V)), Len(Q) # 0
  PROVE  \E g : /\ g[1] = Q[1] /\ FlattenSeq(Q) = g[Len(Q)]
                /\ \A j \in 2 .. Len(Q) : g[j] = g[j - 1] \o Q[j]
<1> DEFINE n == Len(Q)
           B == Seq(V)
           P(g) == g = [i \in 1 .. n |-> IF i = 1 THEN Q[i] ELSE g[i - 1] \o Q[i]]
           F == [t \in B \X (2 .. n) |-> t[1] \o Q[t[2]]]
<1>1. n \in Nat /\ n >= 1 /\ \A i \in 1 .. n : Q[i] \in B
  OBVIOUS
<1>2. FlattenSeq(Q) = (CHOOSE g : P(g))[n]
  BY DEF FlattenSeq
<1> HIDE DEF n, B
<1>3. F \in [B \X (2 .. n) -> B]
  <2>1. ASSUME NEW t \in B \X (2 .. n) PROVE t[1] \o Q[t[2]] \in B
    <3>1. t[1] \in B /\ t[2] \in 1 .. n
      BY <1>1
    <3>2. Q[t[2]] \in B
      BY <1>1, <3>1
    <3>3. QED
      BY <3>1, <3>2 DEF B
  <2>2. QED
    BY <2>1
<1>4. PICK g : Steps(g, 1, n, B, Q[1], F)
  <2>1. 1 \in Int /\ n \in Int /\ 1 <= n /\ Q[1] \in B
    BY <1>1
  <2>2. F \in [B \X (1 + 1 .. n) -> B]
    BY <1>3
  <2> HIDE DEF F
  <2>3. QED
    BY <2>1, <2>2, StepsExist
<1>5. P(g)
  <2>1. ASSUME NEW j \in 1 .. n
        PROVE  (IF j = 1 THEN Q[1] ELSE F[<<g[j - 1], j>>]) = IF j = 1 THEN Q[j] ELSE g[j - 1] \o Q[j]
    <3>1. CASE j = 1
      BY <3>1
    <3>2. CASE j # 1
      <4>1. j \in 2 .. n /\ j - 1 \in 1 .. n
        BY <1>1, <3>2
      <4>2. g[j - 1] \in B
        BY <1>4, <4>1 DEF Steps
      <4> DEFINE t == <<g[j - 1], j>>
      <4>3. t \in B \X (2 .. n) /\ t[1] = g[j - 1] /\ t[2] = j
        BY <4>1, <4>2
      <4> HIDE DEF t
      <4>4. F[t] = t[1] \o Q[t[2]]
        BY <4>3
      <4>5. QED
        BY <3>2, <4>3, <4>4 DEF t
    <3>3. QED
      BY <3>1, <3>2
  <2>2. g = [j \in 1 .. n |-> IF j = 1 THEN Q[1] ELSE F[<<g[j - 1], j>>]]
    BY <1>4, ZenonT(60) DEF Steps
  <2> HIDE DEF F
  <2>3. QED
    BY <2>1, <2>2
<1>6. P(CHOOSE h : P(h))
  <2> HIDE DEF P
  <2>1. QED
    BY <1>5
<1> DEFINE c == CHOOSE h : P(h)
<1>7. P(c) /\ FlattenSeq(Q) = c[n]
  BY <1>2, <1>6, ZenonT(60)
<1> HIDE DEF c
<1>8. c[1] = Q[1] /\ \A j \in 2 .. n : c[j] = c[j - 1] \o Q[j]
  <2>1. \A j \in 1 .. n : c[j] = IF j = 1 THEN Q[j] ELSE c[j - 1] \o Q[j]
    BY <1>7
  <2>2. 1 \in 1 .. n /\ \A j \in 2 .. n : j \in 1 .. n /\ j # 1
    BY <1>1
  <2>3. QED
    BY <2>1, <2>2
<1>9. QED
  BY <1>7, <1>8 DEF n

(* Spans that are apart. *)
SpansGood(g, N) ==
  /\ N \in Nat /\ g \in [1 .. N -> Span]
  /\ \A n \in 1 .. N : g[n].h \in Nat /\ g[n].lo \in Nat /\ g[n].hi \in Nat /\ g[n].lo < g[n].hi
  /\ \A m, n \in 1 .. N : m # n => Apart(g[m], g[n])

(* Leaves from left to right that share out the keys from lo up to hi. *)
Frontier(L, N, g, lo, hi) ==
  /\ L \in Seq(1 .. N) /\ Len(L) >= 1
  /\ \A i \in 1 .. Len(L) : g[L[i]].h = 0
  /\ g[L[1]].lo = lo /\ g[L[Len(L)]].hi = hi
  /\ \A i \in 1 .. Len(L) - 1 : g[L[i]].hi = g[L[i + 1]].lo

(* The spans of a tree are apart. *)
LEMMA TreeSpans ==
  ASSUME NEW nodes, NEW root, NEW g, NEW q, Tree(nodes, root, g, q)
  PROVE  SpansGood(g, Len(nodes))
<1>1. Len(nodes) \in Nat /\ g \in [1 .. Len(nodes) -> Span] /\ \A m, n \in 1 .. Len(nodes) : m # n => Apart(g[m], g[n])
  BY DEF Tree
<1>2. \A n \in 1 .. Len(nodes) : g[n].h \in Nat /\ g[n].lo \in Nat /\ g[n].hi \in Nat /\ g[n].lo < g[n].hi
  BY NodeParts
<1>3. QED
  BY <1>1, <1>2 DEF SpansGood

(* Leaves with a key in common are one. *)
LEMMA LeafSame ==
  ASSUME NEW N, NEW g, SpansGood(g, N), NEW a \in 1 .. N, NEW b \in 1 .. N, g[a].h = g[b].h,
         NEW k \in Int, g[a].lo <= k, k < g[a].hi, g[b].lo <= k, k < g[b].hi
  PROVE  a = b
<1>1. g[a].lo \in Nat /\ g[a].hi \in Nat /\ g[b].lo \in Nat /\ g[b].hi \in Nat
  BY DEF SpansGood
<1>2. ASSUME a # b PROVE FALSE
  <2>1. Apart(g[a], g[b])
    BY <1>2 DEF SpansGood
  <2>2. g[a].hi <= g[b].lo \/ g[b].hi <= g[a].lo
    BY <2>1 DEF Apart
  <2>3. QED
    BY <1>1, <2>2
<1>3. QED
  BY <1>2

(* The members of a row. *)
LEMMA RowParts ==
  ASSUME NEW N, NEW g, SpansGood(g, N), NEW L, NEW lo, NEW hi, Frontier(L, N, g, lo, hi)
  PROVE  /\ Len(L) \in Nat /\ Len(L) >= 1 /\ DOMAIN L = 1 .. Len(L)
         /\ \A i \in 1 .. Len(L) : /\ L[i] \in 1 .. N /\ g[L[i]].h = 0
                                   /\ g[L[i]].lo \in Nat /\ g[L[i]].hi \in Nat /\ g[L[i]].lo < g[L[i]].hi
         /\ lo \in Nat /\ hi \in Nat
         /\ g[L[1]].lo = lo /\ g[L[Len(L)]].hi = hi
         /\ \A i \in 1 .. Len(L) - 1 : g[L[i]].hi = g[L[i + 1]].lo
<1>1. /\ Len(L) \in Nat /\ Len(L) >= 1 /\ DOMAIN L = 1 .. Len(L)
      /\ \A i \in 1 .. Len(L) : L[i] \in 1 .. N /\ g[L[i]].h = 0
      /\ g[L[1]].lo = lo /\ g[L[Len(L)]].hi = hi
      /\ \A i \in 1 .. Len(L) - 1 : g[L[i]].hi = g[L[i + 1]].lo
  <2> DEFINE S == 1 .. N
  <2>1. L \in Seq(S) /\ Len(L) >= 1
    BY DEF Frontier
  <2> HIDE DEF S
  <2>2. Len(L) \in Nat /\ DOMAIN L = 1 .. Len(L) /\ \A i \in 1 .. Len(L) : L[i] \in S
    BY <2>1, LenProperties, ElementOfSeq
  <2> USE DEF S
  <2>3. QED
    BY <2>1, <2>2 DEF Frontier
<1>2. \A n \in 1 .. N : g[n].lo \in Nat /\ g[n].hi \in Nat /\ g[n].lo < g[n].hi
  BY DEF SpansGood
<1>3. 1 \in 1 .. Len(L) /\ Len(L) \in 1 .. Len(L)
  BY <1>1
<1>4. QED
  BY <1>1, <1>2, <1>3

(* The spans of a row ascend. *)
LEMMA RowAscends ==
  ASSUME NEW N, NEW g, SpansGood(g, N), NEW L, NEW lo, NEW hi, Frontier(L, N, g, lo, hi)
  PROVE  /\ \A i, j \in 1 .. Len(L) : i < j => g[L[i]].hi <= g[L[j]].lo
         /\ \A i \in 1 .. Len(L) : lo <= g[L[i]].lo /\ g[L[i]].hi <= hi
<1> DEFINE l == Len(L)
           low == [i \in 1 .. l |-> g[L[i]].lo]
           high == [i \in 1 .. l |-> g[L[i]].hi]
           G == {j \in 0 .. l : \A i, k \in 1 .. j : i < k => high[i] <= low[k]}
<1>1. /\ l \in Nat /\ l >= 1
      /\ \A i \in 1 .. l : low[i] \in Nat /\ high[i] \in Nat /\ low[i] < high[i]
      /\ \A i \in 1 .. l : low[i] = g[L[i]].lo /\ high[i] = g[L[i]].hi
  BY RowParts
<1>2. \A i \in 1 .. l - 1 : high[i] = low[i + 1]
  <2>1. \A i \in 1 .. l - 1 : i \in 1 .. l /\ i + 1 \in 1 .. l /\ g[L[i]].hi = g[L[i + 1]].lo
    BY <1>1, RowParts
  <2> HIDE DEF low, high, l
  <2>2. QED
    BY <1>1, <2>1
<1>3. g[L[1]].lo = lo /\ g[L[l]].hi = hi /\ lo \in Nat /\ hi \in Nat
  BY RowParts
<1> HIDE DEF low, high, l
<1>4. 0 \in G
  BY <1>1
<1>5. ASSUME NEW j \in 0 .. l - 1, j \in G PROVE j + 1 \in G
  <2>1. ASSUME NEW i \in 1 .. j + 1, NEW k \in 1 .. j + 1, i < k PROVE high[i] <= low[k]
    <3>1. CASE k \in 1 .. j
      BY <1>5, <2>1, <3>1
    <3>2. CASE k = j + 1 /\ i = j
      <4>1. i \in 1 .. l - 1
        BY <1>1, <3>2
      <4>2. QED
        BY <1>1, <1>2, <3>2, <4>1
    <3>3. CASE k = j + 1 /\ i < j
      <4>1. j \in 1 .. l - 1 /\ i \in 1 .. j /\ j \in 1 .. j /\ i \in 1 .. l /\ k \in 1 .. l /\ j \in 1 .. l
        BY <1>1, <2>1, <3>3
      <4>2. high[i] <= low[j]
        BY <1>5, <3>3, <4>1
      <4>3. high[j] = low[k]
        BY <1>2, <3>3, <4>1
      <4>4. QED
        BY <1>1, <4>1, <4>2, <4>3
    <3>4. QED
      BY <1>1, <2>1, <3>1, <3>2, <3>3
  <2>2. j + 1 \in 0 .. l
    BY <1>1
  <2>3. QED
    BY <2>1, <2>2
<1>6. l \in G
  <2>1. \A j \in 0 .. l - 1 : j \in G => j + 1 \in G
    BY <1>5
  <2>2. l \in 0 .. l
    BY <1>1
  <2> HIDE DEF G
  <2>3. QED
    BY <1>1, <1>4, <2>1, <2>2, Induct
<1>7. \A i, k \in 1 .. l : i < k => high[i] <= low[k]
  BY <1>6
<1>8. ASSUME NEW i \in 1 .. l PROVE lo <= low[i] /\ high[i] <= hi
  <2>1. 1 \in 1 .. l /\ l \in 1 .. l
    BY <1>1
  <2>2. low[1] = lo /\ high[l] = hi
    BY <1>1, <1>3, <2>1
  <2>3. CASE i = 1
    <3>1. CASE i = l
      BY <1>1, <2>2, <2>3, <3>1
    <3>2. CASE i < l
      BY <1>1, <1>7, <2>1, <2>2, <2>3, <3>2
    <3>3. QED
      BY <1>1, <3>1, <3>2
  <2>4. CASE i # 1
    <3>1. lo <= low[i]
      BY <1>1, <1>7, <2>1, <2>2, <2>4
    <3>2. CASE i = l
      BY <2>2, <3>1, <3>2, <1>1, <1>3
    <3>3. CASE i < l
      BY <1>1, <1>7, <2>1, <2>2, <3>1, <3>3
    <3>4. QED
      BY <1>1, <3>2, <3>3
  <2>5. QED
    BY <2>3, <2>4
<1>9. QED
  BY <1>1, <1>7, <1>8 DEF l

(* Every key between the ends of a row is in the span of a leaf of it. *)
LEMMA RowCovers ==
  ASSUME NEW N, NEW g, SpansGood(g, N), NEW L, NEW lo, NEW hi, Frontier(L, N, g, lo, hi),
         NEW k \in Int, lo <= k, k < hi
  PROVE  \E i \in 1 .. Len(L) : g[L[i]].lo <= k /\ k < g[L[i]].hi
<1> DEFINE l == Len(L)
           Q == {i \in 1 .. l : k < g[L[i]].hi}
<1>1. /\ l \in Nat /\ l >= 1 /\ g[L[1]].lo = lo /\ g[L[l]].hi = hi
      /\ \A i \in 1 .. l : g[L[i]].lo \in Nat /\ g[L[i]].hi \in Nat
      /\ \A i \in 1 .. l - 1 : g[L[i]].hi = g[L[i + 1]].lo
  BY RowParts
<1> HIDE DEF l
<1>2. Q \in SUBSET Nat /\ l \in Q
  BY <1>1
<1>3. PICK i \in Q : \A j \in Q : i <= j
  <2> HIDE DEF Q
  <2>1. QED
    BY <1>2, Least
<1>4. i \in 1 .. l /\ k < g[L[i]].hi
  OBVIOUS
<1>5. CASE i = 1
  BY <1>1, <1>4, <1>5 DEF l
<1>6. CASE i # 1
  <2> DEFINE j == i - 1
  <2>1. j \in 1 .. l - 1 /\ j \in 1 .. l /\ j + 1 = i /\ j < i
    BY <1>1, <1>4, <1>6
  <2>2. j \notin Q
    BY <1>3, <2>1
  <2>3. ~ (k < g[L[j]].hi)
    BY <2>1, <2>2
  <2> HIDE DEF j
  <2>4. g[L[j]].hi = g[L[i]].lo
    BY <1>1, <2>1
  <2>5. g[L[i]].lo <= k
    BY <1>1, <1>4, <2>3, <2>4
  <2>6. QED
    BY <1>4, <2>5 DEF l
<1>7. QED
  BY <1>5, <1>6

(* A leaf is a row of one. *)
LEMMA FrontierOne ==
  ASSUME NEW N, NEW g, SpansGood(g, N), NEW n \in 1 .. N, g[n].h = 0
  PROVE  Frontier(<<n>>, N, g, g[n].lo, g[n].hi)
<1> DEFINE S == 1 .. N
           L == <<n>>
<1>1. L \in Seq(S) /\ Len(L) = 1 /\ L[1] = n
  <2>1. n \in S
    OBVIOUS
  <2> HIDE DEF S
  <2>2. QED
    BY <2>1
<1> HIDE DEF L
<1>2. L \in Seq(1 .. N)
  BY <1>1
<1>3. \A i \in 1 .. Len(L) : g[L[i]].h = 0
  BY <1>1
<1>4. g[L[1]].lo = g[n].lo /\ g[L[Len(L)]].hi = g[n].hi /\ Len(L) >= 1
  BY <1>1
<1>5. \A i \in 1 .. Len(L) - 1 : g[L[i]].hi = g[L[i + 1]].lo
  BY <1>1
<1>6. Frontier(L, N, g, g[n].lo, g[n].hi)
  BY <1>2, <1>3, <1>4, <1>5 DEF Frontier
<1>7. QED
  BY <1>6 DEF L

(* Two rows, the second going on where the first ends, are one. *)
LEMMA FrontierConcat ==
  ASSUME NEW N, NEW g, SpansGood(g, N), NEW L, NEW M, NEW lo, NEW mid, NEW hi,
         Frontier(L, N, g, lo, mid), Frontier(M, N, g, mid, hi)
  PROVE  Frontier(L \o M, N, g, lo, hi)
<1> DEFINE S == 1 .. N
           C1 == L \o M
           l == Len(L)
           m == Len(M)
<1>1. /\ l \in Nat /\ l >= 1 /\ g[L[1]].lo = lo /\ g[L[l]].hi = mid
      /\ \A i \in 1 .. l : g[L[i]].h = 0
      /\ \A i \in 1 .. l - 1 : g[L[i]].hi = g[L[i + 1]].lo
  BY RowParts
<1>2. /\ m \in Nat /\ m >= 1 /\ g[M[1]].lo = mid /\ g[M[m]].hi = hi
      /\ \A i \in 1 .. m : g[M[i]].h = 0
      /\ \A i \in 1 .. m - 1 : g[M[i]].hi = g[M[i + 1]].lo
  BY RowParts
<1>3. L \in Seq(S) /\ M \in Seq(S)
  BY DEF Frontier
<1> HIDE DEF S
<1>4. /\ C1 \in Seq(S) /\ Len(C1) = l + m
      /\ \A i \in 1 .. l + m : C1[i] = IF i <= l THEN L[i] ELSE M[i - l]
  BY <1>3, ConcatProperties
<1> HIDE DEF C1, l, m
<1>5. /\ \A i \in 1 .. l : i \in 1 .. l + m /\ C1[i] = L[i]
      /\ \A i \in 1 .. m : i + l \in 1 .. l + m /\ C1[i + l] = M[i]
  <2>1. ASSUME NEW i \in 1 .. l PROVE i \in 1 .. l + m /\ C1[i] = L[i]
    BY <1>1, <1>2, <1>4
  <2>2. ASSUME NEW i \in 1 .. m PROVE i + l \in 1 .. l + m /\ C1[i + l] = M[i]
    <3>1. i + l \in 1 .. l + m /\ ~ (i + l <= l) /\ (i + l) - l = i
      BY <1>1, <1>2
    <3>2. QED
      BY <1>4, <3>1
  <2>3. QED
    BY <2>1, <2>2
<1>6. ASSUME NEW i \in 1 .. l + m PROVE g[C1[i]].h = 0
  <2>1. CASE i <= l
    BY <1>1, <1>2, <1>5, <2>1
  <2>2. CASE i > l
    <3>1. i - l \in 1 .. m
      BY <1>1, <1>2, <2>2
    <3>2. C1[i] = M[i - l]
      BY <1>1, <1>4, <2>2
    <3>3. QED
      BY <1>2, <3>1, <3>2
  <2>3. QED
    BY <1>1, <2>1, <2>2
<1>7. ASSUME NEW i \in 1 .. (l + m) - 1 PROVE g[C1[i]].hi = g[C1[i + 1]].lo
  <2>1. CASE i < l
    <3>1. i \in 1 .. l /\ i + 1 \in 1 .. l /\ i \in 1 .. l - 1
      BY <1>1, <1>2, <2>1
    <3>2. C1[i] = L[i] /\ C1[i + 1] = L[i + 1]
      BY <1>5, <3>1
    <3>3. QED
      BY <1>1, <3>1, <3>2
  <2>2. CASE i = l
    <3>1. l \in 1 .. l /\ 1 \in 1 .. m /\ 1 + l = l + 1
      BY <1>1, <1>2
    <3>2. C1[l] = L[l] /\ C1[l + 1] = M[1]
      BY <1>5, <3>1
    <3>3. QED
      BY <1>1, <1>2, <2>2, <3>2
  <2>3. CASE i > l
    <3> DEFINE j == i - l
    <3>1. j \in 1 .. m - 1 /\ j \in 1 .. m /\ j + 1 \in 1 .. m /\ j + l = i /\ (j + 1) + l = i + 1
      BY <1>1, <1>2, <2>3
    <3>2. C1[i] = M[j] /\ C1[i + 1] = M[j + 1]
      <4> HIDE DEF j
      <4>1. QED
        BY <1>5, <3>1
    <3> HIDE DEF j
    <3>3. QED
      BY <1>2, <3>1, <3>2
  <2>4. QED
    BY <1>1, <2>1, <2>2, <2>3
<1>8. g[C1[1]].lo = lo /\ g[C1[l + m]].hi = hi
  <2>1. 1 \in 1 .. l /\ m \in 1 .. m /\ m + l = l + m
    BY <1>1, <1>2
  <2>2. C1[1] = L[1] /\ C1[l + m] = M[m]
    BY <1>5, <2>1
  <2>3. QED
    BY <1>1, <1>2, <2>2
<1>9. C1 \in Seq(1 .. N) /\ Len(C1) = l + m /\ Len(C1) >= 1
  BY <1>1, <1>2, <1>4 DEF S
<1>10. Frontier(C1, N, g, lo, hi)
  BY <1>6, <1>7, <1>8, <1>9 DEF Frontier
<1>11. QED
  BY <1>10 DEF C1

(* Rows one after the other: row i reaches from a[i - 1] up to a[i]. *)
Rows(Q, N, g, a) ==
  /\ Q \in Seq(Seq(1 .. N)) /\ Len(Q) # 0
  /\ \A i \in 1 .. Len(Q) : Frontier(Q[i], N, g, a[i - 1], a[i])

(* They make up one row. *)
LEMMA FrontierFlatten ==
  ASSUME NEW N, NEW g, SpansGood(g, N), NEW Q, NEW a, Rows(Q, N, g, a)
  PROVE  Frontier(FlattenSeq(Q), N, g, a[0], a[Len(Q)])
<1> DEFINE n == Len(Q)
           S == 1 .. N
<1>1. Q \in Seq(Seq(S)) /\ n # 0 /\ \A i \in 1 .. n : Frontier(Q[i], N, g, a[i - 1], a[i])
  BY DEF Rows
<1> HIDE DEF S
<1>2. PICK f : /\ f[1] = Q[1] /\ FlattenSeq(Q) = f[n]
               /\ \A j \in 2 .. n : f[j] = f[j - 1] \o Q[j]
  BY <1>1, FlattenIs
<1>3. n \in Nat /\ n >= 1
  BY <1>1
<1> DEFINE G == {j \in 0 .. n : j >= 1 => Frontier(f[j], N, g, a[0], a[j])}
<1> HIDE DEF n
<1>4. 0 \in G
  BY <1>3
<1>5. ASSUME NEW j \in 0 .. n - 1, j \in G PROVE j + 1 \in G
  <2>1. j + 1 \in 0 .. n /\ j + 1 \in 1 .. n /\ (j + 1) - 1 = j /\ j \in Nat
    BY <1>3
  <2>2. Frontier(Q[j + 1], N, g, a[j], a[j + 1])
    BY <1>1, <2>1
  <2>3. CASE j = 0
    <3>1. f[j + 1] = Q[j + 1]
      BY <1>2, <2>3
    <3>2. QED
      BY <2>1, <2>2, <2>3, <3>1
  <2>4. CASE j # 0
    <3>1. j >= 1 /\ j + 1 \in 2 .. n
      BY <1>3, <2>1, <2>4
    <3>2. f[j + 1] = f[j] \o Q[j + 1] /\ Frontier(f[j], N, g, a[0], a[j])
      BY <1>2, <1>5, <2>1, <3>1
    <3>3. Frontier(f[j + 1], N, g, a[0], a[j + 1])
      BY <2>2, <3>2, FrontierConcat
    <3>4. QED
      BY <2>1, <3>3
  <2>5. QED
    BY <2>3, <2>4
<1>6. n \in G
  <2>1. \A j \in 0 .. n - 1 : j \in G => j + 1 \in G
    BY <1>5
  <2>2. n \in 0 .. n
    BY <1>3
  <2> HIDE DEF G
  <2>3. QED
    BY <1>3, <1>4, <2>1, <2>2, Induct
<1>7. QED
  BY <1>2, <1>3, <1>6 DEF n

(* Two rows over the same keys are the same. *)
LEMMA FrontierSame ==
  ASSUME NEW N, NEW g, SpansGood(g, N), NEW L, NEW M, NEW lo, NEW hi,
         Frontier(L, N, g, lo, hi), Frontier(M, N, g, lo, hi)
  PROVE  L = M
<1> DEFINE l == Len(L)
           m == Len(M)
           S == 1 .. N
           G == {j \in 0 .. l : j <= m /\ \A i \in 1 .. j : L[i] = M[i]}
<1>1. /\ l \in Nat /\ l >= 1 /\ g[L[1]].lo = lo /\ g[L[l]].hi = hi
      /\ \A i \in 1 .. l : /\ L[i] \in 1 .. N /\ g[L[i]].h = 0
                           /\ g[L[i]].lo \in Nat /\ g[L[i]].hi \in Nat /\ g[L[i]].lo < g[L[i]].hi
      /\ \A i \in 1 .. l - 1 : g[L[i]].hi = g[L[i + 1]].lo
  BY RowParts
<1>2. /\ m \in Nat /\ m >= 1 /\ g[M[1]].lo = lo /\ g[M[m]].hi = hi
      /\ \A i \in 1 .. m : /\ M[i] \in 1 .. N /\ g[M[i]].h = 0
                           /\ g[M[i]].lo \in Nat /\ g[M[i]].hi \in Nat /\ g[M[i]].lo < g[M[i]].hi
      /\ \A i \in 1 .. m - 1 : g[M[i]].hi = g[M[i + 1]].lo
  BY RowParts
<1>3. L \in Seq(S) /\ M \in Seq(S)
  BY DEF Frontier
<1>4. /\ \A i \in 1 .. l : g[L[i]].hi <= hi
      /\ \A i \in 1 .. m : g[M[i]].hi <= hi
  BY RowAscends
<1>5. lo \in Nat /\ hi \in Nat
  BY RowParts
<1> HIDE DEF l, m, S
<1>6. 0 \in G
  BY <1>1, <1>2
<1>7. ASSUME NEW j \in 0 .. l - 1, j \in G PROVE j + 1 \in G
  <2>1. j \in Nat /\ j + 1 \in 0 .. l /\ j + 1 \in 1 .. l /\ j <= m /\ \A i \in 1 .. j : L[i] = M[i]
    BY <1>1, <1>7
  <2>2. j < m
    <3>1. SUFFICES ASSUME j = m PROVE FALSE
      BY <1>2, <2>1
    <3>2. j \in 1 .. j /\ j \in 1 .. l - 1
      BY <1>2, <2>1, <3>1
    <3>3. L[j] = M[j] /\ g[L[j]].hi = hi /\ g[L[j]].hi = g[L[j + 1]].lo
      BY <1>1, <1>2, <2>1, <3>1, <3>2
    <3>4. g[L[j + 1]].lo < g[L[j + 1]].hi /\ g[L[j + 1]].hi <= hi /\ g[L[j + 1]].lo \in Nat /\ g[L[j + 1]].hi \in Nat
      BY <1>1, <1>4, <2>1
    <3>5. QED
      BY <1>5, <3>3, <3>4
  <2>3. j + 1 \in 1 .. m
    BY <1>2, <2>1, <2>2
  <2>4. g[L[j + 1]].lo = g[M[j + 1]].lo
    <3>1. CASE j = 0
      BY <1>1, <1>2, <3>1
    <3>2. CASE j # 0
      <4>1. j \in 1 .. l - 1 /\ j \in 1 .. m - 1 /\ j \in 1 .. j
        BY <1>1, <1>2, <2>1, <2>2, <3>2
      <4>2. g[L[j]].hi = g[L[j + 1]].lo /\ g[M[j]].hi = g[M[j + 1]].lo /\ L[j] = M[j]
        BY <1>1, <1>2, <2>1, <4>1
      <4>3. QED
        BY <4>2
    <3>3. QED
      BY <3>1, <3>2
  <2>5. L[j + 1] = M[j + 1]
    <3> DEFINE x == L[j + 1]
               y == M[j + 1]
               k == g[x].lo
    <3>1. /\ x \in 1 .. N /\ y \in 1 .. N /\ g[x].h = g[y].h
          /\ k \in Nat /\ g[y].lo = k /\ k < g[x].hi /\ k < g[y].hi
      BY <1>1, <1>2, <2>1, <2>3, <2>4
    <3> HIDE DEF x, y
    <3>2. k \in Int /\ g[x].lo <= k /\ g[y].lo <= k
      BY <3>1
    <3> HIDE DEF k
    <3>3. x = y
      BY <3>1, <3>2, LeafSame
    <3>4. QED
      BY <3>3 DEF x, y
  <2>6. \A i \in 1 .. j + 1 : L[i] = M[i]
    <3>1. \A i \in 1 .. j + 1 : i \in 1 .. j \/ i = j + 1
      BY <2>1
    <3>2. QED
      BY <2>1, <2>5, <3>1
  <2>7. j + 1 <= m
    BY <1>2, <2>3
  <2>8. QED
    BY <2>1, <2>6, <2>7
<1>8. l \in G
  <2>1. \A j \in 0 .. l - 1 : j \in G => j + 1 \in G
    BY <1>7
  <2>2. l \in 0 .. l
    BY <1>1
  <2> HIDE DEF G
  <2>3. QED
    BY <1>1, <1>6, <2>1, <2>2, Induct
<1>9. l <= m /\ \A i \in 1 .. l : L[i] = M[i]
  BY <1>8
<1>10. l = m
  <2>1. SUFFICES ASSUME l < m PROVE FALSE
    BY <1>1, <1>2, <1>9
  <2>2. l \in 1 .. l /\ l \in 1 .. m - 1 /\ l + 1 \in 1 .. m
    BY <1>1, <1>2, <2>1
  <2>3. L[l] = M[l] /\ g[M[l]].hi = hi /\ g[M[l]].hi = g[M[l + 1]].lo
    BY <1>1, <1>2, <1>9, <2>2
  <2>4. g[M[l + 1]].lo < g[M[l + 1]].hi /\ g[M[l + 1]].hi <= hi /\ g[M[l + 1]].lo \in Nat /\ g[M[l + 1]].hi \in Nat
    BY <1>2, <1>4, <2>2
  <2>5. QED
    BY <1>5, <2>3, <2>4
<1>11. QED
  <2>1. Len(L) = Len(M) /\ \A i \in 1 .. Len(L) : L[i] = M[i]
    BY <1>9, <1>10 DEF l, m
  <2>2. QED
    BY <1>3, <2>1, SeqEqual

(* FlattenSeq of rows is a row. *)
LEMMA FlattenIn ==
  ASSUME NEW V, NEW Q \in Seq(Seq(V)), Len(Q) # 0
  PROVE  FlattenSeq(Q) \in Seq(V)
<1> DEFINE n == Len(Q)
           B == Seq(V)
<1>1. PICK f : /\ f[1] = Q[1] /\ FlattenSeq(Q) = f[n]
               /\ \A j \in 2 .. n : f[j] = f[j - 1] \o Q[j]
  BY FlattenIs
<1>2. n \in Nat /\ n >= 1 /\ \A i \in 1 .. n : Q[i] \in B
  OBVIOUS
<1>3. \A x, y \in B : x \o y \in B
  BY ConcatProperties
<1> DEFINE G == {j \in 0 .. n : j >= 1 => f[j] \in B}
<1> HIDE DEF n, B
<1>4. 0 \in G
  BY <1>2
<1>5. ASSUME NEW j \in 0 .. n - 1, j \in G PROVE j + 1 \in G
  <2>1. j + 1 \in 0 .. n /\ j + 1 \in 1 .. n /\ (j + 1) - 1 = j /\ Q[j + 1] \in B
    BY <1>2
  <2>2. CASE j = 0
    BY <1>1, <2>1, <2>2
  <2>3. CASE j # 0
    <3>1. j >= 1 /\ j + 1 \in 2 .. n
      BY <1>2, <2>1, <2>3
    <3>2. f[j + 1] = f[j] \o Q[j + 1] /\ f[j] \in B
      BY <1>1, <1>5, <2>1, <3>1
    <3>3. QED
      BY <1>3, <2>1, <3>2
  <2>4. QED
    BY <2>2, <2>3
<1>6. n \in G
  <2>1. \A j \in 0 .. n - 1 : j \in G => j + 1 \in G
    BY <1>5
  <2>2. n \in 0 .. n
    BY <1>2
  <2> HIDE DEF G
  <2>3. QED
    BY <1>2, <1>4, <2>1, <2>2, Induct
<1>7. QED
  BY <1>1, <1>2, <1>6 DEF n, B

(* Nodes D of which those not in Leaf have the children Kid[n][0 .. e[n]], *)
(* of a lower rank r.                                                      *)
Branching(D, M, r, e, Kid, Leaf) ==
  /\ M \in Nat /\ r \in [D -> 0 .. M]
  /\ \A n \in D : n \notin Leaf =>
       /\ e[n] \in Nat
       /\ \A i \in 0 .. e[n] : Kid[n][i] \in D /\ r[Kid[n][i]] < r[n]

(* One turn of LeavesBelow and of LevelsBelow. *)
LeavesTurn(f, n, e, Kid, Leaf) ==
  IF n \in Leaf THEN <<n>> ELSE FlattenSeq([i \in 1 .. e[n] + 1 |-> f[Kid[n][i - 1]]])
LevelsTurn(f, n, e, Kid, Leaf) ==
  IF n \in Leaf THEN {0} ELSE UNION {{l + 1 : l \in f[Kid[n][i]]} : i \in 0 .. e[n]}

(* LeavesBelow is a function, and so is LevelsBelow. *)
LEMMA LeavesExist ==
  ASSUME NEW D, NEW M, NEW r, NEW e, NEW Kid, NEW Leaf, Branching(D, M, r, e, Kid, Leaf)
  PROVE  \E f \in [D -> Seq(D)] : \A n \in D : f[n] = LeavesTurn(f, n, e, Kid, Leaf)
<1> DEFINE V == Seq(D)
           B == [x \in [D -> V] \X D |-> LeavesTurn(x[1], x[2], e, Kid, Leaf)]
<1>1. /\ M \in Nat /\ r \in [D -> 0 .. M]
      /\ \A n \in D : n \notin Leaf =>
           /\ e[n] \in Nat
           /\ \A i \in 0 .. e[n] : Kid[n][i] \in D /\ r[Kid[n][i]] < r[n]
  BY DEF Branching
<1>2. ASSUME NEW f \in [D -> V], NEW n \in D PROVE LeavesTurn(f, n, e, Kid, Leaf) \in V
  <2>1. CASE n \in Leaf
    BY <2>1 DEF LeavesTurn
  <2>2. CASE n \notin Leaf
    <3> DEFINE k == e[n] + 1
               Q == [i \in 1 .. k |-> f[Kid[n][i - 1]]]
    <3>1. k \in Nat /\ k # 0 /\ e[n] \in Nat
      BY <1>1, <2>2
    <3>2. ASSUME NEW i \in 1 .. k PROVE f[Kid[n][i - 1]] \in V
      <4>1. i - 1 \in 0 .. e[n]
        BY <3>1
      <4>2. Kid[n][i - 1] \in D
        BY <1>1, <2>2, <4>1
      <4> HIDE DEF V
      <4>3. QED
        BY <4>2
    <3>3. Q \in [1 .. k -> V]
      BY <3>2
    <3> HIDE DEF k, Q
    <3>4. Q \in Seq(V) /\ Len(Q) = k
      BY <3>1, <3>3, FunctionSeq
    <3>5. FlattenSeq(Q) \in V
      BY <3>1, <3>4, FlattenIn
    <3>6. QED
      BY <2>2, <3>5 DEF LeavesTurn, k, Q
  <2>3. QED
    BY <2>1, <2>2
<1>3. ASSUME NEW f \in [D -> V], NEW h \in [D -> V], NEW n \in D, \A m \in D : r[m] < r[n] => f[m] = h[m]
      PROVE  LeavesTurn(f, n, e, Kid, Leaf) = LeavesTurn(h, n, e, Kid, Leaf)
  <2>1. CASE n \in Leaf
    BY <2>1 DEF LeavesTurn
  <2>2. CASE n \notin Leaf
    <3>1. \A i \in 1 .. e[n] + 1 : f[Kid[n][i - 1]] = h[Kid[n][i - 1]]
      <4>1. ASSUME NEW i \in 1 .. e[n] + 1 PROVE f[Kid[n][i - 1]] = h[Kid[n][i - 1]]
        <5>1. i - 1 \in 0 .. e[n]
          BY <1>1, <2>2
        <5>2. QED
          BY <1>1, <1>3, <2>2, <5>1
      <4>2. QED
        BY <4>1
    <3>2. [i \in 1 .. e[n] + 1 |-> f[Kid[n][i - 1]]] = [i \in 1 .. e[n] + 1 |-> h[Kid[n][i - 1]]]
      BY <3>1
    <3>3. QED
      BY <2>2, <3>2 DEF LeavesTurn
  <2>3. QED
    BY <2>1, <2>2
<1> HIDE DEF V
<1>4. \A f \in [D -> V] : \A n \in D : B[<<f, n>>] = LeavesTurn(f, n, e, Kid, Leaf)
  OBVIOUS
<1>5. B \in [[D -> V] \X D -> V]
  BY <1>2
<1> HIDE DEF B
<1>6. V # {}
  <2>1. <<>> \in V
    BY DEF V
  <2>2. QED
    BY <2>1
<1>7. Recursive(D, V, M, r, B)
  <2>1. \A f, h \in [D -> V] : \A x \in D :
          (\A y \in D : r[y] < r[x] => f[y] = h[y]) => B[<<f, x>>] = B[<<h, x>>]
    BY <1>3, <1>4
  <2>2. QED
    BY <1>1, <1>5, <1>6, <2>1 DEF Recursive
<1>8. \E f \in [D -> V] : \A n \in D : f[n] = B[<<f, n>>]
  BY <1>7, Recursion
<1>9. QED
  BY <1>4, <1>8 DEF V

(* LevelsBelow, likewise. *)
LEMMA LevelsExist ==
  ASSUME NEW D, NEW M, NEW r, NEW e, NEW Kid, NEW Leaf, Branching(D, M, r, e, Kid, Leaf)
  PROVE  \E f \in [D -> SUBSET Nat] : \A n \in D : f[n] = LevelsTurn(f, n, e, Kid, Leaf)
<1> DEFINE V == SUBSET Nat
           B == [x \in [D -> V] \X D |-> LevelsTurn(x[1], x[2], e, Kid, Leaf)]
<1>1. /\ M \in Nat /\ r \in [D -> 0 .. M]
      /\ \A n \in D : n \notin Leaf =>
           /\ e[n] \in Nat
           /\ \A i \in 0 .. e[n] : Kid[n][i] \in D /\ r[Kid[n][i]] < r[n]
  BY DEF Branching
<1>2. ASSUME NEW f \in [D -> V], NEW n \in D PROVE LevelsTurn(f, n, e, Kid, Leaf) \in V
  <2>1. CASE n \in Leaf
    BY <2>1 DEF LevelsTurn
  <2>2. CASE n \notin Leaf
    <3>1. ASSUME NEW i \in 0 .. e[n] PROVE {l + 1 : l \in f[Kid[n][i]]} \in SUBSET Nat
      <4>1. Kid[n][i] \in D
        BY <1>1, <2>2
      <4>2. f[Kid[n][i]] \in SUBSET Nat
        BY <4>1
      <4>3. QED
        BY <4>2
    <3>2. UNION {{l + 1 : l \in f[Kid[n][i]]} : i \in 0 .. e[n]} \in SUBSET Nat
      BY <3>1
    <3>3. QED
      BY <2>2, <3>2 DEF LevelsTurn
  <2>3. QED
    BY <2>1, <2>2
<1>3. ASSUME NEW f \in [D -> V], NEW h \in [D -> V], NEW n \in D, \A m \in D : r[m] < r[n] => f[m] = h[m]
      PROVE  LevelsTurn(f, n, e, Kid, Leaf) = LevelsTurn(h, n, e, Kid, Leaf)
  <2>1. CASE n \in Leaf
    BY <2>1 DEF LevelsTurn
  <2>2. CASE n \notin Leaf
    <3>1. \A i \in 0 .. e[n] : f[Kid[n][i]] = h[Kid[n][i]]
      BY <1>1, <1>3, <2>2
    <3>2. UNION {{l + 1 : l \in f[Kid[n][i]]} : i \in 0 .. e[n]} = UNION {{l + 1 : l \in h[Kid[n][i]]} : i \in 0 .. e[n]}
      BY <3>1, Zenon
    <3>3. QED
      BY <2>2, <3>2 DEF LevelsTurn
  <2>3. QED
    BY <2>1, <2>2
<1>6. V # {}
  OBVIOUS
<1> HIDE DEF V
<1>4. \A f \in [D -> V] : \A n \in D : B[<<f, n>>] = LevelsTurn(f, n, e, Kid, Leaf)
  OBVIOUS
<1>5. B \in [[D -> V] \X D -> V]
  BY <1>2
<1> HIDE DEF B
<1>7. Recursive(D, V, M, r, B)
  <2>1. \A f, h \in [D -> V] : \A x \in D :
          (\A y \in D : r[y] < r[x] => f[y] = h[y]) => B[<<f, x>>] = B[<<h, x>>]
    BY <1>3, <1>4
  <2>2. QED
    BY <1>1, <1>5, <1>6, <2>1 DEF Recursive
<1>8. \E f \in [D -> V] : \A n \in D : f[n] = B[<<f, n>>]
  BY <1>7, Recursion
<1>9. QED
  BY <1>4, <1>8 DEF V

(* The entries, the children and the leaves of the tree. *)
EntriesOf == [n \in Nodes |-> Buffer(n).entries]
KidsOf == [n \in Nodes |-> Children(n)]
LeafNodes == {n \in Nodes : IsLeaf(n)}

(* They branch: a child is lower than its node. *)
LEMMA TreeBranches ==
  ASSUME NEW g, Tree(clevel.nodes, clevel.root, g, 0)
  PROVE  /\ Nodes = 1 .. Len(clevel.nodes)
         /\ Branching(Nodes, g[clevel.root].h, Heights(g, Len(clevel.nodes)), EntriesOf, KidsOf, LeafNodes)
         /\ \A n \in Nodes : EntriesOf[n] = Buffer(n).entries /\ KidsOf[n] = Children(n)
         /\ \A n \in Nodes : n \in LeafNodes <=> clevel.nodes[n].type = "LEAF"
         /\ \A n \in Nodes : n \notin LeafNodes =>
              \A i \in 0 .. Buffer(n).entries : KidsOf[n][i] = C!GetChild(clevel.nodes[n], i)
<1> DEFINE N == Len(clevel.nodes)
           H == g[clevel.root].h
           r == Heights(g, N)
<1>1. Nodes = 1 .. N
  BY DEF Nodes, Tree
<1>2. H \in Nat /\ \A n \in Nodes : g[n].h \in 0 .. H
  BY <1>1, HeightsBounded
<1>3. r \in [Nodes -> 0 .. H] /\ \A n \in Nodes : r[n] = g[n].h
  BY <1>1, <1>2 DEF Heights
<1>4. \A n \in Nodes : EntriesOf[n] = Buffer(n).entries /\ KidsOf[n] = Children(n)
  BY DEF EntriesOf, KidsOf
<1>5. \A n \in Nodes : n \in LeafNodes <=> clevel.nodes[n].type = "LEAF"
  BY DEF LeafNodes, IsLeaf
<1>6. \A n \in Nodes : \A i \in 0 .. Buffer(n).entries : KidsOf[n][i] = C!GetChild(clevel.nodes[n], i)
  BY <1>4 DEF Children
<1>7. ASSUME NEW n \in Nodes, n \notin LeafNodes
      PROVE  /\ EntriesOf[n] \in Nat
             /\ \A i \in 0 .. EntriesOf[n] : KidsOf[n][i] \in Nodes /\ r[KidsOf[n][i]] < r[n]
  <2>1. clevel.nodes[n].type = "INDEX" /\ Buffer(n).entries \in Nat /\ Buffer(n) = clevel.nodes[n].buf
    BY <1>1, <1>5, <1>7, NodeParts DEF Buffer
  <2>2. \A i \in 0 .. Buffer(n).entries :
          C!GetChild(clevel.nodes[n], i) \in 1 .. N /\ g[C!GetChild(clevel.nodes[n], i)].h < g[n].h
    BY <1>1, <2>1, ChildIn
  <2> HIDE DEF r, N
  <2>3. EntriesOf[n] = Buffer(n).entries
    BY <1>4
  <2>4. ASSUME NEW i \in 0 .. Buffer(n).entries
        PROVE  KidsOf[n][i] \in Nodes /\ r[KidsOf[n][i]] < r[n]
    <3> DEFINE c == C!GetChild(clevel.nodes[n], i)
    <3>1. c \in 1 .. N /\ g[c].h < g[n].h
      BY <2>2
    <3>2. KidsOf[n][i] = c
      BY <1>6
    <3> HIDE DEF c
    <3>3. c \in Nodes /\ r[c] = g[c].h /\ r[n] = g[n].h
      BY <1>1, <1>3, <3>1
    <3>4. QED
      BY <3>1, <3>2, <3>3
  <2>5. QED
    BY <2>1, <2>3, <2>4
<1> HIDE DEF H, r
<1>8. Branching(Nodes, H, r, EntriesOf, KidsOf, LeafNodes)
  BY <1>2, <1>3, <1>7 DEF Branching
<1>9. QED
  BY <1>1, <1>4, <1>5, <1>6, <1>8 DEF H, r

(* What LeavesBelow is, turn by turn. *)
LEMMA LeavesAre ==
  ASSUME NEW g, Tree(clevel.nodes, clevel.root, g, 0)
  PROVE  \E f \in [Nodes -> Seq(Nodes)] :
           /\ \A n \in Nodes : f[n] = LeavesTurn(f, n, EntriesOf, KidsOf, LeafNodes)
           /\ \A n \in Nodes : LeavesBelow(n) = f[n]
<1> DEFINE P(f) == f = [m \in Nodes |->
                          IF IsLeaf(m) THEN <<m>>
                          ELSE FlattenSeq([i \in 1 .. Buffer(m).entries + 1 |-> f[Children(m)[i - 1]]])]
           c == CHOOSE f : P(f)
           e == EntriesOf
           Kid == KidsOf
           Leaf == LeafNodes
<1>1. /\ Branching(Nodes, g[clevel.root].h, Heights(g, Len(clevel.nodes)), e, Kid, Leaf)
      /\ \A n \in Nodes : e[n] = Buffer(n).entries /\ Kid[n] = Children(n)
  BY TreeBranches
<1>2. \A n \in Nodes : n \in Leaf <=> IsLeaf(n)
  BY DEF LeafNodes
<1>3. PICK h \in [Nodes -> Seq(Nodes)] : \A n \in Nodes : h[n] = LeavesTurn(h, n, e, Kid, Leaf)
  BY <1>1, LeavesExist
<1>4. ASSUME NEW f, NEW n \in Nodes
      PROVE  LeavesTurn(f, n, e, Kid, Leaf)
               = IF IsLeaf(n) THEN <<n>>
                 ELSE FlattenSeq([i \in 1 .. Buffer(n).entries + 1 |-> f[Children(n)[i - 1]]])
  BY <1>1, <1>2 DEF LeavesTurn
<1> HIDE DEF e, Kid, Leaf
<1>5. P(h)
  BY <1>3, <1>4
<1>6. P(c)
  <2> HIDE DEF P
  <2>1. QED
    BY <1>5
<1>7. \A n \in Nodes : LeavesBelow(n) = c[n]
  BY DEF LeavesBelow
<1> HIDE DEF c
<1>8. \A n \in Nodes : c[n] = LeavesTurn(c, n, e, Kid, Leaf)
  BY <1>4, <1>6
<1>9. \A n \in Nodes : c[n] = h[n]
  <2> DEFINE G == {n \in Nodes : c[n] = h[n]}
             M == g[clevel.root].h
             r == Heights(g, Len(clevel.nodes))
  <2>1. /\ M \in Nat /\ r \in [Nodes -> 0 .. M]
        /\ \A n \in Nodes : n \notin Leaf =>
             /\ e[n] \in Nat
             /\ \A i \in 0 .. e[n] : Kid[n][i] \in Nodes /\ r[Kid[n][i]] < r[n]
    BY <1>1 DEF Branching
  <2> HIDE DEF M, r
  <2>2. ASSUME NEW n \in Nodes, \A m \in Nodes : r[m] < r[n] => m \in G PROVE n \in G
    <3>1. CASE n \in Leaf
      BY <1>3, <1>8, <3>1 DEF LeavesTurn
    <3>2. CASE n \notin Leaf
      <4>1. ASSUME NEW i \in 1 .. e[n] + 1 PROVE c[Kid[n][i - 1]] = h[Kid[n][i - 1]]
        <5>1. i - 1 \in 0 .. e[n]
          BY <2>1, <3>2
        <5>2. Kid[n][i - 1] \in G
          BY <2>1, <2>2, <3>2, <5>1
        <5>3. QED
          BY <5>2
      <4>2. [i \in 1 .. e[n] + 1 |-> c[Kid[n][i - 1]]] = [i \in 1 .. e[n] + 1 |-> h[Kid[n][i - 1]]]
        BY <4>1
      <4>3. c[n] = h[n]
        BY <1>3, <1>8, <3>2, <4>2 DEF LeavesTurn
      <4>4. QED
        BY <4>3
    <3>3. QED
      BY <3>1, <3>2
  <2>3. \A n \in Nodes : (\A m \in Nodes : r[m] < r[n] => m \in G) => n \in G
    BY <2>2
  <2>4. G \in SUBSET Nodes
    OBVIOUS
  <2>5. G = Nodes
    <3> HIDE DEF G
    <3>1. QED
      BY <2>1, <2>3, <2>4, ByRank, ZenonT(60)
  <2>6. QED
    BY <2>5
<1>10. QED
  BY <1>3, <1>7, <1>9 DEF e, Kid, Leaf

(* The leaves below a node are a row over its span. *)
LEMMA LeavesFrontier ==
  ASSUME NEW g, Tree(clevel.nodes, clevel.root, g, 0), NEW n \in Nodes
  PROVE  Frontier(LeavesBelow(n), Len(clevel.nodes), g, g[n].lo, g[n].hi)
<1> DEFINE N == Len(clevel.nodes)
           M == g[clevel.root].h
           r == Heights(g, N)
           e == EntriesOf
           Kid == KidsOf
           Leaf == LeafNodes
<1>1. PICK f \in [Nodes -> Seq(Nodes)] :
             /\ \A m \in Nodes : f[m] = LeavesTurn(f, m, e, Kid, Leaf)
             /\ \A m \in Nodes : LeavesBelow(m) = f[m]
  BY LeavesAre
<1>2. Branching(Nodes, M, r, e, Kid, Leaf) /\ Nodes = 1 .. N
  BY TreeBranches
<1>3. /\ M \in Nat /\ r \in [Nodes -> 0 .. M]
      /\ \A m \in Nodes : m \notin Leaf =>
           /\ e[m] \in Nat
           /\ \A i \in 0 .. e[m] : Kid[m][i] \in Nodes /\ r[Kid[m][i]] < r[m]
  BY <1>2 DEF Branching
<1>4. SpansGood(g, N)
  BY TreeSpans
<1>5. ASSUME NEW m \in Nodes, m \notin Leaf
      PROVE  /\ e[m] = clevel.nodes[m].buf.entries /\ clevel.nodes[m].type = "INDEX"
             /\ \A i \in 0 .. e[m] : g[Kid[m][i]] = Part(clevel.nodes[m], g[m], i)
  <2>1. clevel.nodes[m].type = "INDEX"
    BY <1>2, <1>5, NodeParts, TreeBranches
  <2>2. e[m] = clevel.nodes[m].buf.entries
    BY TreeBranches DEF Buffer
  <2>3. \A i \in 0 .. e[m] : Kid[m][i] = C!GetChild(clevel.nodes[m], i)
    BY <1>5, TreeBranches
  <2>4. \A i \in 0 .. e[m] : g[C!GetChild(clevel.nodes[m], i)] = Part(clevel.nodes[m], g[m], i)
    BY <1>2, <2>1, <2>2, ChildIn
  <2>5. QED
    BY <2>1, <2>2, <2>3, <2>4
<1>6. \A m \in Nodes : m \in Leaf => g[m].h = 0
  BY <1>2, NodeParts, TreeBranches
<1> DEFINE G == {m \in Nodes : Frontier(f[m], N, g, g[m].lo, g[m].hi)}
<1> HIDE DEF e, Kid, Leaf, N, M, r
<1>7. ASSUME NEW m \in Nodes, \A k \in Nodes : r[k] < r[m] => k \in G PROVE m \in G
  <2>1. CASE m \in Leaf
    <3>1. f[m] = <<m>>
      BY <1>1, <2>1 DEF LeavesTurn
    <3>2. Frontier(<<m>>, N, g, g[m].lo, g[m].hi)
      BY <1>2, <1>4, <1>6, <2>1, FrontierOne
    <3>3. QED
      BY <3>1, <3>2
  <2>2. CASE m \notin Leaf
    <3> DEFINE l == e[m] + 1
               x == clevel.nodes[m]
               Q == [i \in 1 .. l |-> f[Kid[m][i - 1]]]
               a == [i \in 0 .. l |-> IF i = 0 THEN g[m].lo ELSE IF i = l THEN g[m].hi ELSE Key(x, i - 1)]
    <3>1. e[m] \in Nat /\ l \in Nat /\ l # 0
      BY <1>3, <2>2
    <3>2. ASSUME NEW i \in 1 .. l
          PROVE  /\ f[Kid[m][i - 1]] \in Seq(Nodes)
                 /\ Frontier(f[Kid[m][i - 1]], N, g, a[i - 1], a[i])
      <4> DEFINE j == i - 1
                 k == Kid[m][j]
      <4>1. j \in 0 .. e[m] /\ i = j + 1 /\ j \in 0 .. l /\ i \in 0 .. l /\ i # 0
        BY <3>1
      <4>2. k \in Nodes /\ k \in G /\ g[k] = Part(x, g[m], j) /\ e[m] = x.buf.entries
        BY <1>3, <1>5, <1>7, <2>2, <4>1
      <4>3. f[k] \in Seq(Nodes) /\ Frontier(f[k], N, g, g[k].lo, g[k].hi)
        BY <4>2
      <4>4. g[k].lo = IF j = 0 THEN g[m].lo ELSE Key(x, j - 1)
        BY <4>2 DEF Part, Stretch
      <4>5. g[k].hi = IF j = e[m] THEN g[m].hi ELSE Key(x, j)
        BY <4>2 DEF Part, Stretch
      <4> HIDE DEF k, x
      <4>6. a[j] = g[k].lo
        <5>1. j # l
          BY <3>1, <4>1
        <5>2. QED
          BY <4>1, <4>4, <5>1
      <4>7. a[i] = g[k].hi
        <5>1. (i = l <=> j = e[m]) /\ i - 1 = j
          BY <3>1, <4>1
        <5>2. QED
          BY <4>1, <4>5, <5>1
      <4> HIDE DEF a
      <4>8. QED
        BY <4>3, <4>6, <4>7 DEF k
    <3>3. Q \in [1 .. l -> Seq(Nodes)]
      BY <3>2
    <3>4. Q \in Seq(Seq(Nodes)) /\ Len(Q) = l /\ \A i \in 1 .. l : Q[i] = f[Kid[m][i - 1]]
      <4>1. \A i \in 1 .. l : Q[i] = f[Kid[m][i - 1]]
        OBVIOUS
      <4> DEFINE V == Seq(Nodes)
      <4> HIDE DEF Q, l, V
      <4>2. Q \in Seq(V) /\ Len(Q) = l
        BY <3>1, <3>3, FunctionSeq DEF V
      <4>3. QED
        BY <4>1, <4>2 DEF V
    <3>5. a[0] = g[m].lo /\ a[l] = g[m].hi
      BY <3>1
    <3>6. f[m] = FlattenSeq(Q)
      BY <1>1, <2>2 DEF LeavesTurn
    <3> HIDE DEF Q, a, l
    <3>7. Rows(Q, N, g, a)
      BY <1>2, <3>1, <3>2, <3>4 DEF Rows
    <3>8. Frontier(FlattenSeq(Q), N, g, a[0], a[Len(Q)])
      BY <1>4, <3>7, FrontierFlatten
    <3>9. QED
      BY <3>4, <3>5, <3>6, <3>8
  <2>3. QED
    BY <2>1, <2>2
<1>8. \A m \in Nodes : (\A k \in Nodes : r[k] < r[m] => k \in G) => m \in G
  BY <1>7
<1>9. G \in SUBSET Nodes
  OBVIOUS
<1>10. G = Nodes
  <2> HIDE DEF G
  <2>1. QED
    BY <1>3, <1>8, <1>9, ByRank, ZenonT(60)
<1>11. QED
  BY <1>1, <1>10 DEF N

(* All leaves below a node are as many levels below it as it is high. *)
LEMMA LevelsSingle ==
  ASSUME NEW g, Tree(clevel.nodes, clevel.root, g, 0), NEW node \in Nodes
  PROVE  LevelsBelow(node) = {g[node].h}
<1> DEFINE P(f) == f = [m \in Nodes |->
                          IF IsLeaf(m) THEN {0}
                          ELSE UNION {{l + 1 : l \in f[Children(m)[i]]} : i \in 0 .. Buffer(m).entries}]
           c == CHOOSE f : P(f)
           M == g[clevel.root].h
           r == Heights(g, Len(clevel.nodes))
           e == EntriesOf
           Kid == KidsOf
           Leaf == LeafNodes
<1>1. /\ Branching(Nodes, M, r, e, Kid, Leaf) /\ Nodes = 1 .. Len(clevel.nodes)
      /\ \A n \in Nodes : e[n] = Buffer(n).entries /\ Kid[n] = Children(n)
      /\ \A n \in Nodes : n \in Leaf <=> clevel.nodes[n].type = "LEAF"
  BY TreeBranches
<1>2. \A n \in Nodes : n \in Leaf <=> IsLeaf(n)
  BY DEF LeafNodes
<1>3. PICK h \in [Nodes -> SUBSET Nat] : \A n \in Nodes : h[n] = LevelsTurn(h, n, e, Kid, Leaf)
  BY <1>1, LevelsExist
<1>4. ASSUME NEW f, NEW n \in Nodes
      PROVE  LevelsTurn(f, n, e, Kid, Leaf)
               = IF IsLeaf(n) THEN {0}
                 ELSE UNION {{l + 1 : l \in f[Children(n)[i]]} : i \in 0 .. Buffer(n).entries}
  <2>1. e[n] = Buffer(n).entries /\ Kid[n] = Children(n) /\ (n \in Leaf <=> IsLeaf(n))
    BY <1>1, <1>2
  <2> HIDE DEF e, Kid, Leaf
  <2>2. UNION {{l + 1 : l \in f[Kid[n][i]]} : i \in 0 .. e[n]}
          = UNION {{l + 1 : l \in f[Children(n)[i]]} : i \in 0 .. Buffer(n).entries}
    BY <2>1, Zenon
  <2>3. QED
    BY <2>1, <2>2 DEF LevelsTurn
<1>5. /\ M \in Nat /\ r \in [Nodes -> 0 .. M]
      /\ \A n \in Nodes : n \notin Leaf =>
           /\ e[n] \in Nat
           /\ \A i \in 0 .. e[n] : Kid[n][i] \in Nodes /\ r[Kid[n][i]] < r[n]
  BY <1>1 DEF Branching
<1>6. \A n \in Nodes : n \in Leaf => g[n].h = 0
  BY <1>1, NodeParts, SMTT(60)
<1>7. ASSUME NEW n \in Nodes, n \notin Leaf
      PROVE  g[n].h \in Nat /\ \A i \in 0 .. e[n] : g[Kid[n][i]].h = g[n].h - 1
  <2>1. clevel.nodes[n].type = "INDEX" /\ g[n].h \in Nat
    BY <1>1, <1>7, NodeParts
  <2>2. e[n] = clevel.nodes[n].buf.entries
    BY <1>1 DEF Buffer
  <2>3. \A i \in 0 .. e[n] : Kid[n][i] = C!GetChild(clevel.nodes[n], i)
    BY <1>7, TreeBranches, <2>2 DEF Buffer
  <2>4. \A i \in 0 .. e[n] : g[C!GetChild(clevel.nodes[n], i)].h = g[n].h - 1
    BY <1>1, <2>1, <2>2, ChildIn
  <2>5. QED
    BY <2>1, <2>3, <2>4
<1> HIDE DEF e, Kid, Leaf, M, r
<1>8. P(h)
  BY <1>3, <1>4
<1>9. P(c)
  <2> HIDE DEF P
  <2>1. QED
    BY <1>8
<1>10. LevelsBelow(node) = c[node]
  BY DEF LevelsBelow
<1> HIDE DEF c
<1>11. \A n \in Nodes : c[n] = LevelsTurn(c, n, e, Kid, Leaf)
  BY <1>4, <1>9
<1> DEFINE G == {n \in Nodes : c[n] = {g[n].h}}
<1>12. ASSUME NEW n \in Nodes, \A m \in Nodes : r[m] < r[n] => m \in G PROVE n \in G
  <2>1. CASE n \in Leaf
    <3>1. c[n] = {0}
      BY <1>11, <2>1 DEF LevelsTurn
    <3>2. QED
      BY <1>6, <2>1, <3>1
  <2>2. CASE n \notin Leaf
    <3> DEFINE H == g[n].h
    <3>1. H \in Nat /\ e[n] \in Nat /\ \A i \in 0 .. e[n] : c[Kid[n][i]] = {H - 1}
      <4>1. ASSUME NEW i \in 0 .. e[n] PROVE c[Kid[n][i]] = {H - 1}
        <5>1. Kid[n][i] \in G
          BY <1>5, <1>12, <2>2
        <5>2. QED
          BY <1>7, <2>2, <5>1
      <4>2. QED
        BY <1>5, <1>7, <2>2, <4>1
    <3>2. c[n] = UNION {{l + 1 : l \in c[Kid[n][i]]} : i \in 0 .. e[n]}
      BY <1>11, <2>2 DEF LevelsTurn
    <3> HIDE DEF H
    <3>3. \A i \in 0 .. e[n] : {l + 1 : l \in c[Kid[n][i]]} = {H}
      <4>1. ASSUME NEW i \in 0 .. e[n] PROVE {l + 1 : l \in c[Kid[n][i]]} = {H}
        <5>1. c[Kid[n][i]] = {H - 1} /\ (H - 1) + 1 = H
          BY <3>1
        <5>2. QED
          BY <5>1
      <4>2. QED
        BY <4>1
    <3>4. 0 \in 0 .. e[n]
      BY <3>1
    <3>5. c[n] = {H}
      <4> DEFINE U == [i \in 0 .. e[n] |-> {l + 1 : l \in c[Kid[n][i]]}]
      <4>1. c[n] = UNION {U[i] : i \in 0 .. e[n]}
        BY <3>2
      <4>2. \A i \in 0 .. e[n] : U[i] = {H}
        BY <3>3
      <4> HIDE DEF U
      <4>3. QED
        BY <3>4, <4>1, <4>2
    <3>6. QED
      BY <3>5 DEF H
  <2>3. QED
    BY <2>1, <2>2
<1>13. \A n \in Nodes : (\A m \in Nodes : r[m] < r[n] => m \in G) => n \in G
  BY <1>12
<1>14. G \in SUBSET Nodes
  OBVIOUS
<1>15. G = Nodes
  <2> HIDE DEF G
  <2>1. QED
    BY <1>5, <1>13, <1>14, ByRank
<1>16. QED
  BY <1>10, <1>15

(* FindHead finds a leaf that begins where the tree does. *)
LEMMA FindHeadGood ==
  ASSUME NEW g, Tree(clevel.nodes, clevel.root, g, 0)
  PROVE  C!FindHead(clevel) \in LeafNodes /\ g[C!FindHead(clevel)].lo = 0
<1> DEFINE N == Len(clevel.nodes)
           nodes == clevel.nodes
           Child == [n \in 1 .. N |-> C!GetChild(nodes[n], 0)]
           P(f) == f = [n \in DOMAIN nodes |-> IF nodes[n].type = "LEAF" THEN n ELSE f[C!GetChild(nodes[n], 0)]]
           f == CHOOSE f : P(f)
           G == {n \in 1 .. N : f[n] \in 1 .. N /\ nodes[f[n]].type = "LEAF" /\ g[f[n]].lo = g[n].lo}
<1>1. DOMAIN nodes = 1 .. N
  BY DEF Tree
<1>2. ASSUME NEW n \in 1 .. N, nodes[n].type # "LEAF"
      PROVE  Child[n] \in 1 .. N /\ g[Child[n]].h < g[n].h /\ g[Child[n]].lo = g[n].lo
  <2> DEFINE i == 0
  <2>1. nodes[n].type = "INDEX" /\ i \in 0 .. nodes[n].buf.entries
    BY <1>2, NodeParts, Sizes
  <2>2. LET x == C!GetChild(nodes[n], i)
        IN  x \in 1 .. N /\ g[x] = Part(nodes[n], g[n], i) /\ g[x].h < g[n].h
    <3> HIDE DEF i
    <3>1. QED
      BY <2>1, ChildIn
  <2>3. Part(nodes[n], g[n], i).lo = g[n].lo
    BY DEF Part, Stretch
  <2>4. Child[n] = C!GetChild(nodes[n], i)
    OBVIOUS
  <2> HIDE DEF Child, i
  <2>5. QED
    BY <2>2, <2>3, <2>4
<1>3. PICK h \in [1 .. N -> 1 .. N] : Downs(h, nodes, Child)
  <2> HIDE DEF Child
  <2>1. QED
    BY <1>2, DownsExist
<1>4. P(h)
  BY <1>1, <1>3 DEF Downs
<1>5. P(f)
  <2> HIDE DEF P
  <2>1. QED
    BY <1>4
<1>6. \A n \in 1 .. N : f[n] = IF nodes[n].type = "LEAF" THEN n ELSE f[Child[n]]
  <2> HIDE DEF f
  <2>1. QED
    BY <1>1, <1>5
<1>7. C!FindHead(clevel) = f[clevel.root]
  BY DEF C!FindHead
<1> HIDE DEF Child, f, P
<1>8. ASSUME NEW n \in 1 .. N, \A m \in 1 .. N : Heights(g, N)[m] < Heights(g, N)[n] => m \in G PROVE n \in G
  <2>1. \A m \in 1 .. N : Heights(g, N)[m] = g[m].h
    BY DEF Heights
  <2>2. CASE nodes[n].type = "LEAF"
    BY <1>6, <2>2
  <2>3. CASE nodes[n].type # "LEAF"
    <3>1. Child[n] \in 1 .. N /\ Child[n] \in G
      BY <1>2, <1>8, <2>1, <2>3
    <3>2. f[n] = f[Child[n]]
      BY <1>6, <2>3
    <3>3. QED
      BY <1>2, <2>3, <3>1, <3>2
  <2>4. QED
    BY <2>2, <2>3
<1>9. clevel.root \in 1 .. N /\ g[clevel.root].h \in Nat /\ \A n \in 1 .. N : Heights(g, N)[n] \in 0 .. g[clevel.root].h
  BY HeightsBounded DEF Heights
<1>10. clevel.root \in G
  <2> DEFINE D == 1 .. N
             r == Heights(g, N)
             H == g[clevel.root].h
  <2>1. \A x \in D : (\A y \in D : r[y] < r[x] => y \in G) => x \in G
    BY <1>8
  <2>2. H \in Nat /\ clevel.root \in D /\ r \in [D -> 0 .. H]
    BY <1>9 DEF Heights
  <2>3. G \in SUBSET D
    OBVIOUS
  <2> HIDE DEF G, D, r, H
  <2>4. QED
    <3>1. G = D
      BY <2>1, <2>2, <2>3, ByRank, SMTT(60)
    <3>2. QED
      BY <2>2, <3>1
<1>11. g[clevel.root].lo = 0
  BY DEF Tree
<1>12. QED
  BY <1>1, <1>7, <1>10, <1>11 DEF LeafNodes, IsLeaf, Nodes

(* The link of a leaf. *)
LEMMA LinkGood ==
  ASSUME NEW g, Tree(clevel.nodes, clevel.root, g, 0), NEW m \in LeafNodes
  PROVE  LET link == clevel.nodes[m].link
         IN  /\ g[m].hi = Top => link = 0
             /\ g[m].hi # Top => link \in LeafNodes /\ g[link].lo = g[m].hi
             /\ m \in Nodes /\ m # 0 /\ g[m].h = 0
             /\ g[m].lo \in Nat /\ g[m].hi \in Nat /\ g[m].lo < g[m].hi /\ g[m].hi <= Top
<1> DEFINE link == clevel.nodes[m].link
<1>1. Nodes = 1 .. Len(clevel.nodes)
  BY DEF Nodes, Tree
<1>2. m \in Nodes /\ clevel.nodes[m].type = "LEAF" /\ m # 0
  BY <1>1 DEF LeafNodes, IsLeaf
<1>3. /\ g[m].h = 0 /\ g[m].lo \in Nat /\ g[m].hi \in Nat /\ g[m].lo < g[m].hi /\ g[m].hi <= Top
      /\ Linked(clevel.nodes[m], g[m], g, Len(clevel.nodes))
  BY <1>1, <1>2, NodeParts DEF Fits
<1>4. ASSUME g[m].hi # Top PROVE link \in LeafNodes /\ g[link].lo = g[m].hi
  <2>1. link \in Nodes /\ g[link].h = 0 /\ g[link].lo = g[m].hi
    BY <1>1, <1>3, <1>4 DEF Linked
  <2> HIDE DEF link
  <2>2. clevel.nodes[link].type = "LEAF"
    BY <1>1, <2>1, NodeParts
  <2>3. QED
    BY <2>1, <2>2 DEF LeafNodes, IsLeaf
<1>5. g[m].hi = Top => link = 0
  BY <1>3 DEF Linked
<1>6. QED
  BY <1>2, <1>3, <1>4, <1>5

(* The chain from a leaf on is a row up to the end. *)
LEMMA ChainFrontier ==
  ASSUME NEW g, Tree(clevel.nodes, clevel.root, g, 0), NEW leaf \in LeafNodes
  PROVE  Frontier(C!Chain(clevel.nodes, leaf), Len(clevel.nodes), g, g[leaf].lo, Top)
<1> DEFINE N == Len(clevel.nodes)
           D == {0} \union LeafNodes
           V == Seq(Nodes)
           E == {0} \union {i \in DOMAIN clevel.nodes : clevel.nodes[i].type = "LEAF"}
           link == [m \in LeafNodes |-> clevel.nodes[m].link]
           r == [m \in D |-> IF m = 0 THEN 0 ELSE Top - g[m].lo]
           T(f, m) == IF m = 0 THEN <<>> ELSE <<m>> \o f[link[m]]
           B == [x \in [D -> V] \X D |-> T(x[1], x[2])]
           P(f) == f = [m \in E |-> IF m = 0 THEN <<>> ELSE <<m>> \o f[clevel.nodes[m].link]]
           c == CHOOSE f : P(f)
           G == {m \in D : m # 0 => Frontier(c[m], N, g, g[m].lo, Top)}
<1>1. D = E /\ Nodes = 1 .. N
  BY DEF LeafNodes, IsLeaf, Nodes, Tree
<1>2. Top \in Nat /\ SpansGood(g, N)
  BY Sizes, TreeSpans DEF Top
<1>3. ASSUME NEW m \in LeafNodes
      PROVE  /\ m \in Nodes /\ m # 0 /\ g[m].h = 0
             /\ g[m].lo \in Nat /\ g[m].hi \in Nat /\ g[m].lo < g[m].hi /\ g[m].hi <= Top
             /\ g[m].hi = Top => link[m] = 0
             /\ g[m].hi # Top => link[m] \in LeafNodes /\ g[link[m]].lo = g[m].hi
  <2>1. link[m] = clevel.nodes[m].link
    OBVIOUS
  <2> HIDE DEF link
  <2>2. QED
    BY <2>1, LinkGood
<1>4. C!Chain(clevel.nodes, leaf) = c[leaf]
  BY DEF C!Chain
<1>5. \A f : \A m \in D : T(f, m) = IF m = 0 THEN <<>> ELSE <<m>> \o f[clevel.nodes[m].link]
  <2>1. ASSUME NEW m \in D, m # 0 PROVE link[m] = clevel.nodes[m].link
    BY <2>1
  <2> HIDE DEF link
  <2>2. QED
    BY <2>1
<1> HIDE DEF link, E
<1>6. ASSUME NEW m \in D, m # 0 PROVE m \in LeafNodes /\ link[m] \in D
  BY <1>3, <1>6
<1>7. r \in [D -> 0 .. Top] /\ \A m \in D : m # 0 => r[link[m]] < r[m]
  <2>1. ASSUME NEW m \in D PROVE (IF m = 0 THEN 0 ELSE Top - g[m].lo) \in 0 .. Top
    <3>1. CASE m = 0
      BY <1>2, <3>1
    <3>2. CASE m # 0
      <4>1. g[m].lo \in Nat /\ g[m].lo < g[m].hi /\ g[m].hi <= Top /\ g[m].hi \in Nat
        BY <1>3, <1>6, <3>2
      <4>2. QED
        BY <1>2, <3>2, <4>1
    <3>3. QED
      BY <3>1, <3>2
  <2>2. ASSUME NEW m \in D, m # 0 PROVE r[link[m]] < r[m]
    <3> DEFINE k == link[m]
    <3>1. m \in LeafNodes /\ k \in D
      BY <1>6, <2>2
    <3>2. /\ g[m].lo \in Nat /\ g[m].lo < g[m].hi /\ g[m].hi <= Top /\ g[m].hi \in Nat
          /\ g[m].hi = Top => k = 0
          /\ g[m].hi # Top => k \in LeafNodes /\ g[k].lo = g[m].hi
      BY <1>3, <3>1
    <3>3. r[m] = Top - g[m].lo /\ r[k] = IF k = 0 THEN 0 ELSE Top - g[k].lo
      <4> HIDE DEF k
      <4>1. QED
        BY <2>2, <3>1
    <3> HIDE DEF r, k
    <3>4. CASE g[m].hi = Top
      BY <1>2, <3>2, <3>3, <3>4 DEF k
    <3>5. CASE g[m].hi # Top
      <4>1. k # 0 /\ g[k].lo = g[m].hi
        BY <1>3, <3>2, <3>5
      <4>2. QED
        BY <1>2, <3>2, <3>3, <4>1 DEF k
    <3>6. QED
      BY <3>4, <3>5 DEF k
  <2>3. QED
    BY <2>1, <2>2
<1> HIDE DEF r
<1>8. ASSUME NEW f \in [D -> V], NEW m \in D PROVE T(f, m) \in V
  <2>1. CASE m = 0
    BY <2>1
  <2>2. CASE m # 0
    <3>1. f[link[m]] \in V /\ m \in Nodes
      BY <1>3, <1>6, <2>2
    <3>2. <<m>> \in V
      BY <3>1
    <3>3. <<m>> \o f[link[m]] \in V
      BY <3>1, <3>2, ConcatProperties
    <3>4. QED
      BY <2>2, <3>3
  <2>3. QED
    BY <2>1, <2>2
<1>9. ASSUME NEW f \in [D -> V], NEW h \in [D -> V], NEW m \in D, \A k \in D : r[k] < r[m] => f[k] = h[k]
      PROVE  T(f, m) = T(h, m)
  BY <1>6, <1>7, <1>9
<1>10. V # {}
  <2>1. <<>> \in V
    OBVIOUS
  <2>2. QED
    BY <2>1
<1> HIDE DEF V, T, D
<1>11. \A f \in [D -> V] : \A m \in D : B[<<f, m>>] = T(f, m)
  OBVIOUS
<1>12. B \in [[D -> V] \X D -> V]
  BY <1>8
<1> HIDE DEF B
<1>13. Recursive(D, V, Top, r, B)
  <2>1. \A f, h \in [D -> V] : \A x \in D :
          (\A y \in D : r[y] < r[x] => f[y] = h[y]) => B[<<f, x>>] = B[<<h, x>>]
    BY <1>9, <1>11
  <2>2. QED
    BY <1>2, <1>7, <1>10, <1>12, <2>1 DEF Recursive
<1>14. PICK h \in [D -> V] : \A m \in D : h[m] = T(h, m)
  <2>1. \E h \in [D -> V] : \A m \in D : h[m] = B[<<h, m>>]
    BY <1>13, Recursion
  <2>2. QED
    BY <1>11, <2>1
<1>15. P(h)
  <2>1. \A m \in D : h[m] = IF m = 0 THEN <<>> ELSE <<m>> \o h[clevel.nodes[m].link]
    BY <1>5, <1>14
  <2>2. QED
    BY <1>1, <2>1
<1>16. P(c)
  <2> HIDE DEF P
  <2>1. QED
    BY <1>15
<1> HIDE DEF c
<1>17. \A m \in D : c[m] = IF m = 0 THEN <<>> ELSE <<m>> \o c[link[m]]
  <2>1. \A m \in D : c[m] = T(c, m)
    BY <1>1, <1>5, <1>16, ZenonT(60)
  <2>2. QED
    BY <2>1 DEF T
<1> HIDE DEF P
<1>18. 0 \in D /\ leaf \in D /\ leaf # 0
  BY <1>3 DEF D
<1>19. ASSUME NEW m \in D, \A k \in D : r[k] < r[m] => k \in G PROVE m \in G
  <2>1. CASE m = 0
    BY <2>1
  <2>2. CASE m # 0
    <3>1. m \in LeafNodes /\ link[m] \in D /\ r[link[m]] < r[m]
      BY <1>6, <1>7, <2>2 DEF D
    <3>2. /\ m \in Nodes /\ g[m].h = 0
          /\ g[m].hi = Top => link[m] = 0
          /\ g[m].hi # Top => link[m] # 0 /\ g[link[m]].lo = g[m].hi
      BY <1>3, <3>1
    <3>3. c[m] = <<m>> \o c[link[m]]
      BY <1>17, <2>2
    <3>4. Frontier(<<m>>, N, g, g[m].lo, g[m].hi)
      BY <1>1, <1>2, <3>2, FrontierOne
    <3>5. CASE g[m].hi = Top
      <4>1. c[m] = <<m>> \o <<>>
        BY <1>17, <1>18, <3>2, <3>3, <3>5
      <4>2. c[m] = <<m>>
        BY <3>2, <4>1
      <4>3. QED
        BY <3>4, <3>5, <4>2
    <3>6. CASE g[m].hi # Top
      <4>1. Frontier(c[link[m]], N, g, g[link[m]].lo, Top)
        <5>1. link[m] \in G
          BY <1>19, <3>1
        <5>2. QED
          BY <3>2, <3>6, <5>1
      <4>2. Frontier(c[link[m]], N, g, g[m].hi, Top)
        BY <3>2, <3>6, <4>1
      <4>3. Frontier(c[m], N, g, g[m].lo, Top)
        BY <1>2, <3>3, <3>4, <4>2, FrontierConcat
      <4>4. QED
        BY <4>3
    <3>7. QED
      BY <3>5, <3>6
  <2>3. QED
    BY <2>1, <2>2
<1>20. leaf \in G
  <2>1. \A m \in D : (\A k \in D : r[k] < r[m] => k \in G) => m \in G
    BY <1>19
  <2>2. G \in SUBSET D
    OBVIOUS
  <2> DEFINE M == Top
  <2>3. M \in Nat /\ r \in [D -> 0 .. M]
    BY <1>2, <1>7
  <2> HIDE DEF G, M
  <2>4. G = D
    BY <2>1, <2>2, <2>3, ByRank
  <2>5. QED
    BY <1>18, <2>4
<1>21. QED
  BY <1>4, <1>18, <1>20

(* The nodes have room, their ranks are in order. *)
LEMMA NodesSound ==
  ASSUME NEW g, Tree(clevel.nodes, clevel.root, g, 0)
  PROVE  NodesHaveRoom /\ RanksInOrder
<1>1. Nodes = 1 .. Len(clevel.nodes)
  BY DEF Nodes, Tree
<1>2. ASSUME NEW n \in Nodes
      PROVE  /\ Sound(Buffer(n)) /\ Buffer(n).entries \in Nat /\ Buffer(n).entries < MaxEntries
  <2>1. n \in 1 .. Len(clevel.nodes) /\ n # 0
    BY <1>1
  <2>2. Sound(clevel.nodes[n].buf) /\ clevel.nodes[n].buf.entries \in 0 .. MaxEntries
    BY <2>1, NodeParts
  <2>3. clevel.nodes[n].buf.entries < MaxEntries
    BY <2>1 DEF Tree
  <2>4. QED
    BY <2>2, <2>3 DEF Buffer
<1>3. NodesHaveRoom
  <2>1. ASSUME NEW n \in Nodes PROVE C!B!NextSlot(Buffer(n)) < MaxEntries
    BY <1>2, NextSlotFree, Sizes
  <2>2. QED
    BY <1>2, <2>1 DEF NodesHaveRoom
<1>4. RanksInOrder
  <2> SUFFICES ASSUME NEW n \in Nodes
               PROVE  LET b == Buffer(n) IN
                        /\ \A r, s \in C!B!Ranks : b.index[r] = b.index[s] => r = s
                        /\ \A r \in 1 .. b.entries - 1 : C!B!Rec(b, r - 1).key < C!B!Rec(b, r).key
    BY DEF RanksInOrder
  <2> DEFINE b == Buffer(n)
  <2>1. NoSlotTwice(b.index) /\ KeysAscend(b) /\ b.entries \in Nat
    BY <1>2 DEF Sound
  <2>2. ASSUME NEW r \in 1 .. b.entries - 1 PROVE C!B!Rec(b, r - 1).key < C!B!Rec(b, r).key
    <3>1. r - 1 \in 0 .. b.entries - 1 /\ r \in 0 .. b.entries - 1 /\ r - 1 < r
      BY <2>1
    <3> HIDE DEF b
    <3>2. QED
      BY <2>1, <3>1 DEF KeysAscend
  <2>3. QED
    BY <2>1, <2>2 DEF NoSlotTwice
<1>5. QED
  BY <1>3, <1>4

(* The keys below a node are in its span. *)
LEMMA KeysBelowIn ==
  ASSUME NEW g, Tree(clevel.nodes, clevel.root, g, 0), NEW n \in Nodes, NEW k \in KeysBelow(n)
  PROVE  k \in Nat /\ g[n].lo <= k /\ k < g[n].hi
<1> DEFINE N == Len(clevel.nodes)
           L == LeavesBelow(n)
<1>1. Nodes = 1 .. N
  BY DEF Nodes, Tree
<1>2. SpansGood(g, N) /\ Frontier(L, N, g, g[n].lo, g[n].hi)
  BY TreeSpans, LeavesFrontier
<1>3. PICK leaf \in Range(L) : \E r \in 0 .. Buffer(leaf).entries - 1 : k = C!B!Rec(Buffer(leaf), r).key
  BY DEF KeysBelow
<1>4. PICK r \in 0 .. Buffer(leaf).entries - 1 : k = C!B!Rec(Buffer(leaf), r).key
  BY <1>3
<1> HIDE DEF L, N
<1>5. PICK i \in 1 .. Len(L) : leaf = L[i]
  <2>1. DOMAIN L = 1 .. Len(L)
    BY <1>2, RowParts
  <2>2. QED
    BY <1>3, <2>1 DEF Range
<1>6. leaf \in 1 .. N
  BY <1>2, <1>5, RowParts
<1>7. g[n].lo <= g[leaf].lo /\ g[leaf].hi <= g[n].hi
  BY <1>2, <1>5, RowAscends
<1>8. /\ Inside(clevel.nodes[leaf], g[leaf]) /\ Sound(clevel.nodes[leaf].buf)
      /\ g[leaf].lo \in Nat /\ g[leaf].hi \in Nat
  BY <1>6, NodeParts DEF N
<1>9. r \in 0 .. clevel.nodes[leaf].buf.entries - 1 /\ k = Key(clevel.nodes[leaf], r)
  BY <1>4 DEF Buffer, Key
<1>10. k \in Nat
  BY <1>8, <1>9, KeyIs
<1>11. g[leaf].lo <= k /\ k < g[leaf].hi
  BY <1>8, <1>9 DEF Inside
<1>12. g[n].lo \in Nat /\ g[n].hi \in Nat
  BY <1>1, NodeParts DEF N
<1>13. QED
  BY <1>7, <1>8, <1>10, <1>11, <1>12

(* The keys below a child lie between the separators beside it. *)
LEMMA SeparatorsGood ==
  ASSUME NEW g, Tree(clevel.nodes, clevel.root, g, 0)
  PROVE  ChildrenBetweenSeparators
<1>1. Nodes = 1 .. Len(clevel.nodes) /\ clevel.root \in Nodes
  BY DEF Nodes, Tree
<1>2. ASSUME NEW n \in Nodes, ~ IsLeaf(n), NEW i \in 0 .. Buffer(n).entries, NEW k \in KeysBelow(Children(n)[i])
      PROVE  /\ i > 0 => C!B!Rec(Buffer(n), i - 1).key <= k
             /\ i < Buffer(n).entries => k < C!B!Rec(Buffer(n), i).key
  <2> DEFINE x == clevel.nodes[n]
             child == C!GetChild(x, i)
  <2>1. x.type = "INDEX" /\ Buffer(n) = x.buf /\ x.buf.entries \in Nat
    BY <1>1, <1>2, NodeParts DEF IsLeaf, Buffer
  <2>2. Children(n)[i] = child
    BY DEF Children
  <2>3. child \in Nodes /\ g[child] = Part(x, g[n], i)
    BY <1>1, <2>1, ChildIn
  <2> HIDE DEF child
  <2>4. k \in Nat /\ g[child].lo <= k /\ k < g[child].hi
    BY <1>2, <2>2, <2>3, KeysBelowIn
  <2> HIDE DEF x
  <2>5. /\ g[child].lo = IF i = 0 THEN g[n].lo ELSE Key(x, i - 1)
        /\ g[child].hi = IF i = x.buf.entries THEN g[n].hi ELSE Key(x, i)
    BY <2>3 DEF Part, Stretch
  <2>6. i \in Nat
    BY <2>1
  <2>7. ASSUME i > 0 PROVE C!B!Rec(Buffer(n), i - 1).key <= k
    <3>1. i # 0
      BY <2>6, <2>7
    <3>2. g[child].lo = Key(x, i - 1)
      BY <2>5, <3>1
    <3>3. QED
      BY <2>1, <2>4, <3>2 DEF Key
  <2>8. ASSUME i < Buffer(n).entries PROVE k < C!B!Rec(Buffer(n), i).key
    <3>1. i # x.buf.entries
      BY <2>1, <2>6, <2>8
    <3>2. g[child].hi = Key(x, i)
      BY <2>5, <3>1
    <3>3. QED
      BY <2>1, <2>4, <3>2 DEF Key
  <2>9. QED
    BY <2>7, <2>8
<1>3. Cardinality(LevelsBelow(clevel.root)) = 1
  <2>1. LevelsBelow(clevel.root) = {g[clevel.root].h}
    BY <1>1, LevelsSingle
  <2>2. QED
    BY <2>1, FS_Singleton
<1>4. QED
  BY <1>2, <1>3 DEF ChildrenBetweenSeparators

(* The chain leads through the leaves of the tree, which are all there are. *)
LEMMA ChainGood ==
  ASSUME NEW g, Tree(clevel.nodes, clevel.root, g, 0)
  PROVE  ChainIsFrontier
<1> DEFINE N == Len(clevel.nodes)
           L == LeavesBelow(clevel.root)
           head == C!FindHead(clevel)
           M == C!Chain(clevel.nodes, head)
<1>1. /\ Nodes = 1 .. N /\ clevel.root \in Nodes
      /\ g[clevel.root].lo = 0 /\ g[clevel.root].hi = Top
  BY DEF Nodes, Tree
<1>2. SpansGood(g, N) /\ Frontier(L, N, g, 0, Top)
  <2>1. Frontier(L, N, g, g[clevel.root].lo, g[clevel.root].hi)
    BY <1>1, LeavesFrontier
  <2>2. QED
    BY <1>1, <2>1, TreeSpans
<1>3. head \in LeafNodes /\ g[head].lo = 0
  BY FindHeadGood
<1>4. Frontier(M, N, g, 0, Top)
  <2> HIDE DEF head
  <2>1. Frontier(C!Chain(clevel.nodes, head), N, g, g[head].lo, Top)
    BY <1>3, ChainFrontier
  <2>2. QED
    BY <1>3, <2>1
<1> HIDE DEF L, M, N
<1>5. M = L
  BY <1>2, <1>4, FrontierSame
<1>6. \A n \in Nodes : n \in LeafNodes <=> g[n].h = 0
  BY <1>1, NodeParts DEF LeafNodes, IsLeaf, N
<1>7. DOMAIN L = 1 .. Len(L) /\ \A i \in 1 .. Len(L) : L[i] \in Nodes /\ g[L[i]].h = 0
  BY <1>1, <1>2, RowParts
<1>8. ASSUME NEW n \in LeafNodes PROVE n \in Range(L)
  <2>1. /\ n \in 1 .. N /\ g[n].h = 0
        /\ g[n].lo \in Nat /\ g[n].hi \in Nat /\ g[n].lo < g[n].hi /\ g[n].hi <= Top
    BY <1>1, LinkGood
  <2> DEFINE k == g[n].lo
  <2>2. k \in Int /\ 0 <= k /\ k < Top /\ g[n].lo <= k /\ k < g[n].hi
    BY <2>1, Sizes DEF Top
  <2> HIDE DEF k
  <2>3. PICK i \in 1 .. Len(L) : g[L[i]].lo <= k /\ k < g[L[i]].hi
    BY <1>2, <2>2, RowCovers
  <2>4. L[i] \in 1 .. N /\ g[L[i]].h = g[n].h
    BY <1>1, <1>7, <2>1
  <2>5. L[i] = n
    BY <1>2, <2>1, <2>2, <2>3, <2>4, LeafSame
  <2>6. QED
    BY <1>7, <2>5 DEF Range
<1>9. Range(L) = LeafNodes
  <2>1. ASSUME NEW n \in Range(L) PROVE n \in LeafNodes
    <3>1. PICK i \in 1 .. Len(L) : n = L[i]
      BY <1>7 DEF Range
    <3>2. QED
      BY <1>6, <1>7, <3>1
  <2>2. QED
    BY <1>8, <2>1
<1>10. QED
  BY <1>5, <1>9 DEF ChainIsFrontier, LeafNodes, L, M

(* The invariant implies that the C level is a tree. *)
LEMMA BInvTree == BInv => TreeSound
<1> SUFFICES ASSUME BInv PROVE TreeSound
  OBVIOUS
<1>1. (clevel.root # 0 => Built(clevel)) /\ (clevel.root = 0 => clevel = C!NotSetup)
  BY BInvParts
<1>2. CASE clevel.root = 0
  <2>1. clevel.nodes = <<>>
    BY <1>1, <1>2 DEF C!NotSetup
  <2>2. Nodes = {}
    BY <2>1 DEF Nodes
  <2>3. ~ C!HasSetup(clevel)
    BY <1>2 DEF C!HasSetup
  <2>4. QED
    BY <2>2, <2>3 DEF TreeSound, NodesHaveRoom, RanksInOrder
<1>3. CASE clevel.root # 0
  <2>1. PICK g : Tree(clevel.nodes, clevel.root, g, 0)
    BY <1>1, <1>3 DEF Built
  <2>2. QED
    BY <2>1, NodesSound, SeparatorsGood, ChainGood DEF TreeSound
<1>4. QED
  BY <1>2, <1>3

(***************************************************************************)
(* BEntry.TreeSound: whatever splits Puts have made, up to the root, the C *)
(* level is a B+ tree with room in every node, whose leaves are all at one *)
(* depth, each with the keys that its separators admit, and chained from   *)
(* left to right.                                                          *)
(***************************************************************************)
THEOREM TreeAlwaysSound == Spec => []TreeSound
BY Invariant, BInvTree, PTL

-----------------------------------------------------------------------------
(* Listings *)

(* A sequence that has the pairs S in the order of their keys. *)
PairN == [key : Nat, value : Nat]
Lists(s, S) ==
  /\ s \in Seq(PairN) /\ S \in SUBSET PairN
  /\ \A i, j \in 1 .. Len(s) : i < j => s[i].key < s[j].key
  /\ \A i \in 1 .. Len(s) : s[i] \in S
  /\ \A p \in S : \E i \in 1 .. Len(s) : s[i] = p

(* What is known of a listing. *)
LEMMA ListParts ==
  ASSUME NEW s, NEW S, Lists(s, S)
  PROVE  /\ s \in Seq(PairN) /\ Len(s) \in Nat /\ DOMAIN s = 1 .. Len(s)
         /\ \A i \in 1 .. Len(s) : s[i] \in S /\ s[i] \in PairN /\ s[i].key \in Nat
         /\ \A p \in S : p \in PairN /\ p.key \in Nat
         /\ \A i, j \in 1 .. Len(s) : i < j => s[i].key < s[j].key
         /\ \A p \in S : \E i \in 1 .. Len(s) : s[i] = p
<1>1. \A p \in PairN : p.key \in Nat
  BY DEF PairN
<1>2. s \in Seq(PairN) /\ S \in SUBSET PairN
  BY DEF Lists
<1>3. Len(s) \in Nat /\ DOMAIN s = 1 .. Len(s)
  BY <1>2, LenProperties
<1>4. /\ \A i \in 1 .. Len(s) : s[i] \in S
      /\ \A i, j \in 1 .. Len(s) : i < j => s[i].key < s[j].key
      /\ \A p \in S : \E i \in 1 .. Len(s) : s[i] = p
  BY DEF Lists
<1>5. \A p \in S : p \in PairN /\ p.key \in Nat
  BY <1>1, <1>2
<1>6. QED
  BY <1>2, <1>3, <1>4, <1>5

(* The empty listing. *)
LEMMA ListNone == Lists(<<>>, {})
<1>1. <<>> \in Seq(PairN) /\ Len(<<>>) = 0
  OBVIOUS
<1>2. QED
  BY <1>1 DEF Lists

(* A listing of functions on 1 .. n. *)
LEMMA ListOf ==
  ASSUME NEW n \in Nat, NEW s \in [1 .. n -> PairN],
         \A i, j \in 1 .. n : i < j => s[i].key < s[j].key
  PROVE  Lists(s, {s[i] : i \in 1 .. n})
<1> DEFINE S == {s[i] : i \in 1 .. n}
<1>1. s \in Seq(PairN) /\ Len(s) = n
  <2> HIDE DEF PairN
  <2>1. QED
    BY FunctionSeq
<1>2. S \in SUBSET PairN /\ \A i \in 1 .. n : s[i] \in S
  OBVIOUS
<1>3. \A p \in S : \E i \in 1 .. n : s[i] = p
  OBVIOUS
<1> HIDE DEF S
<1>4. Lists(s, S)
  BY <1>1, <1>2, <1>3 DEF Lists
<1>5. QED
  BY <1>4 DEF S

(* One listing after the other, when its keys are above those of the first. *)
LEMMA ListConcat ==
  ASSUME NEW s, NEW S, NEW t, NEW T, Lists(s, S), Lists(t, T),
         \A p \in S : \A q \in T : p.key < q.key
  PROVE  Lists(s \o t, S \union T)
<1> DEFINE m == Len(s)
           n == Len(t)
           u == s \o t
<1>1. /\ s \in Seq(PairN) /\ t \in Seq(PairN) /\ m \in Nat /\ n \in Nat
      /\ \A i \in 1 .. m : s[i] \in S
      /\ \A i \in 1 .. n : t[i] \in T
      /\ \A i, j \in 1 .. m : i < j => s[i].key < s[j].key
      /\ \A i, j \in 1 .. n : i < j => t[i].key < t[j].key
      /\ \A p \in S : \E i \in 1 .. m : s[i] = p
      /\ \A p \in T : \E i \in 1 .. n : t[i] = p
  BY ListParts
<1>2. S \in SUBSET PairN /\ T \in SUBSET PairN
  BY DEF Lists
<1>3. /\ u \in Seq(PairN) /\ Len(u) = m + n
      /\ \A i \in 1 .. m + n : u[i] = IF i <= m THEN s[i] ELSE t[i - m]
  BY <1>1, ConcatProperties
<1> HIDE DEF m, n, u
<1>4. \A i \in 1 .. m : i \in 1 .. m + n /\ u[i] = s[i]
  BY <1>1, <1>3
<1>5. \A i \in 1 .. n : i + m \in 1 .. m + n /\ u[i + m] = t[i]
  <2>1. ASSUME NEW i \in 1 .. n PROVE i + m \in 1 .. m + n /\ ~ (i + m <= m) /\ (i + m) - m = i
    BY <1>1
  <2>2. QED
    BY <1>3, <2>1
<1>6. ASSUME NEW i \in 1 .. m + n
      PROVE  \/ i \in 1 .. m /\ u[i] = s[i]
             \/ i > m /\ i - m \in 1 .. n /\ u[i] = t[i - m]
  <2>1. CASE i <= m
    BY <1>1, <1>3, <2>1
  <2>2. CASE i > m
    BY <1>1, <1>3, <2>2
  <2>3. QED
    BY <1>1, <2>1, <2>2
<1>7. \A i \in 1 .. m + n : u[i] \in S \union T
  BY <1>1, <1>6
<1>8. ASSUME NEW i \in 1 .. m + n, NEW j \in 1 .. m + n, i < j PROVE u[i].key < u[j].key
  <2>1. CASE j <= m
    <3>1. i \in 1 .. m /\ j \in 1 .. m
      BY <1>1, <1>8, <2>1
    <3>2. QED
      BY <1>1, <1>4, <1>8, <3>1
  <2>2. CASE i <= m /\ j > m
    <3>1. u[i] \in S /\ u[j] \in T
      BY <1>1, <1>6, <2>2, SMTT(60)
    <3>2. QED
      BY <3>1
  <2>3. CASE i > m
    <3>1. i - m \in 1 .. n /\ j - m \in 1 .. n /\ i - m < j - m /\ u[i] = t[i - m] /\ u[j] = t[j - m]
      BY <1>1, <1>6, <1>8, <2>3
    <3>2. QED
      BY <1>1, <3>1
  <2>4. QED
    BY <1>1, <2>1, <2>2, <2>3
<1>9. ASSUME NEW p \in S \union T PROVE \E i \in 1 .. m + n : u[i] = p
  <2>1. CASE p \in S
    BY <1>1, <1>4, <2>1
  <2>2. CASE p \in T
    BY <1>1, <1>5, <2>2
  <2>3. QED
    BY <2>1, <2>2
<1>10. Lists(u, S \union T)
  BY <1>2, <1>3, <1>7, <1>8, <1>9 DEF Lists
<1>11. QED
  BY <1>10 DEF u

(* The end of a listing lists the pairs in it. *)
LEMMA ListSuffix ==
  ASSUME NEW s, NEW S, Lists(s, S), NEW m \in Nat, 1 <= m
  PROVE  Lists(SubSeq(s, m, Len(s)), {s[i] : i \in m .. Len(s)})
<1> DEFINE n == Len(s)
           t == SubSeq(s, m, n)
           T == {s[i] : i \in m .. n}
           l == IF m <= n THEN n - m + 1 ELSE 0
<1>1. /\ n \in Nat /\ \A i \in 1 .. n : s[i] \in PairN
      /\ \A i, j \in 1 .. n : i < j => s[i].key < s[j].key
  BY ListParts
<1>2. m \in Int /\ n \in Int /\ \A i \in m .. n : s[i] \in PairN /\ i \in 1 .. n
  BY <1>1
<1>3. /\ t \in Seq(PairN) /\ Len(t) = l
      /\ \A i \in 1 .. n - m + 1 : t[i] = s[m + i - 1]
  <2> HIDE DEF PairN, n
  <2>1. QED
    BY <1>2, SubSeqProperties
<1> HIDE DEF n, t
<1>4. l \in Nat /\ \A i \in 1 .. l : m + i - 1 \in m .. n /\ m + i - 1 \in 1 .. n /\ t[i] = s[m + i - 1]
  <2>1. CASE m <= n
    <3>1. l = n - m + 1 /\ l \in Nat
      BY <1>1, <2>1
    <3>2. \A i \in 1 .. l : m + i - 1 \in m .. n /\ m + i - 1 \in 1 .. n
      BY <1>1, <3>1
    <3>3. QED
      BY <1>3, <3>1, <3>2
  <2>2. CASE m > n
    <3>1. l = 0
      BY <1>1, <2>2
    <3>2. QED
      BY <3>1
  <2>3. QED
    BY <1>1, <2>1, <2>2
<1>5. \A i \in m .. n : i - m + 1 \in 1 .. l /\ m + (i - m + 1) - 1 = i
  BY <1>1
<1> HIDE DEF l
<1>6. T \in SUBSET PairN /\ \A i \in 1 .. l : t[i] \in T
  BY <1>2, <1>4
<1>7. ASSUME NEW i \in 1 .. l, NEW j \in 1 .. l, i < j PROVE t[i].key < t[j].key
  <2>1. m + i - 1 < m + j - 1
    BY <1>4, <1>7
  <2>2. QED
    BY <1>1, <1>4, <2>1
<1>8. ASSUME NEW p \in T PROVE \E i \in 1 .. l : t[i] = p
  <2>1. PICK i \in m .. n : s[i] = p
    BY <1>8
  <2>2. t[i - m + 1] = s[i]
    BY <1>4, <1>5
  <2>3. QED
    BY <1>5, <2>1, <2>2
<1> HIDE DEF T
<1>9. Lists(t, T)
  BY <1>3, <1>6, <1>7, <1>8 DEF Lists
<1>10. QED
  BY <1>9 DEF n, t, T

(* The pairs of the tree, and those with a key from lo up to hi. *)
TreePairs == {p \in PairN : Holds(clevel.nodes, p.key, p.value)}
InSpan(lo, hi) == {p \in TreePairs : lo <= p.key /\ p.key < hi}

(* The pairs of neighbouring spans. *)
LEMMA SpansJoin ==
  ASSUME NEW lo \in Int, NEW mid \in Int, NEW hi \in Int, lo <= mid, mid <= hi
  PROVE  /\ InSpan(lo, mid) \union InSpan(mid, hi) = InSpan(lo, hi)
         /\ \A p \in InSpan(lo, mid) : \A q \in InSpan(mid, hi) : p.key < q.key
<1>1. \A p \in TreePairs : p.key \in Int
  BY DEF TreePairs, PairN
<1>2. ASSUME NEW p \in TreePairs
      PROVE  (lo <= p.key /\ p.key < hi) <=> (lo <= p.key /\ p.key < mid) \/ (mid <= p.key /\ p.key < hi)
  BY <1>1
<1>3. \A p \in InSpan(lo, mid) : \A q \in InSpan(mid, hi) : p.key < q.key
  BY <1>1 DEF InSpan
<1>4. InSpan(lo, mid) \union InSpan(mid, hi) = InSpan(lo, hi)
  BY <1>2 DEF InSpan
<1>5. QED
  BY <1>3, <1>4

(* The pairs of a leaf are those of the tree in its span. *)
LEMMA LeafLists ==
  ASSUME NEW g, Tree(clevel.nodes, clevel.root, g, 0), NEW m \in LeafNodes
  PROVE  /\ Lists(C!B!Pairs(clevel.nodes[m].buf), InSpan(g[m].lo, g[m].hi))
         /\ Len(C!B!Pairs(clevel.nodes[m].buf)) = clevel.nodes[m].buf.entries
<1> DEFINE N == Len(clevel.nodes)
           x == clevel.nodes[m]
           b == x.buf
           n == b.entries
           s == C!B!Pairs(b)
           S == InSpan(g[m].lo, g[m].hi)
<1>1. SpansGood(g, N) /\ Nodes = 1 .. N
  <2>1. Nodes = 1 .. N
    BY DEF Nodes, Tree
  <2>2. QED
    BY <2>1, TreeSpans
<1>2. /\ m \in 1 .. N /\ x.type = "LEAF" /\ g[m].h = 0
      /\ g[m].lo \in Nat /\ g[m].hi \in Nat /\ Sound(b) /\ Inside(x, g[m])
  BY <1>1, NodeParts DEF LeafNodes, IsLeaf
<1>3. /\ n \in Nat
      /\ \A r \in 0 .. n - 1 : C!B!Rec(b, r) \in PairN
      /\ \A r, t \in 0 .. n - 1 : r < t => C!B!Rec(b, r).key < C!B!Rec(b, t).key
  <2> HIDE DEF b
  <2>1. QED
    BY <1>2, BufferParts DEF PairN
<1>4. s = [i \in 1 .. n |-> C!B!Rec(b, i - 1)]
  BY DEF C!B!Pairs
<1> HIDE DEF n, s
<1>5. \A i \in 1 .. n : i - 1 \in 0 .. n - 1 /\ s[i] = C!B!Rec(b, i - 1)
  BY <1>3, <1>4
<1>6. s \in [1 .. n -> PairN] /\ \A i, j \in 1 .. n : i < j => s[i].key < s[j].key
  <2>1. \A i \in 1 .. n : C!B!Rec(b, i - 1) \in PairN
    BY <1>3, <1>5
  <2>2. ASSUME NEW i \in 1 .. n, NEW j \in 1 .. n, i < j PROVE s[i].key < s[j].key
    <3>1. i - 1 \in 0 .. n - 1 /\ j - 1 \in 0 .. n - 1 /\ i - 1 < j - 1
      BY <1>3, <2>2
    <3>2. QED
      BY <1>3, <1>5, <3>1
  <2>3. QED
    BY <1>4, <2>1, <2>2
<1>7. Lists(s, {s[i] : i \in 1 .. n})
  BY <1>3, <1>6, ListOf
<1>8. Len(s) = n
  <2> HIDE DEF PairN
  <2>1. QED
    BY <1>3, <1>6, FunctionSeq
<1>9. ASSUME NEW i \in 1 .. n PROVE s[i] \in S
  <2> DEFINE p == s[i]
             r == i - 1
  <2>1. p \in PairN /\ r \in 0 .. n - 1 /\ p = C!B!Rec(b, r)
    BY <1>5, <1>6
  <2>2. p = [key |-> p.key, value |-> p.value] /\ p.key \in Nat
    BY <2>1 DEF PairN
  <2>3. p.key = Key(x, r)
    BY <2>1 DEF Key
  <2>4. g[m].lo <= Key(x, r) /\ Key(x, r) < g[m].hi
    BY <1>2, <2>1 DEF Inside, n
  <2> HIDE DEF p, r
  <2>5. HoldsIn(x, p.key, p.value)
    <3>1. C!B!Rec(b, r) = [key |-> p.key, value |-> p.value]
      BY <2>1, <2>2
    <3>2. QED
      BY <1>2, <2>1, <3>1 DEF HoldsIn, n
  <2>6. Holds(clevel.nodes, p.key, p.value)
    BY <1>2, <2>5 DEF Holds
  <2>7. p \in S
    BY <2>1, <2>3, <2>4, <2>6 DEF InSpan, TreePairs
  <2>8. QED
    BY <2>7 DEF p
<1>10. ASSUME NEW p \in S PROVE \E i \in 1 .. n : s[i] = p
  <2>1. p \in PairN /\ Holds(clevel.nodes, p.key, p.value) /\ g[m].lo <= p.key /\ p.key < g[m].hi
    BY DEF InSpan, TreePairs
  <2>2. p = [key |-> p.key, value |-> p.value] /\ p.key \in Nat
    BY <2>1 DEF PairN
  <2>3. PICK y \in 1 .. N : HoldsIn(clevel.nodes[y], p.key, p.value)
    BY <2>1 DEF Holds
  <2>4. PICK r \in 0 .. clevel.nodes[y].buf.entries - 1 :
               C!B!Rec(clevel.nodes[y].buf, r) = [key |-> p.key, value |-> p.value]
    BY <2>3 DEF HoldsIn
  <2>5. clevel.nodes[y].type = "LEAF" /\ g[y].h = 0 /\ Inside(clevel.nodes[y], g[y])
    BY <2>3, NodeParts DEF HoldsIn
  <2>6. C!B!Rec(clevel.nodes[y].buf, r) = p
    BY <2>2, <2>4
  <2>7. Key(clevel.nodes[y], r) = p.key
    BY <2>6 DEF Key
  <2>8. g[y].lo <= p.key /\ p.key < g[y].hi
    BY <2>5, <2>7 DEF Inside
  <2> DEFINE k == p.key
  <2>9. k \in Int /\ g[m].lo <= k /\ k < g[m].hi /\ g[y].lo <= k /\ k < g[y].hi /\ g[m].h = g[y].h
    BY <1>2, <2>1, <2>2, <2>5, <2>8
  <2> HIDE DEF k
  <2>10. m = y
    BY <1>1, <1>2, <2>9, LeafSame
  <2>11. r \in 0 .. n - 1 /\ C!B!Rec(b, r) = p
    BY <2>6, <2>10 DEF n
  <2>12. r + 1 \in 1 .. n /\ (r + 1) - 1 = r
    BY <1>3, <2>11
  <2>13. s[r + 1] = p
    BY <1>5, <2>11, <2>12
  <2>14. QED
    BY <2>12, <2>13
<1>11. {s[i] : i \in 1 .. n} = S
  BY <1>9, <1>10
<1>12. QED
  BY <1>7, <1>8, <1>11 DEF n, s

(* FlattenSeq as CLevel has it. *)
LEMMA FlattenSame ==
  ASSUME NEW Q
  PROVE  C!FlattenSeq(Q) = FlattenSeq(Q)
BY DEF C!FlattenSeq, FlattenSeq

(* The pairs of a row of leaves are those of the tree over its span. *)
LEMMA PairsRow ==
  ASSUME NEW g, Tree(clevel.nodes, clevel.root, g, 0), NEW L, NEW lo, NEW hi,
         Frontier(L, Len(clevel.nodes), g, lo, hi)
  PROVE  Lists(C!PairsOf(clevel.nodes, L), InSpan(lo, hi))
<1> DEFINE N == Len(clevel.nodes)
           n == Len(L)
           Q == [i \in DOMAIN L |-> C!B!Pairs(clevel.nodes[L[i]].buf)]
           V == Seq(PairN)
<1>1. SpansGood(g, N) /\ Nodes = 1 .. N
  <2>1. Nodes = 1 .. N
    BY DEF Nodes, Tree
  <2>2. QED
    BY <2>1, TreeSpans
<1>2. /\ n \in Nat /\ n >= 1 /\ DOMAIN L = 1 .. n /\ lo \in Nat /\ hi \in Nat
      /\ \A i \in 1 .. n : /\ L[i] \in 1 .. N /\ g[L[i]].h = 0
                           /\ g[L[i]].lo \in Nat /\ g[L[i]].hi \in Nat /\ g[L[i]].lo < g[L[i]].hi
      /\ g[L[1]].lo = lo /\ g[L[n]].hi = hi
      /\ \A i \in 1 .. n - 1 : g[L[i]].hi = g[L[i + 1]].lo
  BY <1>1, RowParts
<1>3. \A i \in 1 .. n : lo <= g[L[i]].lo /\ g[L[i]].hi <= hi
  BY <1>1, RowAscends
<1>4. ASSUME NEW i \in 1 .. n PROVE Lists(Q[i], InSpan(g[L[i]].lo, g[L[i]].hi))
  <2> DEFINE m == L[i]
  <2>1. m \in LeafNodes
    <3>1. m \in 1 .. N /\ g[m].h = 0
      BY <1>2
    <3> HIDE DEF m
    <3>2. clevel.nodes[m].type = "LEAF"
      BY <3>1, NodeParts
    <3>3. QED
      BY <1>1, <3>1, <3>2 DEF LeafNodes, IsLeaf
  <2>2. Q[i] = C!B!Pairs(clevel.nodes[m].buf)
    BY <1>2
  <2> HIDE DEF m, Q
  <2>3. Lists(Q[i], InSpan(g[m].lo, g[m].hi))
    BY <2>1, <2>2, LeafLists
  <2>4. QED
    BY <2>3 DEF m
<1>5. Q \in Seq(V) /\ Len(Q) = n
  <2>1. \A i \in 1 .. n : Q[i] \in V
    BY <1>4 DEF Lists
  <2>2. Q \in [1 .. n -> V]
    <3> HIDE DEF V
    <3>1. QED
      BY <1>2, <2>1
  <2> HIDE DEF V, Q
  <2>3. QED
    BY <1>2, <2>2, FunctionSeq
<1>6. C!PairsOf(clevel.nodes, L) = FlattenSeq(Q)
  BY FlattenSame DEF C!PairsOf
<1>7. PICK f : /\ f[1] = Q[1] /\ FlattenSeq(Q) = f[n]
               /\ \A j \in 2 .. n : f[j] = f[j - 1] \o Q[j]
  <2>1. Len(Q) # 0 /\ Q \in Seq(Seq(PairN))
    BY <1>2, <1>5
  <2> HIDE DEF Q
  <2>2. \E f : /\ f[1] = Q[1] /\ FlattenSeq(Q) = f[Len(Q)]
               /\ \A j \in 2 .. Len(Q) : f[j] = f[j - 1] \o Q[j]
    BY <2>1, FlattenIs
  <2>3. QED
    BY <1>5, <2>2
<1> HIDE DEF Q, N, n
<1> DEFINE G == {j \in 0 .. n : j >= 1 => Lists(f[j], InSpan(lo, g[L[j]].hi))}
<1>8. 0 \in G
  BY <1>2
<1>9. ASSUME NEW j \in 0 .. n - 1, j \in G PROVE j + 1 \in G
  <2>1. j + 1 \in 0 .. n /\ j + 1 \in 1 .. n /\ (j + 1) - 1 = j /\ j \in Nat
    BY <1>2
  <2>2. Lists(Q[j + 1], InSpan(g[L[j + 1]].lo, g[L[j + 1]].hi))
    BY <1>4, <2>1
  <2>3. CASE j = 0
    <3>1. f[j + 1] = Q[j + 1] /\ g[L[j + 1]].lo = lo
      BY <1>2, <1>7, <2>3
    <3>2. QED
      BY <2>1, <2>2, <3>1
  <2>4. CASE j # 0
    <3>1. j >= 1 /\ j + 1 \in 2 .. n /\ j \in 1 .. n /\ j \in 1 .. n - 1
      BY <1>2, <2>1, <2>4
    <3>2. f[j + 1] = f[j] \o Q[j + 1] /\ Lists(f[j], InSpan(lo, g[L[j]].hi))
      BY <1>7, <1>9, <2>1, <3>1
    <3> DEFINE mid == g[L[j]].hi
               end == g[L[j + 1]].hi
    <3>3. /\ mid = g[L[j + 1]].lo /\ mid \in Nat /\ end \in Nat /\ mid <= end /\ lo <= mid
      <4>1. mid = g[L[j + 1]].lo /\ mid \in Nat /\ end \in Nat
        BY <1>2, <2>1, <3>1
      <4>2. g[L[j + 1]].lo < end /\ lo <= g[L[j + 1]].lo
        BY <1>2, <1>3, <2>1
      <4>3. QED
        BY <1>2, <4>1, <4>2, SMTT(60)
    <3>4. Lists(Q[j + 1], InSpan(mid, end)) /\ Lists(f[j], InSpan(lo, mid))
      BY <2>2, <3>2, <3>3
    <3> HIDE DEF mid, end
    <3>5. /\ InSpan(lo, mid) \union InSpan(mid, end) = InSpan(lo, end)
          /\ \A p \in InSpan(lo, mid) : \A q \in InSpan(mid, end) : p.key < q.key
      <4>1. lo \in Int /\ mid \in Int /\ end \in Int
        BY <1>2, <3>3
      <4>2. lo <= mid /\ mid <= end
        BY <3>3
      <4>3. QED
        BY <4>1, <4>2, SpansJoin, Zenon
    <3>6. Lists(f[j] \o Q[j + 1], InSpan(lo, mid) \union InSpan(mid, end))
      BY <3>4, <3>5, ListConcat
    <3>7. Lists(f[j + 1], InSpan(lo, end))
      BY <3>2, <3>5, <3>6
    <3>8. QED
      BY <2>1, <3>7 DEF end
  <2>5. QED
    BY <2>3, <2>4
<1>10. n \in G
  <2>1. \A j \in 0 .. n - 1 : j \in G => j + 1 \in G
    BY <1>9
  <2>2. n \in 0 .. n
    BY <1>2
  <2> HIDE DEF G
  <2>3. QED
    BY <1>2, <1>8, <2>1, <2>2, Induct
<1>11. QED
  BY <1>2, <1>6, <1>7, <1>10

(* The rest of a row of leaves behind the one at i lists the pairs there. *)
LEMMA RowTail ==
  ASSUME NEW g, Tree(clevel.nodes, clevel.root, g, 0), NEW L, NEW lo, NEW hi,
         Frontier(L, Len(clevel.nodes), g, lo, hi), NEW i \in 1 .. Len(L)
  PROVE  Lists(C!PairsOf(clevel.nodes, SubSeq(L, i + 1, Len(L))), InSpan(g[L[i]].hi, hi))
<1> DEFINE N == Len(clevel.nodes)
           D == 1 .. N
           n == Len(L)
           M == SubSeq(L, i + 1, n)
           m == n - i
<1>1. SpansGood(g, N)
  BY TreeSpans
<1>2. /\ n \in Nat /\ n >= 1
      /\ \A j \in 1 .. n : L[j] \in D /\ g[L[j]].h = 0
      /\ g[L[n]].hi = hi
      /\ \A j \in 1 .. n - 1 : g[L[j]].hi = g[L[j + 1]].lo
      /\ \A j \in 1 .. n : g[L[j]].hi \in Nat
  BY <1>1, RowParts
<1> HIDE DEF N, D, n
<1>3. i \in 1 .. n
  BY DEF n
<1>4. CASE i = n
  <2>1. M = <<>>
    BY <1>2, <1>4, SubSeqEmpty
  <2>2. C!PairsOf(clevel.nodes, <<>>) = <<>>
    <3>1. FlattenSeq(<<>>) = <<>>
      BY DEF FlattenSeq
    <3> DEFINE e == <<>>
               Q == [j \in DOMAIN e |-> C!B!Pairs(clevel.nodes[e[j]].buf)]
    <3>2. Q = <<>>
      OBVIOUS
    <3>3. C!PairsOf(clevel.nodes, e) = FlattenSeq(Q)
      BY FlattenSame DEF C!PairsOf
    <3>4. QED
      BY <3>1, <3>2, <3>3
  <2>3. InSpan(g[L[i]].hi, hi) = {}
    <3>1. g[L[i]].hi = hi /\ hi \in Nat
      BY <1>2, <1>4
    <3>2. \A p \in TreePairs : p.key \in Int
      BY DEF TreePairs, PairN
    <3>3. \A p \in TreePairs : ~ (hi <= p.key /\ p.key < hi)
      BY <3>1, <3>2
    <3>4. QED
      BY <3>1, <3>3 DEF InSpan
  <2> HIDE DEF M
  <2>4. Lists(C!PairsOf(clevel.nodes, M), InSpan(g[L[i]].hi, hi))
    BY <2>1, <2>2, <2>3, ListNone
  <2>5. QED
    BY <2>4 DEF M, n
<1>5. CASE i # n
  <2>1. i \in Nat /\ i + 1 \in Int /\ n \in Int /\ i + 1 <= n /\ m \in Nat /\ m >= 1
    BY <1>2, <1>3, <1>5
  <2>2. \A j \in i + 1 .. n : L[j] \in D
    BY <1>2, <2>1
  <2>3. /\ M \in Seq(D) /\ Len(M) = m
        /\ \A j \in 1 .. m : M[j] = L[i + j]
    <3>1. /\ M \in Seq(D) /\ Len(M) = (IF i + 1 <= n THEN n - (i + 1) + 1 ELSE 0)
          /\ \A j \in 1 .. n - (i + 1) + 1 : M[j] = L[(i + 1) + j - 1]
      BY <2>1, <2>2, SubSeqProperties
    <3>2. n - (i + 1) + 1 = m /\ \A j \in 1 .. m : (i + 1) + j - 1 = i + j
      BY <2>1
    <3> HIDE DEF M, m
    <3>3. QED
      BY <2>1, <3>1, <3>2
  <2> HIDE DEF M
  <2>4. \A j \in 1 .. m : g[M[j]].h = 0
    <3>1. \A j \in 1 .. m : i + j \in 1 .. n
      BY <2>1
    <3>2. QED
      BY <1>2, <2>3, <3>1
  <2>5. \A j \in 1 .. m - 1 : g[M[j]].hi = g[M[j + 1]].lo
    <3>1. ASSUME NEW j \in 1 .. m - 1 PROVE g[M[j]].hi = g[M[j + 1]].lo
      <4>1. /\ i + j \in 1 .. n - 1 /\ j \in 1 .. m /\ j + 1 \in 1 .. m
            /\ i + (j + 1) = (i + j) + 1
        BY <2>1
      <4>2. M[j] = L[i + j] /\ M[j + 1] = L[(i + j) + 1]
        BY <2>3, <4>1
      <4>3. QED
        BY <1>2, <4>1, <4>2
    <3>2. QED
      BY <3>1
  <2>6. g[M[1]].lo = g[L[i]].hi /\ g[M[m]].hi = hi
    <3>1. 1 \in 1 .. m /\ m \in 1 .. m /\ i + m = n /\ i \in 1 .. n - 1
      BY <2>1
    <3>2. M[1] = L[i + 1] /\ M[m] = L[n]
      BY <2>3, <3>1
    <3>3. QED
      BY <1>2, <3>1, <3>2
  <2> HIDE DEF m
  <2>7. Frontier(M, N, g, g[L[i]].hi, hi)
    BY <2>1, <2>3, <2>4, <2>5, <2>6 DEF Frontier, D
  <2>8. Lists(C!PairsOf(clevel.nodes, M), InSpan(g[L[i]].hi, hi))
    BY <2>7, PairsRow DEF N
  <2>9. QED
    BY <2>8 DEF M, n
<1>6. QED
  BY <1>4, <1>5

(* Each pair in the span of a row is in a leaf of it, which is not empty. *)
LEMMA RowHolds ==
  ASSUME NEW g, Tree(clevel.nodes, clevel.root, g, 0), NEW L, NEW lo, NEW hi,
         Frontier(L, Len(clevel.nodes), g, lo, hi), NEW p \in InSpan(lo, hi)
  PROVE  \E j \in 1 .. Len(L) : /\ p \in InSpan(g[L[j]].lo, g[L[j]].hi)
                                /\ clevel.nodes[L[j]].buf.entries > 0
<1> DEFINE N == Len(clevel.nodes)
           k == p.key
<1>1. SpansGood(g, N)
  BY TreeSpans
<1>2. p \in TreePairs /\ k \in Int /\ lo <= k /\ k < hi
  BY DEF InSpan, TreePairs, PairN
<1> HIDE DEF k, N
<1>3. Frontier(L, N, g, lo, hi)
  BY DEF N
<1>4. PICK j \in 1 .. Len(L) : g[L[j]].lo <= k /\ k < g[L[j]].hi
  BY <1>1, <1>2, <1>3, RowCovers, SMTT(60)
<1> DEFINE m == L[j]
<1>5. p \in InSpan(g[m].lo, g[m].hi)
  BY <1>2, <1>4 DEF InSpan, k
<1>6. m \in LeafNodes
  <2>1. m \in 1 .. N /\ g[m].h = 0
    BY <1>1, <1>3, RowParts
  <2> HIDE DEF m
  <2>2. clevel.nodes[m].type = "LEAF"
    BY <2>1, NodeParts DEF N
  <2>3. QED
    BY <2>1, <2>2 DEF LeafNodes, IsLeaf, Nodes, Tree, N
<1> HIDE DEF m
<1>7. /\ Lists(C!B!Pairs(clevel.nodes[m].buf), InSpan(g[m].lo, g[m].hi))
      /\ Len(C!B!Pairs(clevel.nodes[m].buf)) = clevel.nodes[m].buf.entries
  BY <1>6, LeafLists
<1>8. clevel.nodes[m].buf.entries > 0
  <2> DEFINE s == C!B!Pairs(clevel.nodes[m].buf)
  <2>1. \E i \in 1 .. Len(s) : s[i] = p
    BY <1>5, <1>7, ListParts
  <2>2. Len(s) \in Nat
    BY <1>7, ListParts
  <2> HIDE DEF s
  <2>3. Len(s) > 0
    BY <2>1, <2>2
  <2>4. QED
    BY <1>7, <2>3 DEF s
<1>9. QED
  BY <1>5, <1>8 DEF m

(* A listing of pairs of the tree that has all those from key k on. *)
Reaches(s, k) ==
  \E S \in SUBSET TreePairs : Lists(s, S) /\ \A p \in TreePairs : p.key >= k => p \in S

(* The keys of a tree are below the end. *)
LEMMA TreeKeys ==
  ASSUME NEW g, Tree(clevel.nodes, clevel.root, g, 0), NEW p \in TreePairs
  PROVE  p \in PairN /\ p.key \in Nat /\ p.key < Top
<1>1. p \in PairN /\ p.key \in Nat /\ Holds(clevel.nodes, p.key, p.value)
  BY DEF TreePairs, PairN
<1>2. PICK n \in 1 .. Len(clevel.nodes) : HoldsIn(clevel.nodes[n], p.key, p.value)
  BY <1>1 DEF Holds
<1> DEFINE x == clevel.nodes[n]
<1>3. PICK r \in 0 .. x.buf.entries - 1 : C!B!Rec(x.buf, r) = [key |-> p.key, value |-> p.value]
  BY <1>2 DEF HoldsIn
<1>4. Key(x, r) = p.key
  BY <1>3 DEF Key
<1>5. Inside(x, g[n]) /\ g[n].hi \in Nat /\ g[n].hi <= Top
  BY NodeParts
<1>6. p.key < g[n].hi
  BY <1>3, <1>4, <1>5 DEF Inside
<1>7. QED
  BY <1>1, <1>5, <1>6, Sizes DEF Top

(* What the leaf holds that FindLeaf finds, and all behind it. *)
LEMMA ChainFrom ==
  ASSUME NEW g, Tree(clevel.nodes, clevel.root, g, 0), NEW k \in Nat, k < Top
  PROVE  LET n == C!FindLeaf(clevel, k)
         IN  /\ Frontier(C!Chain(clevel.nodes, n), Len(clevel.nodes), g, g[n].lo, Top)
             /\ g[n].lo \in Nat /\ g[n].lo <= k
<1> DEFINE n == C!FindLeaf(clevel, k)
<1>1. n \in 1 .. Len(clevel.nodes) /\ clevel.nodes[n].type = "LEAF" /\ g[n].lo <= k
  BY FindLeafGood
<1>2. n \in LeafNodes
  BY <1>1 DEF LeafNodes, IsLeaf, Nodes, Tree
<1> HIDE DEF n
<1>3. Frontier(C!Chain(clevel.nodes, n), Len(clevel.nodes), g, g[n].lo, Top) /\ g[n].lo \in Nat
  BY <1>2, ChainFrontier, LinkGood
<1>4. QED
  BY <1>1, <1>3 DEF n

(* Iter of the tree lists all its pairs. *)
LEMMA TreeIter ==
  ASSUME NEW g, Tree(clevel.nodes, clevel.root, g, 0)
  PROVE  Lists(C!Iter(clevel), TreePairs) /\ Lists(C!NoSortIter(clevel), TreePairs)
<1> DEFINE head == C!FindHead(clevel)
           L == C!Chain(clevel.nodes, head)
<1>1. head \in LeafNodes /\ g[head].lo = 0
  BY FindHeadGood
<1>2. Frontier(L, Len(clevel.nodes), g, 0, Top)
  <2> HIDE DEF head
  <2>1. Frontier(L, Len(clevel.nodes), g, g[head].lo, Top)
    BY <1>1, ChainFrontier
  <2>2. QED
    BY <1>1, <2>1
<1>3. InSpan(0, Top) = TreePairs
  <2>1. ASSUME NEW p \in TreePairs PROVE 0 <= p.key /\ p.key < Top
    BY TreeKeys
  <2>2. QED
    BY <2>1 DEF InSpan
<1>4. C!Iter(clevel) = C!PairsOf(clevel.nodes, L) /\ C!NoSortIter(clevel) = C!PairsOf(clevel.nodes, L)
  BY DEF C!Iter, C!NoSortIter
<1> HIDE DEF L
<1>5. Lists(C!PairsOf(clevel.nodes, L), InSpan(0, Top))
  BY <1>2, PairsRow
<1>6. QED
  BY <1>3, <1>4, <1>5

(* NoSortIter from a key. *)
LEMMA TreeNoSortFrom ==
  ASSUME NEW g, Tree(clevel.nodes, clevel.root, g, 0), NEW k \in Nat, k < Top
  PROVE  Reaches(C!NoSortIterFrom(clevel, k), k)
<1> DEFINE n == C!FindLeaf(clevel, k)
           L == C!Chain(clevel.nodes, n)
           lo == g[n].lo
<1>1. Frontier(L, Len(clevel.nodes), g, lo, Top) /\ lo \in Nat /\ lo <= k
  BY ChainFrom
<1>2. C!NoSortIterFrom(clevel, k) = C!PairsOf(clevel.nodes, L)
  BY DEF C!NoSortIterFrom
<1> HIDE DEF L, lo
<1>3. Lists(C!PairsOf(clevel.nodes, L), InSpan(lo, Top))
  BY <1>1, PairsRow
<1>4. \A p \in TreePairs : p.key \in Nat /\ p.key < Top
  BY TreeKeys
<1>5. \A p \in TreePairs : p.key >= k => p \in InSpan(lo, Top)
  BY <1>1, <1>4 DEF InSpan
<1>6. InSpan(lo, Top) \in SUBSET TreePairs
  BY DEF InSpan
<1>7. QED
  BY <1>2, <1>3, <1>5, <1>6 DEF Reaches

(* The least member of a set of places, as CLevel has it. *)
LEMMA MinPlace ==
  ASSUME NEW Q \in SUBSET Nat, Q # {}
  PROVE  C!Min(Q) \in Q /\ \A y \in Q : C!Min(Q) <= y
<1>1. C!Min(Q) = Min(Q)
  BY DEF C!Min, Min
<1>2. Q \in SUBSET Int /\ 0 \in Int /\ \A x \in Q : 0 <= x
  OBVIOUS
<1>3. Min(Q) \in Q /\ \A y \in Q : Min(Q) <= y
  BY <1>2, MinProperty
<1>4. QED
  BY <1>1, <1>3

(* Where the iteration begins in the first leaf: no key from k on is before. *)
LEMMA FirstGood ==
  ASSUME NEW b, Sound(b), NEW k \in Nat
  PROVE  LET le == C!B!FindLE(b, k)
             first == IF le >= 0 /\ C!B!Rec(b, le).key = k THEN le ELSE le + 1
         IN  /\ first \in 0 .. b.entries
             /\ \A r \in 0 .. b.entries - 1 : C!B!Rec(b, r).key >= k => r >= first
<1> DEFINE le == C!B!FindLE(b, k)
           n == b.entries
           key == [r \in 0 .. n - 1 |-> C!B!Rec(b, r).key]
           first == IF le >= 0 /\ C!B!Rec(b, le).key = k THEN le ELSE le + 1
<1>1. /\ n \in Nat /\ \A r \in 0 .. n - 1 : key[r] \in Nat /\ key[r] = C!B!Rec(b, r).key
      /\ \A r, s \in 0 .. n - 1 : r < s => key[r] < key[s]
  <2>1. /\ n \in Nat /\ \A r \in 0 .. n - 1 : C!B!Rec(b, r).key \in Nat
        /\ \A r, s \in 0 .. n - 1 : r < s => C!B!Rec(b, r).key < C!B!Rec(b, s).key
    BY BufferParts
  <2> HIDE DEF n
  <2>2. QED
    BY <2>1
<1>2. /\ le \in -1 .. n - 1 /\ \A r \in 0 .. le : C!B!Rec(b, r).key <= k
  BY FindLEIs
<1> HIDE DEF le, n, key
<1>3. \A r \in 0 .. n - 1 : r <= le => key[r] <= k
  <2>1. ASSUME NEW r \in 0 .. n - 1, r <= le PROVE key[r] <= k
    <3>1. r \in 0 .. le
      BY <1>1, <1>2, <2>1
    <3>2. QED
      BY <1>1, <1>2, <3>1
  <2>2. QED
    BY <2>1
<1>4. first \in 0 .. n /\ first <= le + 1
  BY <1>1, <1>2
<1>5. ASSUME NEW r \in 0 .. n - 1, key[r] >= k PROVE r >= first
  <2>1. SUFFICES ASSUME r < first PROVE FALSE
    BY <1>1, <1>4
  <2>2. r <= le /\ le >= 0 /\ le \in 0 .. n - 1
    BY <1>1, <1>2, <1>4, <2>1
  <2>3. key[le] = C!B!Rec(b, le).key /\ key[le] <= k /\ key[r] <= k /\ key[r] \in Nat /\ key[le] \in Nat
    BY <1>1, <1>3, <2>2
  <2>4. CASE key[le] = k
    <3>1. first = le
      BY <2>2, <2>3, <2>4
    <3>2. key[r] < key[le]
      BY <1>1, <2>1, <2>2, <3>1
    <3>3. QED
      BY <1>5, <2>3, <2>4, <3>2
  <2>5. CASE key[le] # k
    <3>1. key[r] = k
      BY <1>5, <2>3
    <3>2. r # le
      BY <2>5, <3>1
    <3>3. key[r] < key[le]
      BY <1>1, <2>2, <3>2
    <3>4. QED
      BY <2>3, <3>1, <3>3
  <2>6. QED
    BY <2>4, <2>5
<1> HIDE DEF first
<1>6. QED
  BY <1>1, <1>4, <1>5 DEF first, le, n

(* Iter of the tree from a key, with the entry's key not above any key.      *)
LEMMA TreeIterFrom ==
  ASSUME NEW g, Tree(clevel.nodes, clevel.root, g, 0), NEW k \in 0 .. MaxKey,
         \A p \in TreePairs : p.key >= EntryKey
  PROVE  Reaches(C!IterFrom(clevel, EntryKey, k), k)
<1> DEFINE start == IF k <= EntryKey THEN EntryKey ELSE k
           N == Len(clevel.nodes)
           L == C!Chain(clevel.nodes, C!FindLeaf(clevel, start))
           lo == g[C!FindLeaf(clevel, start)].lo
           begins == {j \in DOMAIN L : clevel.nodes[L[j]].buf.entries > 0}
           i == C!Min(begins)
           m == L[i]
           b == clevel.nodes[m].buf
           le == C!B!FindLE(b, k)
           first == IF k <= EntryKey THEN 0
                    ELSE IF le >= 0 /\ C!B!Rec(b, le).key = k THEN le ELSE le + 1
           e == b.entries
           s == C!B!Pairs(b)
           t == SubSeq(s, first + 1, e)
           u == C!PairsOf(clevel.nodes, SubSeq(L, i + 1, Len(L)))
<1>1. C!IterFrom(clevel, EntryKey, k) = IF begins = {} THEN <<>> ELSE t \o u
  BY DEF C!IterFrom
<1>2. EntryKey \in Nat /\ MaxKey \in Nat /\ EntryKey <= MaxKey /\ k \in Nat /\ start \in Nat /\ start < Top
  <2>1. EntryKey \in Nat /\ MaxKey \in Nat /\ EntryKey <= MaxKey
    BY BEntryAssumption
  <2>2. QED
    BY <2>1 DEF Top
<1>3. \A p \in TreePairs : p.key \in Nat /\ p.key < Top /\ (p.key >= k => p.key >= start)
  <2>1. \A p \in TreePairs : p.key \in Nat /\ p.key < Top
    BY TreeKeys
  <2>2. QED
    BY <1>2, <2>1
<1> HIDE DEF start
<1>4. Frontier(L, N, g, lo, Top) /\ lo \in Nat /\ lo <= start
  BY <1>2, ChainFrom
<1> HIDE DEF L, lo, N
<1>5. SpansGood(g, N)
  BY TreeSpans DEF N
<1>6. /\ Len(L) \in Nat /\ DOMAIN L = 1 .. Len(L)
      /\ \A j \in 1 .. Len(L) : /\ L[j] \in 1 .. N /\ g[L[j]].h = 0
                                /\ g[L[j]].lo \in Nat /\ g[L[j]].hi \in Nat
      /\ \A j, l \in 1 .. Len(L) : j < l => g[L[j]].hi <= g[L[l]].lo
      /\ \A j \in 1 .. Len(L) : g[L[j]].hi <= Top
  BY <1>4, <1>5, RowParts, RowAscends
<1>7. ASSUME NEW p \in TreePairs, p.key >= k
      PROVE  \E j \in begins : p \in InSpan(g[L[j]].lo, g[L[j]].hi)
  <2>1. p \in InSpan(lo, Top)
    BY <1>2, <1>3, <1>4, <1>7 DEF InSpan
  <2>2. \E j \in 1 .. Len(L) : /\ p \in InSpan(g[L[j]].lo, g[L[j]].hi)
                               /\ clevel.nodes[L[j]].buf.entries > 0
    BY <1>4, <2>1, RowHolds DEF N
  <2>3. QED
    BY <1>6, <2>2
<1>8. CASE begins = {}
  <2>1. C!IterFrom(clevel, EntryKey, k) = <<>>
    BY <1>1, <1>8, ZenonT(60)
  <2>2. \A p \in TreePairs : p.key >= k => p \in {}
    BY <1>7, <1>8
  <2>3. QED
    BY <2>1, <2>2, ListNone, SMTT(60) DEF Reaches
<1>9. CASE begins # {}
  <2>1. i \in begins /\ \A j \in begins : i <= j
    <3>1. begins \in SUBSET Nat
      BY <1>6, SMTT(60)
    <3> HIDE DEF begins
    <3>2. QED
      BY <1>9, <3>1, MinPlace
  <2>2. i \in 1 .. Len(L) /\ begins \in SUBSET (1 .. Len(L))
    BY <1>6, <2>1, ZenonT(60)
  <2> HIDE DEF begins, i
  <2>3. m \in LeafNodes /\ g[m].lo \in Nat /\ g[m].hi \in Nat /\ g[m].hi <= Top /\ Sound(b)
    <3>1. m \in 1 .. N /\ g[m].h = 0 /\ g[m].lo \in Nat /\ g[m].hi \in Nat /\ g[m].hi <= Top
      BY <1>6, <2>2
    <3> HIDE DEF m
    <3>2. clevel.nodes[m].type = "LEAF" /\ Sound(b)
      BY <3>1, NodeParts DEF N
    <3>3. QED
      BY <3>1, <3>2 DEF LeafNodes, IsLeaf, Nodes, Tree, N
  <2> HIDE DEF m
  <2>4. Lists(s, InSpan(g[m].lo, g[m].hi)) /\ Len(s) = e
    BY <2>3, LeafLists
  <2>5. /\ e \in Nat /\ first \in 0 .. e
        /\ \A r \in 0 .. e - 1 : C!B!Rec(b, r).key >= k => r >= first
    <3>1. e \in Nat
      BY <2>3, BufferParts
    <3>2. CASE k <= EntryKey
      <4>1. first = 0
        BY <3>2
      <4> HIDE DEF first
      <4>2. QED
        BY <3>1, <4>1
    <3>3. CASE ~ (k <= EntryKey)
      <4> DEFINE f == IF le >= 0 /\ C!B!Rec(b, le).key = k THEN le ELSE le + 1
      <4>1. first = f
        BY <3>3
      <4> HIDE DEF b
      <4>2. f \in 0 .. e /\ \A r \in 0 .. e - 1 : C!B!Rec(b, r).key >= k => r >= f
        BY <1>2, <2>3, FirstGood
      <4> HIDE DEF first, f
      <4>3. QED
        BY <3>1, <4>1, <4>2
    <3>4. QED
      BY <3>2, <3>3
  <2>6. \A r \in 1 .. e : s[r] = C!B!Rec(b, r - 1)
    BY DEF C!B!Pairs
  <2> HIDE DEF first, s, b
  <2> DEFINE T == {s[r] : r \in first + 1 .. e}
             U == InSpan(g[m].hi, Top)
  <2>7. Lists(t, T)
    <3> DEFINE q == first + 1
    <3>1. q \in Nat /\ 1 <= q
      BY <2>5
    <3> HIDE DEF q
    <3>2. Lists(SubSeq(s, q, Len(s)), {s[r] : r \in q .. Len(s)})
      BY <2>4, <3>1, ListSuffix
    <3>3. QED
      BY <2>4, <3>2 DEF q
  <2>8. Lists(u, U)
    BY <1>4, <2>2, RowTail DEF N, m
  <2>9. T \in SUBSET InSpan(g[m].lo, g[m].hi)
    <3>1. \A r \in first + 1 .. e : r \in 1 .. e
      BY <2>5
    <3>2. \A r \in 1 .. e : s[r] \in InSpan(g[m].lo, g[m].hi)
      BY <2>4, ListParts
    <3>3. QED
      BY <3>1, <3>2
  <2>10. \A p \in T : \A q \in U : p.key < q.key
    <3>1. \A p \in T : p \in TreePairs /\ p.key < g[m].hi
      BY <2>9 DEF InSpan
    <3>2. \A q \in U : q \in TreePairs /\ g[m].hi <= q.key
      BY DEF InSpan
    <3> HIDE DEF T, U
    <3>3. ASSUME NEW p \in T, NEW q \in U PROVE p.key < q.key
      <4>1. p.key \in Nat /\ q.key \in Nat /\ p.key < g[m].hi /\ g[m].hi <= q.key
        BY <1>3, <3>1, <3>2
      <4>2. QED
        BY <2>3, <4>1
    <3>4. QED
      BY <3>3
  <2>11. T \union U \in SUBSET TreePairs
    <3>1. T \in SUBSET TreePairs
      BY <2>9 DEF InSpan
    <3>2. U \in SUBSET TreePairs
      BY DEF InSpan
    <3> HIDE DEF T, U
    <3>3. QED
      BY <3>1, <3>2
  <2>12. ASSUME NEW p \in TreePairs, p.key >= k PROVE p \in T \union U
    <3>1. PICK j \in begins : p \in InSpan(g[L[j]].lo, g[L[j]].hi)
      BY <1>7, <2>12
    <3>2. j \in 1 .. Len(L) /\ i <= j
      BY <2>1, <2>2, <3>1
    <3>3. CASE j = i
      <4>1. p \in InSpan(g[m].lo, g[m].hi)
        BY <3>1, <3>3 DEF m
      <4>2. PICK r \in 1 .. e : s[r] = p
        BY <2>4, <4>1, ListParts
      <4>3. r - 1 \in 0 .. e - 1 /\ C!B!Rec(b, r - 1).key >= k
        BY <2>5, <2>6, <2>12, <4>2
      <4>4. r - 1 >= first
        BY <2>5, <4>3
      <4>5. r \in first + 1 .. e
        BY <2>5, <4>2, <4>4
      <4>6. QED
        BY <4>2, <4>5
    <3>4. CASE j # i
      <4>1. i < j
        BY <2>2, <3>2, <3>4
      <4>2. g[m].hi <= g[L[j]].lo /\ g[L[j]].lo \in Nat
        BY <1>6, <2>2, <3>2, <4>1 DEF m
      <4>3. g[L[j]].lo <= p.key /\ p.key \in Nat /\ p.key < Top
        BY <1>3, <3>1 DEF InSpan
      <4>4. g[m].hi <= p.key
        BY <2>3, <4>2, <4>3
      <4>5. p \in U
        BY <4>3, <4>4 DEF InSpan
      <4>6. QED
        BY <4>5
    <3>5. QED
      BY <3>3, <3>4
  <2> HIDE DEF T, U, t, u
  <2>13. Lists(t \o u, T \union U)
    BY <2>7, <2>8, <2>10, ListConcat, ZenonT(60)
  <2>14. C!IterFrom(clevel, EntryKey, k) = t \o u
    BY <1>1, <1>9, ZenonT(60) DEF i, t, u, begins, m, first, s, b
  <2>15. QED
    BY <2>11, <2>12, <2>13, <2>14 DEF Reaches
<1>10. QED
  BY <1>8, <1>9

-----------------------------------------------------------------------------
(* Merging and passing over *)

(* The pairs of a listing from place i on. *)
TailOf(s, i) == {s[l] : l \in i .. Len(s)}

(* The first of them and the others. *)
LEMMA TailParts ==
  ASSUME NEW s, NEW S, Lists(s, S)
  PROVE  /\ TailOf(s, 1) = S /\ TailOf(s, Len(s) + 1) = {}
         /\ \A i \in 1 .. Len(s) : /\ TailOf(s, i) = {s[i]} \union TailOf(s, i + 1)
                                   /\ \A q \in TailOf(s, i + 1) : s[i].key < q.key
         /\ \A i \in 1 .. Len(s) + 1 : TailOf(s, i) \in SUBSET S
<1> DEFINE n == Len(s)
<1>1. /\ n \in Nat /\ \A i \in 1 .. n : s[i] \in S
      /\ \A i, j \in 1 .. n : i < j => s[i].key < s[j].key
      /\ \A p \in S : \E i \in 1 .. n : s[i] = p
  BY ListParts
<1>2. \A i : TailOf(s, i) = {s[l] : l \in i .. n}
  BY DEF TailOf
<1> HIDE DEF n
<1>3. TailOf(s, 1) = S
  BY <1>1, <1>2
<1>4. TailOf(s, n + 1) = {}
  <2>1. n + 1 .. n = {}
    BY <1>1
  <2>2. QED
    BY <1>2, <2>1
<1>5. ASSUME NEW i \in 1 .. n
      PROVE  /\ TailOf(s, i) = {s[i]} \union TailOf(s, i + 1)
             /\ \A q \in TailOf(s, i + 1) : s[i].key < q.key
  <2>1. i .. n = {i} \union (i + 1 .. n)
    BY <1>1
  <2>2. {s[l] : l \in {i} \union (i + 1 .. n)} = {s[i]} \union {s[l] : l \in i + 1 .. n}
    OBVIOUS
  <2>3. TailOf(s, i) = {s[i]} \union TailOf(s, i + 1)
    BY <1>2, <2>1, <2>2
  <2>4. \A l \in i + 1 .. n : l \in 1 .. n /\ i < l
    BY <1>1
  <2>5. \A l \in i + 1 .. n : s[i].key < s[l].key
    BY <1>1, <2>4
  <2>6. QED
    BY <1>2, <2>3, <2>5
<1>6. ASSUME NEW i \in 1 .. n + 1 PROVE TailOf(s, i) \in SUBSET S
  <2>1. \A l \in i .. n : l \in 1 .. n
    BY <1>1
  <2>2. QED
    BY <1>1, <1>2, <2>1
<1>7. QED
  BY <1>3, <1>4, <1>5, <1>6 DEF n

(* One pair before a listing of pairs above it. *)
LEMMA ListAfter ==
  ASSUME NEW p \in PairN, NEW s, NEW S, Lists(s, S), \A q \in S : p.key < q.key
  PROVE  Lists(<<p>> \o s, {p} \union S)
<1>1. Lists(<<p>>, {p})
  <2> HIDE DEF PairN
  <2>1. <<p>> \in Seq(PairN) /\ Len(<<p>>) = 1 /\ <<p>>[1] = p
    OBVIOUS
  <2> DEFINE t == <<p>>
  <2> HIDE DEF t
  <2>2. t \in Seq(PairN) /\ Len(t) = 1 /\ t[1] = p
    BY <2>1 DEF t
  <2>3. \A i \in 1 .. 1 : i = 1
    OBVIOUS
  <2>4. Lists(t, {p})
    BY <2>2, <2>3 DEF Lists
  <2>5. QED
    BY <2>4 DEF t
<1>2. QED
  BY <1>1, ListConcat

(* The pairs from a key on, when those before it are passed over. *)
LEMMA PassOverLists ==
  ASSUME NEW s, NEW S, Lists(s, S), NEW k \in Nat
  PROVE  Lists(PassOver(s, k), {p \in S : p.key >= k})
<1> DEFINE n == Len(s)
           key == [i \in 1 .. n |-> s[i].key]
           from == {i \in DOMAIN s : s[i].key >= k}
           m == Min(from)
           P == {p \in S : p.key >= k}
<1>1. /\ n \in Nat /\ DOMAIN s = 1 .. n
      /\ \A i \in 1 .. n : s[i] \in S /\ s[i].key \in Nat
      /\ \A i, j \in 1 .. n : i < j => s[i].key < s[j].key
      /\ \A p \in S : \E i \in 1 .. n : s[i] = p
  BY ListParts
<1>2. PassOver(s, k) = IF from = {} THEN <<>> ELSE SubSeq(s, m, n)
  BY DEF PassOver
<1>3. from \in SUBSET (1 .. n) /\ \A i \in 1 .. n : i \in from <=> s[i].key >= k
  BY <1>1
<1> HIDE DEF n
<1>4. CASE from = {}
  <2>1. \A p \in S : ~ (p.key >= k)
    BY <1>1, <1>3, <1>4
  <2>2. P = {}
    BY <2>1
  <2>3. QED
    BY <1>2, <1>4, <2>2, ListNone
<1>5. CASE from # {}
  <2>1. m \in from /\ \A j \in from : m <= j
    <3>1. from \in SUBSET Int /\ \A x \in from : 0 <= x
      BY <1>3
    <3> HIDE DEF from
    <3>2. QED
      BY <1>5, <3>1, MinProperty
  <2> HIDE DEF from, m
  <2>2. m \in 1 .. n /\ m \in Nat /\ 1 <= m /\ s[m].key >= k
    BY <1>3, <2>1
  <2>3. Lists(SubSeq(s, m, n), {s[i] : i \in m .. n})
    BY <2>2, ListSuffix DEF n
  <2>4. ASSUME NEW i \in m .. n PROVE s[i] \in P
    <3>1. i \in 1 .. n
      BY <1>1, <2>2
    <3>2. s[i].key >= k
      <4>1. CASE i = m
        BY <2>2, <4>1
      <4>2. CASE i # m
        <5>1. m < i
          BY <2>2, <4>2
        <5>2. s[m].key < s[i].key /\ s[m].key \in Nat /\ s[i].key \in Nat
          BY <1>1, <2>2, <3>1, <5>1
        <5>3. QED
          BY <2>2, <5>2
      <4>3. QED
        BY <4>1, <4>2
    <3>3. QED
      BY <1>1, <3>1, <3>2
  <2>5. ASSUME NEW p \in P PROVE \E i \in m .. n : s[i] = p
    <3>1. PICK i \in 1 .. n : s[i] = p
      BY <1>1
    <3>2. i \in from
      BY <1>3, <3>1
    <3>3. i \in m .. n
      BY <1>1, <2>1, <2>2, <3>2
    <3>4. QED
      BY <3>1, <3>3
  <2>6. {s[i] : i \in m .. n} = P
    BY <2>4, <2>5
  <2>7. QED
    BY <1>2, <1>5, <2>3, <2>6
<1>6. QED
  BY <1>4, <1>5

(* The next pair of a merge is the lesser of the two, and all that is left   *)
(* is behind it.                                                             *)
LEMMA MergeTakes ==
  ASSUME NEW c, NEW S, NEW b, NEW T, Lists(c, S), Lists(b, T), NEW i \in 1 .. Len(c),
         NEW j \in 1 .. Len(b) + 1, j <= Len(b) => c[i].key < b[j].key,
         NEW t, Lists(t, TailOf(c, i + 1) \union TailOf(b, j))
  PROVE  Lists(<<c[i]>> \o t, TailOf(c, i) \union TailOf(b, j))
<1> DEFINE n == Len(b)
           p == c[i]
           U == TailOf(c, i + 1)
           W == TailOf(b, j)
<1>1. p \in PairN /\ p.key \in Nat /\ TailOf(c, i) = {p} \union U /\ \A q \in U : p.key < q.key
  BY ListParts, TailParts
<1>2. n \in Nat /\ \A l \in 1 .. n : b[l].key \in Nat
  BY ListParts
<1>3. /\ TailOf(b, n + 1) = {}
      /\ \A l \in 1 .. n : /\ TailOf(b, l) = {b[l]} \union TailOf(b, l + 1)
                           /\ \A q \in TailOf(b, l + 1) : b[l].key < q.key
      /\ \A l \in 1 .. n + 1 : TailOf(b, l) \in SUBSET T
  BY TailParts
<1>4. \A q \in T : q.key \in Nat
  BY ListParts
<1> HIDE DEF p, n, U
<1>5. j \in 1 .. n + 1 /\ (j <= n => p.key < b[j].key)
  BY DEF n, p
<1>6. ASSUME NEW q \in W PROVE p.key < q.key
  <2>1. j # n + 1
    BY <1>3
  <2>2. j \in 1 .. n
    BY <1>2, <1>5, <2>1
  <2>3. p.key < b[j].key /\ b[j].key \in Nat
    BY <1>2, <1>5, <2>2
  <2>4. CASE q = b[j]
    BY <2>3, <2>4
  <2>5. CASE q # b[j]
    <3>1. q \in TailOf(b, j + 1)
      BY <1>3, <2>2, <2>5
    <3>2. b[j].key < q.key
      BY <1>3, <2>2, <3>1
    <3>3. q.key \in Nat
      BY <1>3, <1>4, <1>5
    <3>4. QED
      BY <1>1, <2>3, <3>2, <3>3
  <2>6. QED
    BY <2>4, <2>5
<1>7. \A q \in U \union W : p.key < q.key
  BY <1>1, <1>6
<1>8. Lists(t, U \union W)
  BY DEF U
<1> HIDE DEF W
<1>9. Lists(<<p>> \o t, {p} \union (U \union W))
  BY <1>1, <1>7, <1>8, ListAfter
<1>10. {p} \union (U \union W) = TailOf(c, i) \union W
  BY <1>1
<1>11. QED
  BY <1>9, <1>10 DEF p, W

(* The merge of two listings without a common key lists the pairs of both. *)
LEMMA MergeLists ==
  ASSUME NEW c, NEW S, NEW b, NEW T, Lists(c, S), Lists(b, T),
         \A p \in S : \A q \in T : p.key # q.key
  PROVE  Lists(Merge(c, b), S \union T)
<1> DEFINE m == Len(c)
           n == Len(b)
           E == (1 .. m + 1) \X (1 .. n + 1)
           D == E
           V == Seq(PairN)
           X == m + n
           less == [x \in D |-> x[2] > n \/ c[x[1]].key < b[x[2]].key]
           r == [x \in D |-> (m + 1 - x[1]) + (n + 1 - x[2])]
           Turn(f, x) == IF x[1] > m THEN SubSeq(b, x[2], n)
                       ELSE IF less[x] THEN <<c[x[1]]>> \o f[<<x[1] + 1, x[2]>>]
                       ELSE <<b[x[2]]>> \o f[<<x[1], x[2] + 1>>]
           B == [y \in [D -> V] \X D |-> Turn(y[1], y[2])]
           P(f) == f = [at \in (1 .. Len(c) + 1) \X (1 .. Len(b) + 1) |->
                          LET i == at[1]
                              j == at[2]
                          IN  IF i > Len(c) THEN SubSeq(b, j, Len(b))
                              ELSE IF j > Len(b) \/ c[i].key < b[j].key THEN <<c[i]>> \o f[<<i + 1, j>>]
                              ELSE <<b[j]>> \o f[<<i, j + 1>>]]
           e == CHOOSE f : P(f)
           G == {x \in D : Lists(e[x], TailOf(c, x[1]) \union TailOf(b, x[2]))}
<1>1. /\ m \in Nat /\ n \in Nat /\ X \in Nat
      /\ \A i \in 1 .. m : c[i] \in PairN /\ c[i] \in S /\ c[i].key \in Nat
      /\ \A j \in 1 .. n : b[j] \in PairN /\ b[j] \in T /\ b[j].key \in Nat
  BY ListParts
<1>2. Merge(c, b) = e[<<1, 1>>]
  BY DEF Merge
<1>3. \A f : P(f) <=> f = [x \in E |-> Turn(f, x)]
  <2>1. ASSUME NEW f, NEW x \in E
        PROVE  Turn(f, x) = LET i == x[1]
                              j == x[2]
                          IN  IF i > Len(c) THEN SubSeq(b, j, Len(b))
                              ELSE IF j > Len(b) \/ c[i].key < b[j].key THEN <<c[i]>> \o f[<<i + 1, j>>]
                              ELSE <<b[j]>> \o f[<<i, j + 1>>]
    <3>1. less[x] <=> x[2] > n \/ c[x[1]].key < b[x[2]].key
      OBVIOUS
    <3> HIDE DEF less
    <3>2. QED
      BY <3>1
  <2>2. ASSUME NEW f PROVE P(f) <=> f = [x \in E |-> Turn(f, x)]
    <3> DEFINE Body(x) == LET i == x[1]
                              j == x[2]
                          IN  IF i > Len(c) THEN SubSeq(b, j, Len(b))
                              ELSE IF j > Len(b) \/ c[i].key < b[j].key THEN <<c[i]>> \o f[<<i + 1, j>>]
                              ELSE <<b[j]>> \o f[<<i, j + 1>>]
    <3>1. \A x \in E : Turn(f, x) = Body(x)
      BY <2>1
    <3>2. P(f) <=> f = [x \in E |-> Body(x)]
      OBVIOUS
    <3> HIDE DEF P, Turn, Body, E
    <3>3. [x \in E |-> Turn(f, x)] = [x \in E |-> Body(x)]
      BY <3>1
    <3>4. QED
      BY <3>2, <3>3
  <2> HIDE DEF P, Turn
  <2>3. QED
    BY <2>2
<1>4. ASSUME NEW x \in D
      PROVE  /\ x[1] \in 1 .. m + 1 /\ x[2] \in 1 .. n + 1 /\ x = <<x[1], x[2]>>
             /\ x[1] <= m => <<x[1] + 1, x[2]>> \in D /\ r[<<x[1] + 1, x[2]>>] < r[x] /\ x[1] \in 1 .. m
             /\ x[2] <= n => <<x[1], x[2] + 1>> \in D /\ r[<<x[1], x[2] + 1>>] < r[x] /\ x[2] \in 1 .. n
             /\ ~ (x[1] > m) => x[1] <= m
             /\ ~ less[x] => x[2] <= n /\ x[2] \in 1 .. n /\ ~ (c[x[1]].key < b[x[2]].key)
             /\ less[x] /\ x[2] <= n => c[x[1]].key < b[x[2]].key
  <2> DEFINE i == x[1]
             j == x[2]
  <2>1. i \in 1 .. m + 1 /\ j \in 1 .. n + 1 /\ x = <<i, j>>
    OBVIOUS
  <2>2. less[x] <=> j > n \/ c[i].key < b[j].key
    OBVIOUS
  <2>3. r[x] = (m + 1 - i) + (n + 1 - j)
    OBVIOUS
  <2>4. \A y \in 1 .. m + 1 : \A z \in 1 .. n + 1 : <<y, z>> \in D /\ r[<<y, z>>] = (m + 1 - y) + (n + 1 - z)
    OBVIOUS
  <2> HIDE DEF r, less, D, i, j, m, n
  <2>5. i <= m => i + 1 \in 1 .. m + 1 /\ i \in 1 .. m
    BY <1>1, <2>1
  <2>6. j <= n => j + 1 \in 1 .. n + 1 /\ j \in 1 .. n
    BY <1>1, <2>1
  <2>7. i <= m => <<i + 1, j>> \in D /\ r[<<i + 1, j>>] < r[x]
    <3>1. i <= m => <<i + 1, j>> \in D /\ r[<<i + 1, j>>] = (m + 1 - (i + 1)) + (n + 1 - j)
      BY <2>1, <2>4, <2>5
    <3>2. QED
      BY <1>1, <2>1, <2>3, <3>1
  <2>8. j <= n => <<i, j + 1>> \in D /\ r[<<i, j + 1>>] < r[x]
    <3>1. j <= n => <<i, j + 1>> \in D /\ r[<<i, j + 1>>] = (m + 1 - i) + (n + 1 - (j + 1))
      BY <2>1, <2>4, <2>6
    <3>2. QED
      BY <1>1, <2>1, <2>3, <3>1
  <2>9. (~ (i > m) => i <= m) /\ (~ (j > n) => j <= n) /\ (j > n => ~ (j <= n))
    BY <1>1, <2>1
  <2>10. QED
    BY <2>1, <2>2, <2>5, <2>6, <2>7, <2>8, <2>9 DEF i, j
<1>5. r \in [D -> 0 .. X]
  <2>1. ASSUME NEW x \in D PROVE (m + 1 - x[1]) + (n + 1 - x[2]) \in 0 .. X
    <3>1. x[1] \in 1 .. m + 1 /\ x[2] \in 1 .. n + 1
      BY <1>4
    <3> HIDE DEF m, n
    <3>2. QED
      BY <1>1, <3>1
  <2>2. QED
    BY <2>1
<1> HIDE DEF r, less
<1>6. ASSUME NEW f \in [D -> V], NEW x \in D PROVE Turn(f, x) \in V
  <2>1. CASE x[1] > m
    <3> DEFINE j == x[2]
    <3>1. j \in Nat /\ 1 <= j
      BY <1>1, <1>4
    <3> HIDE DEF j
    <3>2. Lists(SubSeq(b, j, Len(b)), {b[i] : i \in j .. Len(b)})
      BY <3>1, ListSuffix
    <3>3. SubSeq(b, j, n) \in V
      BY <3>2 DEF Lists
    <3>4. QED
      BY <2>1, <3>3 DEF j
  <2>2. CASE ~ (x[1] > m) /\ less[x]
    <3> DEFINE p == c[x[1]]
               t == f[<<x[1] + 1, x[2]>>]
    <3>1. p \in PairN /\ t \in V
      BY <1>1, <1>4, <2>2
    <3>2. Turn(f, x) = <<p>> \o t
      BY <2>2
    <3> HIDE DEF p, t, Turn, PairN
    <3>3. <<p>> \o t \in Seq(PairN)
      BY <3>1
    <3>4. QED
      BY <3>2, <3>3
  <2>3. CASE ~ (x[1] > m) /\ ~ less[x]
    <3> DEFINE p == b[x[2]]
               t == f[<<x[1], x[2] + 1>>]
    <3>1. p \in PairN /\ t \in V
      BY <1>1, <1>4, <2>3
    <3>2. Turn(f, x) = <<p>> \o t
      BY <2>3
    <3> HIDE DEF p, t, Turn, PairN
    <3>3. <<p>> \o t \in Seq(PairN)
      BY <3>1
    <3>4. QED
      BY <3>2, <3>3
  <2>4. QED
    BY <2>1, <2>2, <2>3
<1>7. ASSUME NEW f, NEW h, NEW x \in D, \A y \in D : r[y] < r[x] => f[y] = h[y]
      PROVE  Turn(f, x) = Turn(h, x)
  <2>1. x[1] <= m => f[<<x[1] + 1, x[2]>>] = h[<<x[1] + 1, x[2]>>]
    BY <1>4, <1>7
  <2>2. x[2] <= n => f[<<x[1], x[2] + 1>>] = h[<<x[1], x[2] + 1>>]
    BY <1>4, <1>7
  <2>3. (~ (x[1] > m) => x[1] <= m) /\ (~ less[x] => x[2] <= n)
    BY <1>4
  <2>4. QED
    BY <2>1, <2>2, <2>3
<1>8. V # {}
  <2>1. <<>> \in V
    OBVIOUS
  <2>2. QED
    BY <2>1
<1>9. <<1, 1>> \in D
  <2>1. 1 \in 1 .. m + 1 /\ 1 \in 1 .. n + 1
    BY <1>1
  <2>2. QED
    BY <2>1
<1> HIDE DEF V
<1>10. ASSUME NEW x \in D PROVE e[x] = Turn(e, x)
  <2> HIDE DEF e, Turn, D
  <2>1. \A f \in [D -> V] : \A x1 \in D : B[<<f, x1>>] = Turn(f, x1)
    OBVIOUS
  <2>2. B \in [[D -> V] \X D -> V]
    BY <1>6
  <2> HIDE DEF B
  <2>3. \A f, h \in [D -> V] : \A x1 \in D :
          (\A y \in D : r[y] < r[x1] => f[y] = h[y]) => B[<<f, x1>>] = B[<<h, x1>>]
    BY <1>7, <2>1
  <2> HIDE DEF X
  <2>4. Recursive(D, V, X, r, B)
    BY <1>1, <1>5, <1>8, <2>2, <2>3 DEF Recursive
  <2>5. PICK h \in [D -> V] : \A x1 \in D : h[x1] = Turn(h, x1)
    <3>1. \E h \in [D -> V] : \A x1 \in D : h[x1] = B[<<h, x1>>]
      BY <2>4, Recursion
    <3>2. QED
      BY <2>1, <3>1
  <2>6. P(h)
    <3>1. h = [x1 \in D |-> Turn(h, x1)]
      BY <2>5
    <3> HIDE DEF P
    <3>2. QED
      BY <1>3, <3>1 DEF D
  <2>7. P(e)
    <3> HIDE DEF P
    <3>1. QED
      BY <2>6 DEF e
  <2>8. e = [x1 \in D |-> Turn(e, x1)]
    <3> HIDE DEF P
    <3>1. QED
      BY <1>3, <2>7 DEF D
  <2>9. QED
    BY <2>8
<1> HIDE DEF e, P
<1>11. ASSUME NEW x \in D, \A y \in D : r[y] < r[x] => y \in G PROVE x \in G
  <2> DEFINE i == x[1]
             j == x[2]
             U == TailOf(c, i) \union TailOf(b, j)
  <2>1. /\ i \in 1 .. m + 1 /\ j \in 1 .. n + 1
        /\ i <= m => <<i + 1, j>> \in G /\ i \in 1 .. m
        /\ j <= n => <<i, j + 1>> \in G /\ j \in 1 .. n
        /\ ~ (i > m) => i <= m
        /\ ~ less[x] => j <= n /\ j \in 1 .. n /\ ~ (c[i].key < b[j].key)
        /\ less[x] /\ j <= n => c[i].key < b[j].key
    BY <1>4, <1>11
  <2>2. e[x] = Turn(e, x)
    BY <1>10
  <2>3. CASE i > m
    <3>1. e[x] = SubSeq(b, j, n)
      BY <2>2, <2>3
    <3>2. i = m + 1 /\ j \in Nat /\ 1 <= j
      BY <1>1, <2>1, <2>3
    <3> HIDE DEF i, j
    <3>3. TailOf(c, i) = {}
      BY <3>2, TailParts
    <3>4. Lists(SubSeq(b, j, Len(b)), {b[l] : l \in j .. Len(b)})
      BY <3>2, ListSuffix
    <3>5. Lists(e[x], U)
      BY <3>1, <3>3, <3>4 DEF TailOf
    <3>6. QED
      BY <3>5 DEF i, j
  <2>4. CASE ~ (i > m) /\ less[x]
    <3> DEFINE t == e[<<i + 1, j>>]
    <3>1. e[x] = <<c[i]>> \o t
      BY <2>2, <2>4
    <3>2. /\ i \in 1 .. m /\ <<i + 1, j>> \in G /\ (j <= n => c[i].key < b[j].key)
      BY <2>1, <2>4
    <3>3. Lists(t, TailOf(c, i + 1) \union TailOf(b, j))
      BY <3>2
    <3> HIDE DEF i, j, t, D, Turn
    <3>4. Lists(<<c[i]>> \o t, TailOf(c, i) \union TailOf(b, j))
      BY <2>1, <3>2, <3>3, MergeTakes
    <3>5. QED
      BY <3>1, <3>4 DEF i, j
  <2>5. CASE ~ (i > m) /\ ~ less[x]
    <3> DEFINE t == e[<<i, j + 1>>]
    <3>1. e[x] = <<b[j]>> \o t
      BY <2>2, <2>5
    <3>2. /\ i \in 1 .. m /\ j \in 1 .. n /\ <<i, j + 1>> \in G /\ ~ (c[i].key < b[j].key)
      BY <2>1, <2>5
    <3>3. Lists(t, TailOf(b, j + 1) \union TailOf(c, i))
      BY <3>2
    <3>4. b[j].key < c[i].key
      <4>1. c[i].key # b[j].key /\ c[i].key \in Nat /\ b[j].key \in Nat
        BY <1>1, <3>2
      <4> HIDE DEF i, j
      <4>2. QED
        BY <3>2, <4>1, Smaller
    <3> HIDE DEF i, j, t, D, Turn
    <3>5. Lists(<<b[j]>> \o t, TailOf(b, j) \union TailOf(c, i))
      BY <2>1, <3>2, <3>3, <3>4, MergeTakes
    <3>6. Lists(e[x], U)
      BY <3>1, <3>5
    <3>7. QED
      BY <3>6 DEF i, j
  <2>6. QED
    BY <2>3, <2>4, <2>5
<1>12. G = D
  <2>1. G \in SUBSET D
    OBVIOUS
  <2>2. \A x \in D : (\A y \in D : r[y] < r[x] => y \in G) => x \in G
    BY <1>11
  <2> HIDE DEF G, D, X
  <2>3. QED
    BY <1>1, <1>5, <2>1, <2>2, ByRank, ZenonT(60)
<1>13. Lists(e[<<1, 1>>], TailOf(c, 1) \union TailOf(b, 1))
  BY <1>9, <1>12
<1>14. TailOf(c, 1) = S /\ TailOf(b, 1) = T
  BY TailParts
<1>15. QED
  BY <1>2, <1>13, <1>14

-----------------------------------------------------------------------------
(* The pairs of buffer and tree *)

BufPairs == {buf[i] : i \in 1 .. Len(buf)}

(* The sorted index lists the pairs of the buffer. *)
LEMMA SortedLists ==
  ASSUME GoodBuf(buf)
  PROVE  Lists(SortedBuf, BufPairs)
<1> DEFINE n == Len(buf)
           w == K!GetSortedIndex(buf)
           s == [i \in 1 .. n |-> buf[w[i] + 1]]
<1>1. /\ n \in Nat /\ \A i \in 1 .. n : buf[i] \in PairN
  <2>1. \A p \in Pair : p \in PairN
    BY Sizes DEF Pair, PairN
  <2>2. Len(buf) \in Nat /\ \A i \in 1 .. Len(buf) : buf[i] \in Pair
    BY BufParts
  <2>3. QED
    BY <2>1, <2>2
<1>2. /\ DOMAIN w = 1 .. n
      /\ \A i \in 1 .. n : w[i] + 1 \in 1 .. n
      /\ \A i, j \in 1 .. n : i < j => buf[w[i] + 1].key < buf[w[j] + 1].key
      /\ \A i \in 1 .. n : \E j \in 1 .. n : w[j] + 1 = i
  BY SortedIs
<1>3. SortedBuf = s
  BY <1>2 DEF SortedBuf
<1>4. BufPairs = {buf[i] : i \in 1 .. n}
  BY DEF BufPairs
<1> HIDE DEF n, w
<1>5. s \in [1 .. n -> PairN] /\ \A i \in 1 .. n : s[i] = buf[w[i] + 1]
  BY <1>1, <1>2
<1>6. \A i, j \in 1 .. n : i < j => s[i].key < s[j].key
  BY <1>2, <1>5
<1> HIDE DEF s
<1>7. Lists(s, {s[i] : i \in 1 .. n})
  BY <1>1, <1>5, <1>6, ListOf
<1>8. \A i \in 1 .. n : s[i] \in BufPairs
  BY <1>2, <1>4, <1>5
<1>9. ASSUME NEW p \in BufPairs PROVE \E i \in 1 .. n : s[i] = p
  <2>1. PICK i \in 1 .. n : p = buf[i]
    BY <1>4
  <2>2. PICK j \in 1 .. n : w[j] + 1 = i
    BY <1>2
  <2>3. QED
    BY <1>5, <2>1, <2>2
<1>10. {s[i] : i \in 1 .. n} = BufPairs
  BY <1>8, <1>9
<1>11. QED
  BY <1>3, <1>7, <1>10

(* The pairs of both are those of the store, and no key is in both. *)
LEMMA StoreParts ==
  ASSUME BInv
  PROVE  /\ BufPairs \union TreePairs = Stored(0)
         /\ \A p \in TreePairs : \A q \in BufPairs : p.key # q.key
         /\ \A p \in Stored(0) : p.key \in 1 .. MaxKey
         /\ \A k \in Nat : Stored(k) = {p \in Stored(0) : p.key >= k}
<1>1. /\ GoodBuf(buf) /\ store \in [Keys -> 0 .. 2]
      /\ \A k, v, w : InBuf(buf, k, v) => ~ Holds(clevel.nodes, k, w)
      /\ \A k \in Nat : \A v : InBuf(buf, k, v) \/ Holds(clevel.nodes, k, v) <=> k \in Keys /\ v # 0 /\ v = store[k]
  BY BInvParts
<1>2. Keys = 1 .. MaxKey /\ MaxKey \in Nat
  BY Sizes
<1>3. \A k \in Nat : Stored(k) = {[key |-> x, value |-> store[x]] : x \in {y \in Keys : y >= k /\ store[y] # 0}}
  BY DEF Stored
<1>4. \A y \in Keys : y \in Nat /\ y >= 0 /\ store[y] \in Nat
  BY <1>1, <1>2
<1>5. ASSUME NEW p
      PROVE  p \in Stored(0) <=> p \in PairN /\ p.key \in Keys /\ p.value # 0 /\ p.value = store[p.key]
  <2>1. ASSUME p \in Stored(0)
        PROVE  p \in PairN /\ p.key \in Keys /\ p.value # 0 /\ p.value = store[p.key]
    <3>1. PICK x \in Keys : store[x] # 0 /\ p = [key |-> x, value |-> store[x]]
      BY <1>3, <2>1
    <3>2. QED
      BY <1>4, <3>1 DEF PairN
  <2>2. ASSUME p \in PairN, p.key \in Keys, p.value # 0, p.value = store[p.key]
        PROVE  p \in Stored(0)
    <3>1. p = [key |-> p.key, value |-> store[p.key]]
      BY <2>2 DEF PairN
    <3> DEFINE x == p.key
    <3>2. x \in {y \in Keys : y >= 0 /\ store[y] # 0}
      BY <1>4, <2>2
    <3> HIDE DEF x
    <3>3. p = [key |-> x, value |-> store[x]]
      BY <3>1 DEF x
    <3>4. QED
      BY <1>3, <3>2, <3>3
  <2>3. QED
    BY <2>1, <2>2
<1>6. ASSUME NEW p \in PairN
      PROVE  /\ p.key \in Nat
             /\ p \in BufPairs <=> InBuf(buf, p.key, p.value)
             /\ p \in TreePairs <=> Holds(clevel.nodes, p.key, p.value)
  <2>1. p.key \in Nat /\ p = [key |-> p.key, value |-> p.value]
    BY DEF PairN
  <2>2. \A i \in 1 .. Len(buf) : buf[i] \in Pair
    BY <1>1, BufParts
  <2>3. \A q \in Pair : q = [key |-> q.key, value |-> q.value]
    BY DEF Pair
  <2>4. \A i \in 1 .. Len(buf) : buf[i] = p <=> buf[i].key = p.key /\ buf[i].value = p.value
    BY <2>1, <2>2, <2>3
  <2>5. p \in BufPairs <=> InBuf(buf, p.key, p.value)
    BY <2>4 DEF BufPairs, InBuf
  <2>6. QED
    BY <2>1, <2>5 DEF TreePairs
<1>7. BufPairs \in SUBSET PairN /\ TreePairs \in SUBSET PairN
  <2>1. BufPairs \in SUBSET PairN
    BY <1>1, SortedLists DEF Lists
  <2>2. QED
    BY <2>1 DEF TreePairs
<1>8. ASSUME NEW p PROVE p \in BufPairs \union TreePairs <=> p \in Stored(0)
  <2>1. CASE p \in PairN
    <3>1. p \in BufPairs \union TreePairs <=> InBuf(buf, p.key, p.value) \/ Holds(clevel.nodes, p.key, p.value)
      BY <1>6, <2>1
    <3>2. p.key \in Nat
      BY <1>6, <2>1
    <3>3. InBuf(buf, p.key, p.value) \/ Holds(clevel.nodes, p.key, p.value)
            <=> p.key \in Keys /\ p.value # 0 /\ p.value = store[p.key]
      BY <1>1, <3>2
    <3>4. QED
      BY <1>5, <2>1, <3>1, <3>3
  <2>2. CASE p \notin PairN
    BY <1>5, <1>7, <2>2
  <2>3. QED
    BY <2>1, <2>2
<1>9. BufPairs \union TreePairs = Stored(0)
  BY <1>8
<1>10. ASSUME NEW p \in TreePairs, NEW q \in BufPairs PROVE p.key # q.key
  <2>1. Holds(clevel.nodes, p.key, p.value) /\ InBuf(buf, q.key, q.value)
    BY <1>6, <1>7
  <2>2. QED
    BY <1>1, <2>1
<1>11. \A p \in Stored(0) : p.key \in 1 .. MaxKey
  BY <1>2, <1>5
<1>12. ASSUME NEW k \in Nat PROVE Stored(k) = {p \in Stored(0) : p.key >= k}
  <2> DEFINE D(j) == {y \in Keys : y >= j /\ store[y] # 0}
             R(x) == [key |-> x, value |-> store[x]]
  <2>1. Stored(k) = {R(x) : x \in D(k)} /\ Stored(0) = {R(x) : x \in D(0)}
    BY <1>3
  <2>2. \A x : R(x).key = x
    OBVIOUS
  <2>3. \A x : x \in D(k) <=> x \in D(0) /\ x >= k
    BY <1>4
  <2> HIDE DEF D, R
  <2>4. {p \in {R(x) : x \in D(0)} : p.key >= k} = {R(x) : x \in D(k)}
    BY <2>2, <2>3
  <2>5. QED
    BY <2>1, <2>4
<1>13. QED
  BY <1>9, <1>10, <1>11, <1>12

-----------------------------------------------------------------------------
(* The iterators of the entry *)

(* A listing has each pair once. *)
LEMMA ListRange ==
  ASSUME NEW s, NEW S, Lists(s, S)
  PROVE  Range(s) = S /\ IsInjective(s)
<1>1. /\ Len(s) \in Nat /\ DOMAIN s = 1 .. Len(s)
      /\ \A i \in 1 .. Len(s) : s[i] \in S /\ s[i].key \in Nat
      /\ \A p \in S : \E i \in 1 .. Len(s) : s[i] = p
      /\ \A i, j \in 1 .. Len(s) : i < j => s[i].key < s[j].key
  BY ListParts
<1>2. Range(s) = S
  BY <1>1 DEF Range
<1>3. ASSUME NEW i \in 1 .. Len(s), NEW j \in 1 .. Len(s), s[i] = s[j] PROVE i = j
  <2>1. SUFFICES ASSUME i # j PROVE FALSE
    OBVIOUS
  <2>2. i < j \/ j < i
    BY <1>1, <2>1
  <2>3. s[i].key < s[j].key \/ s[j].key < s[i].key
    BY <1>1, <2>2
  <2>4. s[i].key = s[j].key /\ s[i].key \in Nat
    BY <1>1, <1>3
  <2>5. QED
    BY <2>3, <2>4
<1>4. QED
  BY <1>1, <1>2, <1>3 DEF IsInjective

(* A listing is in order. *)
LEMMA ListInOrder ==
  ASSUME NEW s, NEW k, Lists(s, Stored(k))
  PROVE  InOrder(s, k)
BY ListParts, ListRange DEF InOrder

(* The pairs of the buffer, and after them those of a listing without a key *)
(* of theirs.                                                               *)
LEMMA BothOnce ==
  ASSUME GoodBuf(buf), NEW s, NEW S, Lists(s, S),
         \A p \in S : \A q \in BufPairs : p.key # q.key
  PROVE  Range(buf \o s) = BufPairs \union S /\ IsInjective(buf \o s)
<1> DEFINE m == Len(buf)
           n == Len(s)
           u == buf \o s
<1>1. /\ m \in Nat /\ buf \in Seq(PairN)
      /\ \A i, j \in 1 .. m : buf[i] = buf[j] => i = j
  <2>1. /\ m \in Nat /\ buf \in Seq(Pair)
        /\ \A i, j \in 1 .. m : buf[i].key = buf[j].key => i = j
    BY BufParts DEF GoodBuf
  <2>2. Pair \in SUBSET PairN
    BY Sizes DEF Pair, PairN
  <2> HIDE DEF m
  <2>3. buf \in Seq(PairN)
    <3> HIDE DEF Pair, PairN
    <3>1. QED
      BY <2>1, <2>2
  <2>4. QED
    BY <2>1, <2>3
<1>2. /\ n \in Nat /\ s \in Seq(PairN)
      /\ \A i \in 1 .. n : s[i] \in S
  BY ListParts
<1>3. Range(s) = S /\ DOMAIN s = 1 .. n /\ \A i, j \in 1 .. n : s[i] = s[j] => i = j
  <2>1. Range(s) = S /\ IsInjective(s) /\ DOMAIN s = 1 .. n
    BY ListParts, ListRange
  <2>2. QED
    BY <2>1 DEF IsInjective
<1>4. \A p \in S : \E i \in 1 .. n : s[i] = p
  BY ListParts
<1>5. /\ DOMAIN u = 1 .. m + n
      /\ \A i \in 1 .. m + n : u[i] = IF i <= m THEN buf[i] ELSE s[i - m]
  <2> HIDE DEF PairN
  <2>1. /\ u \in Seq(PairN) /\ Len(u) = m + n
        /\ \A i \in 1 .. m + n : u[i] = IF i <= m THEN buf[i] ELSE s[i - m]
    BY <1>1, <1>2, ConcatProperties
  <2> HIDE DEF u, m, n
  <2>2. QED
    BY <2>1
<1>6. BufPairs = {buf[i] : i \in 1 .. m}
  BY DEF BufPairs
<1> HIDE DEF m, n, u
<1>7. \A i \in 1 .. m : buf[i] \in BufPairs
  BY <1>6
<1>8. ASSUME NEW i \in 1 .. m + n
      PROVE  \/ i \in 1 .. m /\ u[i] = buf[i] /\ u[i] \in BufPairs
             \/ i > m /\ i - m \in 1 .. n /\ u[i] = s[i - m] /\ u[i] \in S
  <2>1. CASE i <= m
    BY <1>1, <1>5, <1>7, <2>1
  <2>2. CASE i > m
    <3>1. i - m \in 1 .. n /\ ~ (i <= m)
      BY <1>1, <1>2, <2>2
    <3>2. QED
      BY <1>2, <1>5, <2>2, <3>1
  <2>3. QED
    BY <1>1, <2>1, <2>2
<1>9. \A p \in S : p \notin BufPairs
  OBVIOUS
<1>10. ASSUME NEW i \in 1 .. m + n, NEW j \in 1 .. m + n, u[i] = u[j] PROVE i = j
  <2>1. CASE u[i] \in BufPairs
    <3>1. i \in 1 .. m /\ j \in 1 .. m /\ buf[i] = buf[j]
      BY <1>8, <1>9, <1>10, <2>1
    <3>2. QED
      BY <1>1, <3>1
  <2>2. CASE u[i] \notin BufPairs
    <3>1. i - m \in 1 .. n /\ j - m \in 1 .. n /\ s[i - m] = s[j - m]
      BY <1>8, <1>10, <2>2
    <3>2. i - m = j - m
      BY <1>3, <3>1
    <3>3. QED
      BY <1>1, <3>2
  <2>3. QED
    BY <2>1, <2>2
<1>11. ASSUME NEW p \in BufPairs PROVE \E i \in 1 .. m + n : u[i] = p
  <2>1. PICK i \in 1 .. m : buf[i] = p
    BY <1>6
  <2>2. i \in 1 .. m + n /\ i <= m
    BY <1>1, <1>2
  <2>3. QED
    BY <1>5, <2>1, <2>2
<1>12. ASSUME NEW p \in S PROVE \E i \in 1 .. m + n : u[i] = p
  <2>1. PICK i \in 1 .. n : s[i] = p
    BY <1>4
  <2>2. i + m \in 1 .. m + n /\ ~ (i + m <= m) /\ (i + m) - m = i
    BY <1>1, <1>2
  <2>3. QED
    BY <1>5, <2>1, <2>2
<1>13. \A i \in 1 .. m + n : u[i] \in BufPairs \union S
  BY <1>8
<1>14. Range(u) = BufPairs \union S
  BY <1>5, <1>11, <1>12, <1>13 DEF Range
<1>15. IsInjective(u)
  BY <1>5, <1>10 DEF IsInjective
<1>16. QED
  BY <1>14, <1>15 DEF u

(* What the iterators of the tree list, when there is a tree and before. *)
LEMMA FromTreeLists ==
  ASSUME BInv
  PROVE  /\ Lists(FromTree(C!Iter(clevel)), TreePairs)
         /\ Lists(FromTree(C!NoSortIter(clevel)), TreePairs)
         /\ \A k \in 0 .. MaxKey : /\ Reaches(FromTree(C!IterFrom(clevel, EntryKey, k)), k)
                                   /\ Reaches(FromTree(C!NoSortIterFrom(clevel, k)), k)
<1>1. /\ C!HasSetup(clevel) <=> clevel.root # 0
      /\ clevel.root # 0 => Built(clevel)
      /\ clevel.root = 0 => \A k, v : ~ Holds(clevel.nodes, k, v)
  BY BInvParts
<1>2. CASE clevel.root = 0
  <2>1. \A s : FromTree(s) = <<>>
    BY <1>1, <1>2 DEF FromTree
  <2>2. TreePairs = {}
    BY <1>1, <1>2 DEF TreePairs
  <2>3. Lists(<<>>, TreePairs) /\ \A k : Reaches(<<>>, k)
    BY <2>2, ListNone DEF Reaches
  <2>4. QED
    BY <2>1, <2>3
<1>3. CASE clevel.root # 0
  <2>1. PICK g : Tree(clevel.nodes, clevel.root, g, 0)
    BY <1>1, <1>3 DEF Built
  <2>2. \A s : FromTree(s) = s
    BY <1>1, <1>3 DEF FromTree
  <2>3. Lists(C!Iter(clevel), TreePairs) /\ Lists(C!NoSortIter(clevel), TreePairs)
    BY <2>1, TreeIter
  <2>4. \A p \in TreePairs : p.key >= EntryKey
    <3>1. \A p \in TreePairs : p.key \in 1 .. MaxKey
      BY StoreParts
    <3>2. EntryKey \in 0 .. 1 /\ MaxKey \in Nat
      BY BEntryAssumption
    <3>3. QED
      BY <3>1, <3>2
  <2>5. ASSUME NEW k \in 0 .. MaxKey
        PROVE  Reaches(C!IterFrom(clevel, EntryKey, k), k) /\ Reaches(C!NoSortIterFrom(clevel, k), k)
    <3>1. k \in Nat /\ k < Top
      BY Sizes DEF Top
    <3>2. QED
      BY <2>1, <2>4, <3>1, TreeIterFrom, TreeNoSortFrom
  <2>6. QED
    BY <2>2, <2>3, <2>5
<1>4. QED
  BY <1>2, <1>3

(* The iterator from the start, in both classes. *)
LEMMA AllInOrder ==
  ASSUME BInv
  PROVE  /\ Lists(IterAll, Stored(0))
         /\ Lists(BufIterAll, Stored(0))
         /\ kind # "BEntry" => BufPairs = {}
<1>1. /\ GoodBuf(buf) /\ (kind # "BEntry" => buf = <<>>)
  BY BInvParts
<1>2. /\ BufPairs \union TreePairs = Stored(0)
      /\ \A p \in TreePairs : \A q \in BufPairs : p.key # q.key
  BY StoreParts
<1>3. Lists(FromTree(C!Iter(clevel)), TreePairs) /\ Lists(SortedBuf, BufPairs)
  BY <1>1, FromTreeLists, SortedLists
<1>4. Lists(BufIterAll, TreePairs \union BufPairs)
  BY <1>2, <1>3, MergeLists DEF BufIterAll
<1>5. Lists(BufIterAll, Stored(0))
  BY <1>2, <1>4
<1>6. kind # "BEntry" => BufPairs = {}
  <2>1. 1 .. Len(<<>>) = {}
    OBVIOUS
  <2>2. QED
    BY <1>1, <2>1 DEF BufPairs
<1>7. kind # "BEntry" => Lists(IterAll, Stored(0))
  BY <1>2, <1>3, <1>6 DEF IterAll, NobufIterAll
<1>8. QED
  BY <1>5, <1>6, <1>7 DEF IterAll

(* The iterator from a key. *)
LEMMA FromInOrder ==
  ASSUME BInv, NEW k \in 0 .. MaxKey
  PROVE  Lists(IterFrom(k), Stored(k))
<1>1. /\ BufPairs \union TreePairs = Stored(0)
      /\ \A p \in TreePairs : \A q \in BufPairs : p.key # q.key
      /\ \A p \in Stored(0) : p.key \in 1 .. MaxKey
      /\ k \in Nat /\ Stored(k) = {p \in Stored(0) : p.key >= k}
  BY StoreParts
<1>2. Lists(BufIterAll, Stored(0)) /\ (kind # "BEntry" => BufPairs = {})
  BY AllInOrder
<1>3. PICK S \in SUBSET TreePairs : /\ Lists(FromTree(C!IterFrom(clevel, EntryKey, k)), S)
                                    /\ \A p \in TreePairs : p.key >= k => p \in S
  BY FromTreeLists DEF Reaches
<1>4. {p \in S \union BufPairs : p.key >= k} = Stored(k)
  BY <1>1, <1>3
<1>5. CASE kind = "BEntry" /\ k <= EntryKey
  <2>1. \A p \in Stored(0) : p.key >= k
    <3>1. EntryKey \in 0 .. 1 /\ MaxKey \in Nat
      BY BEntryAssumption
    <3>2. k <= 1
      BY <1>1, <1>5, <3>1
    <3>3. QED
      BY <1>1, <3>1, <3>2
  <2>2. Stored(k) = Stored(0)
    BY <1>1, <2>1
  <2>3. IterFrom(k) = BufIterAll
    BY <1>5 DEF IterFrom, BufIterFrom
  <2>4. QED
    BY <1>2, <2>2, <2>3
<1>6. CASE kind = "BEntry" /\ ~ (k <= EntryKey)
  <2> DEFINE s == Merge(FromTree(C!IterFrom(clevel, EntryKey, k)), SortedBuf)
  <2>1. IterFrom(k) = PassOver(s, k)
    BY <1>6 DEF IterFrom, BufIterFrom
  <2>2. Lists(SortedBuf, BufPairs)
    BY BInvParts, SortedLists
  <2>3. \A p \in S : \A q \in BufPairs : p.key # q.key
    BY <1>1, <1>3
  <2>4. Lists(s, S \union BufPairs)
    BY <1>3, <2>2, <2>3, MergeLists
  <2> HIDE DEF s
  <2>5. Lists(PassOver(s, k), {p \in S \union BufPairs : p.key >= k})
    BY <1>1, <2>4, PassOverLists
  <2>6. QED
    BY <1>4, <2>1, <2>5
<1>7. CASE kind # "BEntry"
  <2> DEFINE s == FromTree(C!IterFrom(clevel, EntryKey, k))
  <2>1. IterFrom(k) = PassOver(s, k)
    BY <1>7 DEF IterFrom, NobufIterFrom
  <2>2. Lists(s, S) /\ S \union BufPairs = S
    BY <1>2, <1>3, <1>7
  <2> HIDE DEF s
  <2>3. Lists(PassOver(s, k), {p \in S \union BufPairs : p.key >= k})
    BY <1>1, <2>2, PassOverLists
  <2>4. QED
    BY <1>4, <2>1, <2>3
<1>8. QED
  BY <1>5, <1>6, <1>7

(* The unordered iterators. *)
LEMMA NoSortOnce ==
  ASSUME BInv, NEW k \in 0 .. MaxKey, NEW s \in {NoSortIter, NoSortIterFrom(k)}
  PROVE  Stored(k) \subseteq Range(s) /\ Range(s) \subseteq Stored(0) /\ IsInjective(s)
<1>1. /\ BufPairs \union TreePairs = Stored(0)
      /\ \A p \in TreePairs : \A q \in BufPairs : p.key # q.key
      /\ k \in Nat /\ Stored(k) = {p \in Stored(0) : p.key >= k}
  BY StoreParts
<1>2. CASE kind = "BEntry"
  <2>1. PICK t : s = buf \o t /\ Reaches(t, k)
    <3>1. Reaches(FromTree(C!NoSortIter(clevel)), k)
      BY FromTreeLists DEF Reaches
    <3>2. Reaches(FromTree(C!NoSortIterFrom(clevel, k)), k)
      BY FromTreeLists
    <3>3. s = buf \o FromTree(C!NoSortIter(clevel)) \/ s = buf \o FromTree(C!NoSortIterFrom(clevel, k))
      BY <1>2 DEF NoSortIter, NoSortIterFrom
    <3>4. QED
      BY <3>1, <3>2, <3>3
  <2>2. PICK S \in SUBSET TreePairs : Lists(t, S) /\ \A p \in TreePairs : p.key >= k => p \in S
    BY <2>1 DEF Reaches
  <2>3. Range(s) = BufPairs \union S /\ IsInjective(s)
    BY <1>1, <2>1, <2>2, BInvParts, BothOnce
  <2>4. QED
    BY <1>1, <2>2, <2>3
<1>3. CASE kind # "BEntry"
  <2>1. s = IterAll \/ s = IterFrom(k)
    BY <1>3 DEF NoSortIter, NoSortIterFrom, IterAll, IterFrom
  <2>2. Lists(s, Stored(0)) \/ Lists(s, Stored(k))
    BY <2>1, AllInOrder, FromInOrder
  <2>3. IsInjective(s) /\ (Range(s) = Stored(0) \/ Range(s) = Stored(k))
    BY <2>2, ListRange
  <2>4. QED
    BY <1>1, <2>3
<1>4. QED
  BY <1>2, <1>3

(* The invariant implies that the iterators yield what the store has. *)
LEMMA BInvIter == BInv => IterationInOrder
<1> SUFFICES ASSUME BInv PROVE IterationInOrder
  OBVIOUS
<1>1. InOrder(IterAll, 0)
  BY AllInOrder, ListInOrder
<1>2. \A k \in 0 .. MaxKey : InOrder(IterFrom(k), k)
  BY FromInOrder, ListInOrder
<1>3. \A k \in 0 .. MaxKey : \A s \in {NoSortIter, NoSortIterFrom(k)} :
        Stored(k) \subseteq Range(s) /\ Range(s) \subseteq Stored(0) /\ IsInjective(s)
  BY NoSortOnce
<1>4. QED
  BY <1>1, <1>2, <1>3 DEF IterationInOrder

(***************************************************************************)
(* BEntry.IterationInOrder: the iterators of both classes, from the start  *)
(* and from each key, yield every pair once, and those of Iter in order,   *)
(* whether a pair is in the buffer or in the tree, and over empty leaves.  *)
(***************************************************************************)
THEOREM IterationAlwaysInOrder == Spec => []IterationInOrder
BY Invariant, BInvIter, PTL

====
