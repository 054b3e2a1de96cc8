----------------------- MODULE PointerBEntry_proofs -----------------------
(***************************************************************************)
(* Theorems about PointerBEntry and its three bucket classes, for every    *)
(* number of pointers, of slots in a bucket and of keys: what each bucket  *)
(* keeps and gives back, then the entry over any one of them, whose        *)
(* invariant is inductive and implies all that the runs check.             *)
(***************************************************************************)
EXTENDS PointerBEntry, TLAPS, FiniteSetTheorems, SequenceTheorems, WellFoundedInduction

(* Least and greatest members. *)
LEMMA Least ==
  ASSUME NEW T \in SUBSET Nat, T # {}
  PROVE  \E n \in T : \A m \in T : n <= m
<1> DEFINE lt == OpToRel(<, Nat)
<1>1. IsWellFoundedOn(lt, Nat)
  BY NatLessThanWellFounded, Zenon
<1>2. \E n \in T : \A m \in T : ~ (<<m, n>> \in lt)
  <2> HIDE DEF lt
  <2>1. QED
    BY <1>1, WFMin
<1>3. PICK n \in T : \A m \in T : ~ (<<m, n>> \in lt)
  BY <1>2
<1>4. ASSUME NEW m \in T PROVE n <= m
  <2>1. m \in Nat /\ n \in Nat
    OBVIOUS
  <2>2. CASE m < n
    <3>1. <<m, n>> \in lt
      BY <2>1, <2>2 DEF OpToRel
    <3>2. QED
      BY <3>1, <1>3
  <2>3. CASE ~ m < n
    BY <2>1, <2>3
  <2>4. QED
    BY <2>2, <2>3
<1>5. QED
  BY <1>4

(* The operator Min on a set of integers with a lower bound: FiniteSetsExt *)
(* defines it by a choice.                                                 *)
LEMMA MinProperty ==
  ASSUME NEW Q \in SUBSET Int, Q # {}, NEW lo \in Int, \A x \in Q : lo <= x
  PROVE  Min(Q) \in Q /\ \A y \in Q : Min(Q) <= y
<1> DEFINE T == {x - lo : x \in Q}
<1>1. T \subseteq Nat /\ T # {}
  <2>1. \A x \in Q : x - lo \in Nat
    <3>1. ASSUME NEW x \in Q PROVE x - lo \in Nat
      <4>1. x \in Int /\ lo <= x
        OBVIOUS
      <4>2. QED
        BY <4>1
    <3>2. QED
      BY <3>1
  <2>2. QED
    BY <2>1, Zenon
<1>2. \E n \in T : \A m \in T : n <= m
  <2> HIDE DEF T
  <2>1. QED
    BY <1>1, Least
<1>3. PICK x \in Q : \A m \in T : x - lo <= m
  BY <1>2
<1>4. ASSUME NEW y \in Q PROVE x <= y
  <2>1. x - lo <= y - lo
    BY <1>3
  <2>2. x \in Int /\ y \in Int
    OBVIOUS
  <2>3. QED
    BY <2>1, <2>2
<1>5. QED
  BY <1>4 DEF Min

(* Max, likewise, under an upper bound. *)
LEMMA MaxProperty ==
  ASSUME NEW Q \in SUBSET Int, Q # {}, NEW hi \in Int, \A x \in Q : x <= hi
  PROVE  Max(Q) \in Q /\ \A y \in Q : y <= Max(Q)
<1> DEFINE T == {hi - x : x \in Q}
<1>1. T \subseteq Nat /\ T # {}
  <2>1. \A x \in Q : hi - x \in Nat
    <3>1. ASSUME NEW x \in Q PROVE hi - x \in Nat
      <4>1. x \in Int /\ x <= hi
        OBVIOUS
      <4>2. QED
        BY <4>1
    <3>2. QED
      BY <3>1
  <2>2. QED
    BY <2>1, Zenon
<1>2. \E n \in T : \A m \in T : n <= m
  <2> HIDE DEF T
  <2>1. QED
    BY <1>1, Least
<1>3. PICK x \in Q : \A m \in T : hi - x <= m
  BY <1>2
<1>4. ASSUME NEW y \in Q PROVE y <= x
  <2>1. hi - x <= hi - y
    BY <1>3
  <2>2. x \in Int /\ y \in Int
    OBVIOUS
  <2>3. QED
    BY <2>1, <2>2
<1>5. QED
  BY <1>4 DEF Max

(* A member that no other is below is the least one. *)
LEMMA MinIs ==
  ASSUME NEW Q \in SUBSET Int, NEW x \in Q, \A y \in Q : x <= y
  PROVE  Min(Q) = x
<1>1. Min(Q) \in Q /\ \A y \in Q : Min(Q) <= y
  BY DEF Min
<1>2. Min(Q) \in Int /\ x \in Int /\ Min(Q) <= x /\ x <= Min(Q)
  BY <1>1
<1>3. QED
  BY <1>2

(* A member that no other is above is the greatest one. *)
LEMMA MaxIs ==
  ASSUME NEW Q \in SUBSET Int, NEW x \in Q, \A y \in Q : y <= x
  PROVE  Max(Q) = x
<1>1. Max(Q) \in Q /\ \A y \in Q : y <= Max(Q)
  BY DEF Max
<1>2. Max(Q) \in Int /\ x \in Int /\ Max(Q) <= x /\ x <= Max(Q)
  BY <1>1
<1>3. QED
  BY <1>2

(* Induction up to n: what 0 has and each number hands on, all have.       *)
LEMMA Induct ==
  ASSUME NEW n \in Nat, NEW G, 0 \in G, \A i \in 0 .. n - 1 : i \in G => i + 1 \in G
  PROVE  \A i \in 0 .. n : i \in G
<1> DEFINE Bad == {i \in 0 .. n : i \notin G}
<1>1. SUFFICES ASSUME Bad # {} PROVE FALSE
  OBVIOUS
<1>2. PICK i \in Bad : \A j \in Bad : i <= j
  <2>1. Bad \in SUBSET Nat
    OBVIOUS
  <2> HIDE DEF Bad
  <2>2. QED
    BY <1>1, <2>1, Least
<1>3. i \in 0 .. n /\ i \notin G /\ i # 0
  OBVIOUS
<1>4. i - 1 \in 0 .. n - 1 /\ i - 1 \in 0 .. n /\ ~ (i <= i - 1) /\ (i - 1) + 1 = i
  BY <1>3
<1>5. i - 1 \in G
  BY <1>2, <1>4
<1>6. QED
  BY <1>3, <1>4, <1>5

(* A function of turns, each of which makes a member of Q of the turn      *)
(* before.                                                                 *)
Turns(f, n, Q, c, F) ==
  /\ f \in [0 .. n -> Q]
  /\ f[0] = c
  /\ \A i \in 1 .. n : f[i] = F[<<f[i - 1], i>>]

(* Such a function exists, whatever a turn F makes of the member before it *)
(* and of its number.                                                      *)
LEMMA TurnsExist ==
  ASSUME NEW n \in Nat, NEW Q, NEW c \in Q, NEW F \in [Q \X (1 .. n) -> Q]
  PROVE  \E f : Turns(f, n, Q, c, F)
<1> DEFINE Fits(f, m) == f[0] = c /\ \A i \in 1 .. m : f[i] = F[<<f[i - 1], i>>]
           G == {m \in 0 .. n : \E f \in [0 .. n -> Q] : Fits(f, m)}
<1>1. 0 \in G
  <2>1. Fits([i \in 0 .. n |-> c], 0)
    OBVIOUS
  <2>2. [i \in 0 .. n |-> c] \in [0 .. n -> Q]
    OBVIOUS
  <2> HIDE DEF Fits
  <2>3. QED
    BY <2>1, <2>2
<1>2. ASSUME NEW m \in 0 .. n - 1, m \in G PROVE m + 1 \in G
  <2>1. PICK f \in [0 .. n -> Q] : Fits(f, m)
    BY <1>2
  <2> DEFINE g == [i \in 0 .. n |-> IF i = m + 1 THEN F[<<f[m], m + 1>>] ELSE f[i]]
  <2>2. m \in Nat /\ m + 1 \in 1 .. n /\ m \in 0 .. n /\ m + 1 \in 0 .. n /\ m # m + 1 /\ 0 # m + 1
    OBVIOUS
  <2>3. f[m] \in Q /\ F[<<f[m], m + 1>>] \in Q
    BY <2>2
  <2>4. g \in [0 .. n -> Q]
    BY <2>3
  <2>5. g[0] = c
    BY <2>1, <2>2
  <2>6. ASSUME NEW i \in 1 .. m + 1 PROVE g[i] = F[<<g[i - 1], i>>]
    <3>1. i \in Nat /\ i \in 0 .. n /\ i - 1 \in 0 .. n /\ i - 1 # m + 1
      BY <2>2
    <3>2. g[i - 1] = f[i - 1]
      BY <3>1
    <3>3. CASE i = m + 1
      <4>1. g[i] = F[<<f[m], m + 1>>] /\ i - 1 = m
        BY <2>2, <3>1, <3>3
      <4>2. QED
        BY <3>2, <3>3, <4>1
    <3>4. CASE i # m + 1
      <4>1. g[i] = f[i] /\ i \in 1 .. m
        BY <2>2, <3>1, <3>4
      <4>2. QED
        BY <2>1, <3>2, <4>1
    <3>5. QED
      BY <3>3, <3>4
  <2> HIDE DEF g
  <2>7. Fits(g, m + 1)
    BY <2>5, <2>6
  <2>8. QED
    BY <2>2, <2>4, <2>7
<1> HIDE DEF G
<1>3. n \in G
  <2>1. \A i \in 0 .. n : i \in G
    BY <1>1, <1>2, Induct
  <2>2. QED
    BY <2>1
<1>4. QED
  BY <1>3 DEF G, Turns

(* A function on 1 .. n is a sequence. *)
LEMMA FunctionSeq ==
  ASSUME NEW n \in Nat, NEW Q, NEW f \in [1 .. n -> Q]
  PROVE  f \in Seq(Q) /\ Len(f) = n
<1>1. f \in Seq(Q)
  OBVIOUS
<1>2. Len(f) \in Nat /\ DOMAIN f = 1 .. Len(f) /\ DOMAIN f = 1 .. n
  BY <1>1, LenProperties
<1>3. QED
  BY <1>1, <1>2

(* The members of Q in the order of their weights: the place of one is the *)
(* number of lighter ones.                                                 *)
LEMMA Ranked ==
  ASSUME NEW Q, IsFiniteSet(Q), NEW w \in [Q -> Int], \A x, y \in Q : w[x] = w[y] => x = y,
         NEW Below \in [Q -> SUBSET Q], \A x, y \in Q : y \in Below[x] <=> w[y] < w[x],
         NEW s,
         \A n \in 1 .. Cardinality(Q) :
           (\E x \in Q : Cardinality(Below[x]) = n - 1)
             => s[n] \in Q /\ Cardinality(Below[s[n]]) = n - 1
  PROVE  /\ Cardinality(Q) \in Nat
         /\ \A n \in 1 .. Cardinality(Q) : s[n] \in Q
         /\ \A m, n \in 1 .. Cardinality(Q) : m < n => w[s[m]] < w[s[n]]
         /\ \A x \in Q : \E n \in 1 .. Cardinality(Q) : s[n] = x
<1> DEFINE N == Cardinality(Q)
           c == [x \in Q |-> Cardinality(Below[x])]
           f == [x \in Q |-> c[x] + 1]
<1>1. N \in Nat
  BY FS_CardinalityType
<1>2. \A x \in Q : IsFiniteSet(Below[x]) /\ c[x] = Cardinality(Below[x]) /\ c[x] \in 0 .. N - 1
  <2> SUFFICES ASSUME NEW x \in Q
               PROVE  IsFiniteSet(Below[x]) /\ Cardinality(Below[x]) \in 0 .. N - 1
    OBVIOUS
  <2>1. Below[x] \in SUBSET (Q \ {x})
    OBVIOUS
  <2>2. IsFiniteSet(Q \ {x}) /\ Cardinality(Q \ {x}) = N - 1
    BY FS_RemoveElement
  <2>3. IsFiniteSet(Below[x]) /\ Cardinality(Below[x]) <= N - 1
    <3>1. QED
      BY <2>1, <2>2, FS_Subset
  <2>4. Cardinality(Below[x]) \in Nat
    <3>1. QED
      BY <2>3, FS_CardinalityType
  <2>5. QED
    BY <1>1, <2>3, <2>4
<1>3. \A x, y \in Q : w[x] < w[y] => c[x] < c[y]
  <2> SUFFICES ASSUME NEW x \in Q, NEW y \in Q, w[x] < w[y] PROVE c[x] < c[y]
    OBVIOUS
  <2> w[x] \in Int /\ w[y] \in Int /\ \A z \in Q : w[z] \in Int
    OBVIOUS
  <2>1. Below[x] \in SUBSET Below[y]
    <3>1. ASSUME NEW z \in Q, w[z] < w[x] PROVE w[z] < w[y]
      <4>1. w[z] \in Int
        OBVIOUS
      <4> HIDE DEF c
      <4>2. QED
        BY <3>1, <4>1
    <3>2. QED
      BY <3>1
  <2>2. x \in Below[y] /\ x \notin Below[x]
    OBVIOUS
  <2> HIDE DEF c
  <2>3. IsFiniteSet(Below[y]) /\ c[x] \in Nat /\ c[y] \in Nat
        /\ c[x] = Cardinality(Below[x]) /\ c[y] = Cardinality(Below[y])
    BY <1>1, <1>2
  <2>4. c[x] <= c[y] /\ (c[y] = c[x] => Below[y] = Below[x])
    BY <2>1, <2>3, FS_Subset
  <2>5. QED
    BY <2>2, <2>3, <2>4
<1>4. \A n \in 1 .. N : (\E x \in Q : c[x] = n - 1) => s[n] \in Q /\ c[s[n]] = n - 1
  OBVIOUS
<1> HIDE DEF c
<1>6. \A x, y \in Q : c[x] = c[y] => x = y
  <2> SUFFICES ASSUME NEW x \in Q, NEW y \in Q, c[x] = c[y] PROVE x = y
    OBVIOUS
  <2>1. c[x] \in Int /\ c[y] \in Int /\ w[x] \in Int /\ w[y] \in Int
    BY <1>1, <1>2
  <2>2. ~ (w[x] < w[y]) /\ ~ (w[y] < w[x])
    BY <1>3, <2>1
  <2>3. w[x] = w[y]
    BY <2>1, <2>2
  <2>4. QED
    BY <2>3
<1>7. f \in [Q -> 1 .. N]
  <2>1. ASSUME NEW x \in Q PROVE c[x] + 1 \in 1 .. N
    <3>1. c[x] \in 0 .. N - 1
      BY <1>2
    <3>2. QED
      BY <1>1, <3>1
  <2>2. QED
    BY <2>1
<1>8. f \in Injection(Q, 1 .. N)
  <2>1. ASSUME NEW x \in Q, NEW y \in Q, f[x] = f[y] PROVE x = y
    <3>1. c[x] \in Int /\ c[y] \in Int
      BY <1>1, <1>2
    <3>2. c[x] = c[y]
      BY <2>1, <3>1
    <3>3. QED
      BY <1>6, <3>2
  <2> HIDE DEF f
  <2>2. QED
    BY <1>7, <2>1 DEF Injection, IsInjective
<1>9. f \in Surjection(Q, 1 .. N)
  <2>1. IsFiniteSet(1 .. N) /\ Cardinality(1 .. N) = N
    BY <1>1, FS_Interval
  <2> HIDE DEF f
  <2>2. QED
    BY <1>8, <2>1, FS_Injection
<1>10. \A n \in 1 .. N : s[n] \in Q /\ c[s[n]] = n - 1
  <2> SUFFICES ASSUME NEW n \in 1 .. N PROVE s[n] \in Q /\ c[s[n]] = n - 1
    OBVIOUS
  <2>1. PICK x \in Q : f[x] = n
    <3> HIDE DEF f
    <3>1. QED
      BY <1>9 DEF Surjection
  <2>2. c[x] \in Int /\ n \in Int
    BY <1>1, <1>2
  <2>3. c[x] = n - 1
    BY <2>1, <2>2
  <2>4. QED
    BY <1>4, <2>3
<1>11. \A m, n \in 1 .. N : m < n => w[s[m]] < w[s[n]]
  <2> SUFFICES ASSUME NEW m \in 1 .. N, NEW n \in 1 .. N, m < n PROVE w[s[m]] < w[s[n]]
    OBVIOUS
  <2>1. s[m] \in Q /\ s[n] \in Q /\ c[s[m]] = m - 1 /\ c[s[n]] = n - 1
    BY <1>10
  <2>2. m \in Int /\ n \in Int
    BY <1>1
  <2>3. c[s[m]] < c[s[n]]
    BY <2>1, <2>2
  <2>4. w[s[m]] \in Int /\ w[s[n]] \in Int /\ c[s[n]] \in Int /\ c[s[m]] \in Int
    <3>1. m - 1 \in Int /\ n - 1 \in Int
      BY <2>2
    <3> HIDE DEF N
    <3>2. QED
      BY <2>1, <3>1
  <2>5. w[s[m]] # w[s[n]]
    <3>1. SUFFICES ASSUME w[s[m]] = w[s[n]] PROVE FALSE
      OBVIOUS
    <3>2. s[m] = s[n]
      BY <2>1, <3>1
    <3>3. c[s[m]] = c[s[n]]
      BY <3>2
    <3>4. QED
      BY ONLY <2>3, <2>4, <3>3
  <2>6. ~ (w[s[n]] < w[s[m]])
    <3>1. SUFFICES ASSUME w[s[n]] < w[s[m]] PROVE FALSE
      OBVIOUS
    <3>2. c[s[n]] < c[s[m]]
      BY <1>3, <2>1, <3>1
    <3>3. QED
      BY <2>3, <2>4, <3>2
  <2>7. QED
    BY <2>4, <2>5, <2>6
<1>12. \A x \in Q : \E n \in 1 .. N : s[n] = x
  <2> SUFFICES ASSUME NEW x \in Q PROVE \E n \in 1 .. N : s[n] = x
    OBVIOUS
  <2>1. f[x] \in 1 .. N /\ f[x] = c[x] + 1 /\ c[x] \in Int
    <3>1. c[x] \in 0 .. N - 1
      BY <1>2
    <3>2. f[x] = c[x] + 1 /\ c[x] \in Int
      BY <1>1, <3>1
    <3>3. f[x] \in 1 .. N
      BY <1>7
    <3>4. QED
      BY <3>2, <3>3
  <2> HIDE DEF f
  <2>2. c[s[f[x]]] = c[x] /\ s[f[x]] \in Q
    BY <1>10, <2>1
  <2>3. s[f[x]] = x
    BY <1>6, <2>2
  <2>4. QED
    BY <2>1, <2>3
<1>13. \A n \in 1 .. N : s[n] \in Q
  BY <1>10
<1>14. QED
  BY <1>1, <1>11, <1>12, <1>13

-----------------------------------------------------------------------------
(* Binary search *)

(* The middle of a range of places. *)
LEMMA Middle ==
  ASSUME NEW l \in Int, NEW r \in Int, l <= r
  PROVE  (l + r) \div 2 \in Int /\ l <= (l + r) \div 2 /\ (l + r) \div 2 <= r
<1>1. (l + r) \div 2 \in Int /\ 2 * ((l + r) \div 2) <= l + r /\ l + r <= 2 * ((l + r) \div 2) + 1
  OBVIOUS
<1>2. QED
  BY <1>1

Spans(M) == (0 .. M) \X (-1 .. M - 1)

(* One turn of the search that the ordered and the indexed bucket make,    *)
(* over the keys ks of M places.                                           *)
SearchTurn(f, ks, k, range) ==
  LET l == range[1]
      r == range[2]
      m == (l + r) \div 2
  IN  IF l > r THEN [find |-> FALSE, pos |-> l]
      ELSE IF ks[m] = k THEN [find |-> TRUE, pos |-> m]
      ELSE IF ks[m] > k THEN f[<<l, m - 1>>] ELSE f[<<m + 1, r>>]

Searches(f, ks, M, k) == f = [range \in Spans(M) |-> SearchTurn(f, ks, k, range)]

(* The places that a turn goes on with. *)
LEMMA SpanHalves ==
  ASSUME NEW M \in Nat, NEW l \in 0 .. M, NEW r \in -1 .. M - 1, l <= r
  PROVE  LET m == (l + r) \div 2
         IN  /\ m \in 0 .. M - 1 /\ l <= m /\ m <= r /\ m \in Int
             /\ m - 1 \in -1 .. M - 1 /\ m + 1 \in 0 .. M
             /\ <<l, m - 1>> \in Spans(M) /\ <<m + 1, r>> \in Spans(M)
<1> DEFINE m == (l + r) \div 2
<1>1. m \in Int /\ l <= m /\ m <= r
  BY Middle
<1> HIDE DEF m
<1>2. m \in 0 .. M - 1 /\ m - 1 \in -1 .. M - 1 /\ m + 1 \in 0 .. M
  BY <1>1
<1>3. QED
  BY <1>1, <1>2 DEF m, Spans

(* A range is the pair of its ends. *)
LEMMA SpanParts ==
  ASSUME NEW M \in Nat, NEW range \in Spans(M)
  PROVE  range[1] \in 0 .. M /\ range[2] \in -1 .. M - 1 /\ range = <<range[1], range[2]>>
BY DEF Spans

(* The pair of two ends is a range. *)
LEMMA SpanPair ==
  ASSUME NEW M \in Nat, NEW l \in 0 .. M, NEW r \in -1 .. M - 1
  PROVE  <<l, r>> \in Spans(M) /\ <<l, r>>[1] = l /\ <<l, r>>[2] = r
BY DEF Spans

(* A search by places. *)
LEMMA SearchAt ==
  ASSUME NEW M \in Nat, NEW ks, NEW k, NEW f, Searches(f, ks, M, k),
         NEW l \in 0 .. M, NEW r \in -1 .. M - 1
  PROVE  f[<<l, r>>] = LET m == (l + r) \div 2
                       IN  IF l > r THEN [find |-> FALSE, pos |-> l]
                           ELSE IF ks[m] = k THEN [find |-> TRUE, pos |-> m]
                           ELSE IF ks[m] > k THEN f[<<l, m - 1>>] ELSE f[<<m + 1, r>>]
<1>1. <<l, r>> \in Spans(M)
  BY SpanPair
<1>2. f[<<l, r>>] = SearchTurn(f, ks, k, <<l, r>>)
  BY <1>1 DEF Searches
<1>3. QED
  BY <1>2 DEF SearchTurn

(* Such a function exists, whatever the keys are: turn after turn the      *)
(* longer ranges become right.                                             *)
LEMMA SearchExists ==
  ASSUME NEW M \in Nat, NEW ks, NEW k
  PROVE  \E f : Searches(f, ks, M, k)
<1> DEFINE Ans == [find : BOOLEAN, pos : Int]
           A == [Spans(M) -> Ans]
           N == M + 2
           Next1(f) == [range \in Spans(M) |-> SearchTurn(f, ks, k, range)]
           F == [t \in A \X (1 .. N) |-> Next1(t[1])]
           c == [range \in Spans(M) |-> [find |-> FALSE, pos |-> range[1]]]
<1>1. ASSUME NEW f \in A PROVE Next1(f) \in A
  <2>1. ASSUME NEW range \in Spans(M) PROVE SearchTurn(f, ks, k, range) \in Ans
    <3> DEFINE l == range[1]
               r == range[2]
               m == (l + r) \div 2
    <3>1. l \in 0 .. M /\ r \in -1 .. M - 1
      BY SpanParts
    <3>2. CASE l > r
      BY <3>1, <3>2 DEF SearchTurn
    <3>3. CASE ~ (l > r)
      <4>1. l <= r
        BY <3>1, <3>3
      <4>2. m \in Int /\ <<l, m - 1>> \in Spans(M) /\ <<m + 1, r>> \in Spans(M)
        BY <3>1, <4>1, SpanHalves
      <4>3. f[<<l, m - 1>>] \in Ans /\ f[<<m + 1, r>>] \in Ans
        BY <4>2
      <4>4. SearchTurn(f, ks, k, range) =
              IF ks[m] = k THEN [find |-> TRUE, pos |-> m]
              ELSE IF ks[m] > k THEN f[<<l, m - 1>>] ELSE f[<<m + 1, r>>]
        BY <3>3 DEF SearchTurn
      <4>5. [find |-> TRUE, pos |-> m] \in Ans
        BY <4>2
      <4> HIDE DEF Ans, m
      <4>6. QED
        BY <4>3, <4>4, <4>5
    <3>4. QED
      BY <3>2, <3>3
  <2> HIDE DEF Ans
  <2>2. QED
    BY <2>1
<1>2. F \in [A \X (1 .. N) -> A]
  <2>1. \A t \in A \X (1 .. N) : Next1(t[1]) \in A
    <3> HIDE DEF Next1, A, N
    <3>1. QED
      BY <1>1
  <2> HIDE DEF Next1, A, N
  <2>2. QED
    BY <2>1
<1>3. c \in A /\ N \in Nat
  <2>1. \A range \in Spans(M) : range[1] \in Int
    BY SpanParts
  <2>2. QED
    BY <2>1
<1>4. PICK f : Turns(f, N, A, c, F)
  <2> HIDE DEF F, A, N, c
  <2>1. QED
    BY <1>2, <1>3, TurnsExist
<1>5. f \in [0 .. N -> A] /\ \A i \in 1 .. N : f[i] = Next1(f[i - 1])
  <2>1. f \in [0 .. N -> A] /\ \A i \in 1 .. N : f[i] = F[<<f[i - 1], i>>]
    BY <1>4 DEF Turns
  <2>2. ASSUME NEW i \in 1 .. N PROVE f[i] = Next1(f[i - 1])
    <3>1. i - 1 \in 0 .. N
      BY <1>3
    <3>2. f[i - 1] \in A
      BY <2>1, <3>1
    <3>3. <<f[i - 1], i>> \in A \X (1 .. N)
      BY <3>2
    <3>4. F[<<f[i - 1], i>>] = Next1(f[i - 1])
      <4> HIDE DEF A, N, Next1
      <4>1. QED
        BY <3>3
    <3>5. QED
      BY <2>1, <3>4
  <2>3. QED
    BY <2>1, <2>2
<1>14. f[0] = c
  BY <1>4 DEF Turns
<1> HIDE DEF F, c, A, Ans
<1> DEFINE Same(g, h, d) == \A l \in 0 .. M, r \in -1 .. M - 1 : r - l < d => g[<<l, r>>] = h[<<l, r>>]
           G == {d \in 0 .. M + 1 : Same(f[d + 1], f[d], d)}
<1>6. ASSUME NEW i \in 0 .. N - 1, NEW l \in 0 .. M, NEW r \in -1 .. M - 1
      PROVE  f[i + 1][<<l, r>>] = SearchTurn(f[i], ks, k, <<l, r>>)
  <2>1. i + 1 \in 1 .. N /\ (i + 1) - 1 = i /\ <<l, r>> \in Spans(M)
    BY <1>3, SpanPair
  <2>2. f[i + 1] = Next1(f[i])
    BY <1>5, <2>1
  <2>3. QED
    BY <2>1, <2>2
<1> HIDE DEF Next1
<1>7. ASSUME NEW d \in 0 .. M, NEW g, NEW h, Same(g, h, d), NEW l \in 0 .. M, NEW r \in -1 .. M - 1, r - l < d + 1
      PROVE  SearchTurn(g, ks, k, <<l, r>>) = SearchTurn(h, ks, k, <<l, r>>)
  <2> DEFINE m == (l + r) \div 2
  <2>1. CASE l > r
    BY <2>1 DEF SearchTurn
  <2>2. CASE ~ (l > r)
    <3>1. l <= r
      BY <2>2
    <3>2. m \in Int /\ l <= m /\ m <= r /\ m - 1 \in -1 .. M - 1 /\ m + 1 \in 0 .. M
      BY <3>1, SpanHalves
    <3> HIDE DEF m
    <3>3. (m - 1) - l < d /\ r - (m + 1) < d
      BY <1>7, <3>2
    <3>4. g[<<l, m - 1>>] = h[<<l, m - 1>>] /\ g[<<m + 1, r>>] = h[<<m + 1, r>>]
      BY <1>7, <3>2, <3>3
    <3>5. QED
      BY <3>4 DEF m, SearchTurn
  <2>3. QED
    BY <2>1, <2>2
<1>8. 0 \in G
  <2>1. Same(f[0 + 1], f[0], 0)
    <3> SUFFICES ASSUME NEW l \in 0 .. M, NEW r \in -1 .. M - 1, r - l < 0
                 PROVE  f[0 + 1][<<l, r>>] = f[0][<<l, r>>]
      OBVIOUS
    <3>1. l > r
      OBVIOUS
    <3>2. 0 \in 0 .. N - 1
      OBVIOUS
    <3>3. f[0 + 1][<<l, r>>] = SearchTurn(f[0], ks, k, <<l, r>>)
      BY <1>6, <3>2
    <3>4. f[0][<<l, r>>] = [find |-> FALSE, pos |-> l]
      BY <1>14, SpanPair DEF c
    <3>5. QED
      BY <3>1, <3>3, <3>4 DEF SearchTurn
  <2>2. QED
    BY <2>1
<1>9. ASSUME NEW d \in 0 .. M, d \in G PROVE d + 1 \in G
  <2>1. Same(f[d + 1], f[d], d)
    BY <1>9
  <2>2. Same(f[(d + 1) + 1], f[d + 1], d + 1)
    <3> SUFFICES ASSUME NEW l \in 0 .. M, NEW r \in -1 .. M - 1, r - l < d + 1
                 PROVE  f[(d + 1) + 1][<<l, r>>] = f[d + 1][<<l, r>>]
      OBVIOUS
    <3>1. d + 1 \in 0 .. N - 1 /\ d \in 0 .. N - 1
      OBVIOUS
    <3>2. /\ f[(d + 1) + 1][<<l, r>>] = SearchTurn(f[d + 1], ks, k, <<l, r>>)
          /\ f[d + 1][<<l, r>>] = SearchTurn(f[d], ks, k, <<l, r>>)
      BY <1>6, <3>1
    <3> HIDE DEF Same
    <3>3. SearchTurn(f[d + 1], ks, k, <<l, r>>) = SearchTurn(f[d], ks, k, <<l, r>>)
      BY <1>7, <2>1
    <3>4. QED
      BY <3>2, <3>3
  <2>3. d + 1 \in 0 .. M + 1
    OBVIOUS
  <2> HIDE DEF Same
  <2>4. QED
    BY <2>2, <2>3
<1>10. M + 1 \in G
  <2>1. M + 1 \in Nat /\ M + 1 \in 0 .. M + 1 /\ (M + 1) - 1 = M
    OBVIOUS
  <2> HIDE DEF G
  <2>2. \A d \in 0 .. M + 1 : d \in G
    BY <1>8, <1>9, <2>1, Induct
  <2>3. QED
    BY <2>1, <2>2
<1>11. Searches(f[M + 1], ks, M, k)
  <2>1. M + 1 \in 0 .. N - 1 /\ M + 1 \in 0 .. N /\ M \in 0 .. N - 1
    OBVIOUS
  <2>2. f[M + 1] \in A
    BY <1>5, <2>1
  <2>3. ASSUME NEW range \in Spans(M)
        PROVE  f[M + 1][range] = SearchTurn(f[M + 1], ks, k, range)
    <3>1. PICK l \in 0 .. M, r \in -1 .. M - 1 : range = <<l, r>>
      BY SpanParts
    <3>2. r - l < M + 1
      BY <3>1
    <3>3. f[M + 1][<<l, r>>] = f[(M + 1) + 1][<<l, r>>]
      BY <1>10, <3>2
    <3>4. f[(M + 1) + 1][<<l, r>>] = SearchTurn(f[M + 1], ks, k, <<l, r>>)
      BY <1>6, <2>1
    <3>5. QED
      BY <3>1, <3>3, <3>4
  <2>4. f[M + 1] = [range \in Spans(M) |-> f[M + 1][range]]
    BY <2>2 DEF A
  <2> HIDE DEF G
  <2>5. QED
    BY <2>3, <2>4 DEF Searches
<1>12. QED
  BY <1>11

(* What is found is there. *)
LEMMA SearchSound ==
  ASSUME NEW M \in Nat, NEW ks, NEW k, NEW f, Searches(f, ks, M, k),
         NEW lo \in 0 .. M, NEW hi \in -1 .. M - 1
  PROVE  LET t == f[<<lo, hi>>]
         IN  t.find \in BOOLEAN /\ (t.find => t.pos \in lo .. hi /\ ks[t.pos] = k)
<1> DEFINE Ok(t, l, r) == t.find \in BOOLEAN /\ (t.find => t.pos \in l .. r /\ ks[t.pos] = k)
           P(d) == \A l \in 0 .. M, r \in -1 .. M - 1 : r - l < d => Ok(f[<<l, r>>], l, r)
           G == {d \in 0 .. M + 1 : P(d)}
<1>1. ASSUME NEW l \in 0 .. M, NEW r \in -1 .. M - 1
      PROVE  f[<<l, r>>] = SearchTurn(f, ks, k, <<l, r>>)
  <2>1. <<l, r>> \in Spans(M)
    BY SpanPair
  <2>2. QED
    BY <2>1 DEF Searches
<1>2. 0 \in G
  <2>1. ASSUME NEW l \in 0 .. M, NEW r \in -1 .. M - 1, r - l < 0 PROVE Ok(f[<<l, r>>], l, r)
    <3>1. l > r
      BY <2>1
    <3>2. f[<<l, r>>] = [find |-> FALSE, pos |-> l]
      BY <1>1, <3>1 DEF SearchTurn
    <3>3. QED
      BY <3>2
  <2>2. QED
    BY <2>1
<1>3. ASSUME NEW d \in 0 .. M, d \in G PROVE d + 1 \in G
  <2>1. ASSUME NEW l \in 0 .. M, NEW r \in -1 .. M - 1, r - l < d + 1 PROVE Ok(f[<<l, r>>], l, r)
    <3> DEFINE m == (l + r) \div 2
    <3>1. CASE l > r
      <4>1. f[<<l, r>>] = [find |-> FALSE, pos |-> l]
        BY <1>1, <3>1 DEF SearchTurn
      <4>2. QED
        BY <4>1
    <3>2. CASE ~ (l > r)
      <4>1. l <= r
        BY <3>2
      <4>2. m \in Int /\ l <= m /\ m <= r /\ m - 1 \in -1 .. M - 1 /\ m + 1 \in 0 .. M
        BY <4>1, SpanHalves
      <4>3. f[<<l, r>>] = IF ks[m] = k THEN [find |-> TRUE, pos |-> m]
                          ELSE IF ks[m] > k THEN f[<<l, m - 1>>] ELSE f[<<m + 1, r>>]
        BY <1>1, <3>2 DEF SearchTurn
      <4> HIDE DEF m
      <4>4. (m - 1) - l < d /\ r - (m + 1) < d
        BY <2>1, <4>2
      <4>5. Ok(f[<<l, m - 1>>], l, m - 1) /\ Ok(f[<<m + 1, r>>], m + 1, r)
        <5> HIDE DEF Ok
        <5>1. QED
          BY <1>3, <4>2, <4>4
      <4>6. Ok(f[<<l, m - 1>>], l, r) /\ Ok(f[<<m + 1, r>>], l, r)
        BY <4>2, <4>5
      <4>7. ks[m] = k => Ok([find |-> TRUE, pos |-> m], l, r)
        BY <4>2
      <4> HIDE DEF Ok
      <4>8. QED
        BY <4>3, <4>6, <4>7
    <3>3. QED
      BY <3>1, <3>2
  <2>2. d + 1 \in 0 .. M + 1
    OBVIOUS
  <2> HIDE DEF Ok
  <2>3. QED
    BY <2>1, <2>2
<1>4. M + 1 \in G
  <2>1. M + 1 \in Nat /\ M + 1 \in 0 .. M + 1 /\ (M + 1) - 1 = M
    OBVIOUS
  <2> HIDE DEF G
  <2>2. \A d \in 0 .. M + 1 : d \in G
    BY <1>2, <1>3, <2>1, Induct
  <2>3. QED
    BY <2>1, <2>2
<1>5. hi - lo < M + 1
  OBVIOUS
<1>6. Ok(f[<<lo, hi>>], lo, hi)
  <2> HIDE DEF Ok
  <2>1. QED
    BY <1>4, <1>5
<1>7. QED
  BY <1>6

(* Over ascending keys it finds what is there, and otherwise the place     *)
(* where it would be.                                                      *)
Sought(t, ks, n, k) ==
  /\ t.find \in BOOLEAN
  /\ t.find => t.pos \in 0 .. n - 1 /\ ks[t.pos] = k
  /\ ~ t.find => /\ t.pos \in 0 .. n
                 /\ \A i \in 0 .. n - 1 : (i < t.pos => ks[i] < k) /\ (i >= t.pos => ks[i] > k)

(* Over ascending keys the search finds the key or the place to put it. *)
LEMMA SearchFinds ==
  ASSUME NEW M \in Nat, NEW n \in 0 .. M, NEW ks, NEW k \in Int, NEW f, Searches(f, ks, M, k),
         \A i \in 0 .. n - 1 : ks[i] \in Int,
         \A i, j \in 0 .. n - 1 : i < j => ks[i] < ks[j]
  PROVE  Sought(f[<<0, n - 1>>], ks, n, k)
<1> DEFINE Around(l, r) == /\ l <= r + 1 /\ r <= n - 1
                           /\ \A i \in 0 .. n - 1 : (i < l => ks[i] < k) /\ (i > r => ks[i] > k)
           P(d) == \A l \in 0 .. M, r \in -1 .. M - 1 :
                     r - l < d /\ Around(l, r) => Sought(f[<<l, r>>], ks, n, k)
           G == {d \in 0 .. M + 1 : P(d)}
<1> DEFINE Mid(l, r) == (l + r) \div 2
<1>1. ASSUME NEW l \in 0 .. M, NEW r \in -1 .. M - 1
      PROVE  f[<<l, r>>] = IF l > r THEN [find |-> FALSE, pos |-> l]
                           ELSE IF ks[Mid(l, r)] = k THEN [find |-> TRUE, pos |-> Mid(l, r)]
                           ELSE IF ks[Mid(l, r)] > k THEN f[<<l, Mid(l, r) - 1>>]
                           ELSE f[<<Mid(l, r) + 1, r>>]
  BY SearchAt
<1> HIDE DEF Mid
<1>2. ASSUME NEW l \in 0 .. M, NEW r \in -1 .. M - 1, l > r, Around(l, r)
      PROVE  Sought(f[<<l, r>>], ks, n, k)
  <2>1. f[<<l, r>>] = [find |-> FALSE, pos |-> l]
    BY <1>1, <1>2
  <2>2. l = r + 1 /\ l \in 0 .. n
    BY <1>2
  <2>3. QED
    BY <1>2, <2>1, <2>2 DEF Sought
<1>3. 0 \in G
  <2>1. ASSUME NEW l \in 0 .. M, NEW r \in -1 .. M - 1, r - l < 0, Around(l, r)
        PROVE  Sought(f[<<l, r>>], ks, n, k)
    <3>1. l > r
      BY <2>1
    <3> HIDE DEF Around
    <3>2. QED
      BY <1>2, <2>1, <3>1
  <2> HIDE DEF Around
  <2>2. QED
    BY <2>1
<1>4. ASSUME NEW d \in 0 .. M, d \in G PROVE d + 1 \in G
  <2>1. ASSUME NEW l \in 0 .. M, NEW r \in -1 .. M - 1, r - l < d + 1, Around(l, r)
        PROVE  Sought(f[<<l, r>>], ks, n, k)
    <3> DEFINE m == Mid(l, r)
    <3>1. CASE l > r
      <4> HIDE DEF Around
      <4>1. QED
        BY <1>2, <2>1, <3>1
    <3>2. CASE ~ (l > r)
      <4>1. l <= r
        BY <3>2
      <4>2. m \in Int /\ l <= m /\ m <= r /\ m - 1 \in -1 .. M - 1 /\ m + 1 \in 0 .. M
        BY <4>1, SpanHalves DEF Mid
      <4>3. f[<<l, r>>] = IF ks[m] = k THEN [find |-> TRUE, pos |-> m]
                          ELSE IF ks[m] > k THEN f[<<l, m - 1>>] ELSE f[<<m + 1, r>>]
        BY <1>1, <3>2
      <4> HIDE DEF m
      <4>4. m \in 0 .. n - 1 /\ ks[m] \in Int
        BY <2>1, <4>2
      <4>5. CASE ks[m] = k
        BY <4>3, <4>4, <4>5 DEF Sought
      <4>6. CASE ks[m] > k
        <5>1. Around(l, m - 1)
          <6>1. ASSUME NEW i \in 0 .. n - 1, i > m - 1 PROVE ks[i] > k
            <7>1. i = m \/ m < i
              BY <4>2, <6>1
            <7>2. m < i => ks[m] < ks[i]
              BY <4>4
            <7>3. ks[i] \in Int
              OBVIOUS
            <7>4. QED
              BY <4>4, <4>6, <7>1, <7>2, <7>3
          <6>2. l <= (m - 1) + 1 /\ m - 1 <= n - 1
            BY <4>2, <4>4
          <6>3. QED
            BY <2>1, <6>1, <6>2
        <5>2. (m - 1) - l < d
          BY <2>1, <4>2
        <5>3. ks[m] # k
          BY <4>4, <4>6
        <5> HIDE DEF Around
        <5>4. QED
          BY <1>4, <4>2, <4>3, <4>6, <5>1, <5>2, <5>3
      <4>7. CASE ks[m] < k
        <5>1. Around(m + 1, r)
          <6>1. ASSUME NEW i \in 0 .. n - 1, i < m + 1 PROVE ks[i] < k
            <7>1. i = m \/ i < m
              BY <4>2, <6>1
            <7>2. i < m => ks[i] < ks[m]
              BY <4>4
            <7>3. ks[i] \in Int
              OBVIOUS
            <7>4. QED
              BY <4>4, <4>7, <7>1, <7>2, <7>3
          <6>2. m + 1 <= r + 1
            BY <4>2
          <6>3. QED
            BY <2>1, <6>1, <6>2
        <5>2. r - (m + 1) < d
          BY <2>1, <4>2
        <5>3. ks[m] # k /\ ~ (ks[m] > k)
          BY <4>4, <4>7
        <5> HIDE DEF Around
        <5>4. QED
          BY <1>4, <4>2, <4>3, <5>1, <5>2, <5>3
      <4>8. QED
        BY <4>4, <4>5, <4>6, <4>7
    <3>3. QED
      BY <3>1, <3>2
  <2>2. d + 1 \in 0 .. M + 1
    OBVIOUS
  <2> HIDE DEF Around
  <2>3. QED
    BY <2>1, <2>2
<1>5. M + 1 \in G
  <2>1. M + 1 \in Nat /\ M + 1 \in 0 .. M + 1 /\ (M + 1) - 1 = M
    OBVIOUS
  <2> HIDE DEF G
  <2>2. \A d \in 0 .. M + 1 : d \in G
    BY <1>3, <1>4, <2>1, Induct
  <2>3. QED
    BY <2>1, <2>2
<1>6. 0 \in 0 .. M /\ n - 1 \in -1 .. M - 1 /\ (n - 1) - 0 < M + 1
  OBVIOUS
<1>7. Around(0, n - 1)
  OBVIOUS
<1> HIDE DEF Around
<1>8. QED
  BY <1>5, <1>6, <1>7

-----------------------------------------------------------------------------
(* Rows of pairs in key order *)

Values == 1 .. 2
Pair == [key : Keys, ptr : Values]

(* The n pairs of f, numbered from 0, ascend in their keys. *)
Row(f, n) ==
  /\ \A i \in 0 .. n - 1 : f[i] \in Pair
  /\ \A i, j \in 0 .. n - 1 : i < j => f[i].key < f[j].key

RowSet(f, n) == {f[i] : i \in 0 .. n - 1}

(* s gives out the pairs of R in key order, each once. *)
Ascends(s, R) ==
  /\ s \in Seq(Pair) /\ Range(s) = R
  /\ \A m, n \in 1 .. Len(s) : m < n => s[m].key < s[n].key

(* The key of a pair is a key, its value a value, and neither is 0. *)
LEMMA PairParts ==
  ASSUME NEW r \in Pair
  PROVE  r.key \in Keys /\ r.key \in Int /\ r.key >= 1 /\ r.key <= MaxKey /\ r.key # 0
         /\ r.ptr \in Values /\ r.ptr \in Int /\ r.ptr # 0 /\ r = [key |-> r.key, ptr |-> r.ptr]
BY PointerBEntryAssumption DEF Pair, Keys, Values

(* A pair from its key and its value. *)
LEMMA PairIs ==
  ASSUME NEW k \in Keys, NEW v \in Values
  PROVE  /\ [key |-> k, ptr |-> v] \in Pair
         /\ [key |-> k, ptr |-> v].key = k /\ [key |-> k, ptr |-> v].ptr = v
BY DEF Pair

(* No key is there twice. *)
LEMMA RowKeys ==
  ASSUME NEW n \in Nat, NEW f, Row(f, n), NEW i \in 0 .. n - 1, NEW j \in 0 .. n - 1
  PROVE  /\ f[i].key \in Int /\ f[j].key \in Int
         /\ f[i].key = f[j].key => i = j
         /\ f[i].key < f[j].key => i < j
<1>1. f[i] \in Pair /\ f[j] \in Pair /\ i \in Int /\ j \in Int
  BY DEF Row
<1>2. f[i].key \in Int /\ f[j].key \in Int
  BY <1>1, PairParts
<1>3. (i < j => f[i].key < f[j].key) /\ (j < i => f[j].key < f[i].key)
  BY DEF Row
<1>4. i < j \/ j < i \/ i = j
  BY <1>1
<1>5. QED
  BY <1>2, <1>3, <1>4

(* A row of n pairs has n members. *)
LEMMA RowCount ==
  ASSUME NEW n \in Nat, NEW f, Row(f, n)
  PROVE  IsFiniteSet(RowSet(f, n)) /\ Cardinality(RowSet(f, n)) = n /\ RowSet(f, n) \subseteq Pair
<1> DEFINE I == 0 .. n - 1
           R == RowSet(f, n)
           h == [i \in I |-> f[i]]
<1>1. IsFiniteSet(I) /\ Cardinality(I) = n
  <2>1. 0 \in Int /\ n - 1 \in Int
    OBVIOUS
  <2>2. IsFiniteSet(0 .. n - 1) /\ Cardinality(0 .. n - 1) = IF 0 > n - 1 THEN 0 ELSE (n - 1) - 0 + 1
    BY <2>1, FS_Interval
  <2>3. QED
    BY <2>2
<1>2. h \in Bijection(I, R)
  <2>1. h \in [I -> R]
    BY DEF RowSet
  <2>2. \A i, j \in I : h[i] = h[j] => i = j
    <3>1. ASSUME NEW i \in I, NEW j \in I, h[i] = h[j] PROVE i = j
      <4>1. f[i].key = f[j].key
        BY <3>1
      <4>2. QED
        BY <4>1, RowKeys
    <3>2. QED
      BY <3>1
  <2>3. \A r \in R : \E i \in I : h[i] = r
    BY DEF RowSet
  <2> HIDE DEF h, I, R
  <2>4. QED
    BY <2>1, <2>2, <2>3 DEF Bijection, Injection, Surjection, IsInjective
<1>3. Cardinality(R) = Cardinality(I) /\ IsFiniteSet(R)
  <2>1. ExistsBijection(I, R)
    BY <1>2 DEF ExistsBijection
  <2> HIDE DEF h, I, R
  <2>2. QED
    BY <1>1, <2>1, FS_Bijection
<1>4. R \subseteq Pair
  BY DEF Row, RowSet
<1>5. QED
  BY <1>1, <1>3, <1>4

(* A pair put in at its place. *)
LEMMA RowInsert ==
  ASSUME NEW n \in Nat, NEW f, Row(f, n), NEW x \in Pair, NEW p \in 0 .. n,
         \A i \in 0 .. n - 1 : (i < p => f[i].key < x.key) /\ (i >= p => x.key < f[i].key),
         NEW g, \A i \in 0 .. n : g[i] = IF i < p THEN f[i] ELSE IF i = p THEN x ELSE f[i - 1]
  PROVE  Row(g, n + 1) /\ RowSet(g, n + 1) = RowSet(f, n) \union {x}
<1>1. \A i \in 0 .. n : /\ i < p => i \in 0 .. n - 1 /\ g[i] = f[i]
                        /\ i = p => g[i] = x
                        /\ i > p => i - 1 \in 0 .. n - 1 /\ i - 1 >= p /\ g[i] = f[i - 1]
  OBVIOUS
<1>2. \A i \in 0 .. n : g[i] \in Pair
  <2>1. ASSUME NEW i \in 0 .. n PROVE g[i] \in Pair
    <3>1. i < p \/ i = p \/ i > p
      OBVIOUS
    <3>2. QED
      BY <1>1, <3>1 DEF Row
  <2>2. QED
    BY <2>1
<1>3. ASSUME NEW i \in 0 .. n, NEW j \in 0 .. n, i < j PROVE g[i].key < g[j].key
  <2>1. x.key \in Int /\ g[i].key \in Int /\ g[j].key \in Int
    BY <1>2, PairParts
  <2>2. CASE j < p
    <3>1. i < p
      BY <1>3, <2>2
    <3>2. QED
      BY <1>1, <1>3, <2>2, <3>1 DEF Row
  <2>3. CASE j = p
    BY <1>1, <1>3, <2>3
  <2>4. CASE j > p /\ i < p
    <3>1. g[i].key < x.key /\ x.key < g[j].key
      BY <1>1, <2>4
    <3>2. QED
      BY <2>1, <3>1
  <2>5. CASE j > p /\ i = p
    BY <1>1, <2>5
  <2>6. CASE i > p
    <3>1. j > p /\ i - 1 < j - 1
      BY <1>3, <2>6
    <3>2. QED
      BY <1>1, <2>6, <3>1 DEF Row
  <2>7. QED
    BY <2>2, <2>3, <2>4, <2>5, <2>6
<1>4. RowSet(g, n + 1) = RowSet(f, n) \union {x}
  <2>1. ASSUME NEW i \in 0 .. n PROVE g[i] \in RowSet(f, n) \union {x}
    <3>1. i < p \/ i = p \/ i > p
      OBVIOUS
    <3>2. QED
      BY <1>1, <3>1 DEF RowSet
  <2>2. ASSUME NEW i \in 0 .. n - 1 PROVE \E j \in 0 .. n : g[j] = f[i]
    <3>1. CASE i < p
      <4>1. i \in 0 .. n
        OBVIOUS
      <4>2. QED
        BY <1>1, <3>1, <4>1
    <3>2. CASE ~ (i < p)
      <4>1. i + 1 \in 0 .. n /\ i + 1 > p /\ (i + 1) - 1 = i
        BY <3>2
      <4>2. QED
        BY <1>1, <4>1
    <3>3. QED
      BY <3>1, <3>2
  <2>3. p \in 0 .. n /\ g[p] = x
    BY <1>1
  <2>4. (n + 1) - 1 = n
    OBVIOUS
  <2>5. RowSet(g, n + 1) = {g[i] : i \in 0 .. n}
    BY <2>4 DEF RowSet
  <2>6. QED
    BY <2>1, <2>2, <2>3, <2>5 DEF RowSet
<1>5. (n + 1) - 1 = n
  OBVIOUS
<1>6. QED
  BY <1>2, <1>3, <1>4, <1>5 DEF Row

(* A pair taken out, the ones above it moving down. *)
LEMMA RowRemove ==
  ASSUME NEW n \in Nat, NEW f, Row(f, n), NEW p \in 0 .. n - 1,
         NEW g, \A i \in 0 .. n - 2 : g[i] = IF i < p THEN f[i] ELSE f[i + 1]
  PROVE  /\ Row(g, n - 1)
         /\ \A r : r \in RowSet(g, n - 1) <=> r \in RowSet(f, n) /\ r.key # f[p].key
<1>1. \A i \in 0 .. n - 2 : /\ i < p => i \in 0 .. n - 1 /\ g[i] = f[i]
                            /\ ~ (i < p) => i + 1 \in 0 .. n - 1 /\ i + 1 > p /\ g[i] = f[i + 1]
  OBVIOUS
<1>2. \A i \in 0 .. n - 2 : g[i] \in Pair
  <2>1. ASSUME NEW i \in 0 .. n - 2 PROVE g[i] \in Pair
    <3>1. i < p \/ ~ (i < p)
      OBVIOUS
    <3>2. QED
      BY <1>1, <3>1 DEF Row
  <2>2. QED
    BY <2>1
<1>3. ASSUME NEW i \in 0 .. n - 2, NEW j \in 0 .. n - 2, i < j PROVE g[i].key < g[j].key
  <2>1. CASE j < p
    <3>1. i < p
      BY <1>3, <2>1
    <3>2. QED
      BY <1>1, <1>3, <2>1, <3>1 DEF Row
  <2>2. CASE ~ (j < p) /\ i < p
    <3>1. i < j + 1
      BY <1>3
    <3>2. QED
      BY <1>1, <2>2, <3>1 DEF Row
  <2>3. CASE ~ (i < p)
    <3>1. ~ (j < p) /\ i + 1 < j + 1
      BY <1>3, <2>3
    <3>2. QED
      BY <1>1, <2>3, <3>1 DEF Row
  <2>4. QED
    BY <2>1, <2>2, <2>3
<1>4. (n - 1) - 1 = n - 2 /\ p \in 0 .. n - 1
  OBVIOUS
<1>5. RowSet(g, n - 1) = {g[i] : i \in 0 .. n - 2}
  BY <1>4 DEF RowSet
<1>6. ASSUME NEW i \in 0 .. n - 2 PROVE g[i] \in RowSet(f, n) /\ g[i].key # f[p].key
  <2>1. CASE i < p
    <3>1. i # p /\ i \in 0 .. n - 1 /\ g[i] = f[i]
      BY <1>1, <2>1
    <3>2. QED
      BY <1>4, <3>1, RowKeys DEF RowSet
  <2>2. CASE ~ (i < p)
    <3>1. i + 1 # p /\ i + 1 \in 0 .. n - 1 /\ g[i] = f[i + 1]
      BY <1>1, <2>2
    <3>2. QED
      BY <1>4, <3>1, RowKeys DEF RowSet
  <2>3. QED
    BY <2>1, <2>2
<1>7. ASSUME NEW i \in 0 .. n - 1, f[i].key # f[p].key PROVE \E j \in 0 .. n - 2 : g[j] = f[i]
  <2>1. i # p
    BY <1>7
  <2>2. CASE i < p
    <3>1. i \in 0 .. n - 2
      BY <2>2
    <3>2. QED
      BY <1>1, <2>2, <3>1
  <2>3. CASE ~ (i < p)
    <3>1. i - 1 \in 0 .. n - 2 /\ ~ (i - 1 < p) /\ (i - 1) + 1 = i
      BY <2>1, <2>3
    <3>2. QED
      BY <1>1, <3>1
  <2>4. QED
    BY <2>2, <2>3
<1>8. \A r : r \in RowSet(g, n - 1) <=> r \in RowSet(f, n) /\ r.key # f[p].key
  <2>1. ASSUME NEW r \in RowSet(g, n - 1) PROVE r \in RowSet(f, n) /\ r.key # f[p].key
    BY <1>5, <1>6
  <2>2. ASSUME NEW r \in RowSet(f, n), r.key # f[p].key PROVE r \in RowSet(g, n - 1)
    <3>1. PICK i \in 0 .. n - 1 : r = f[i]
      BY DEF RowSet
    <3>2. QED
      BY <1>5, <1>7, <2>2, <3>1
  <2>3. QED
    BY <2>1, <2>2
<1>9. QED
  BY <1>2, <1>3, <1>4, <1>8 DEF Row

(* A new value. *)
LEMMA RowUpdate ==
  ASSUME NEW n \in Nat, NEW f, Row(f, n), NEW p \in 0 .. n - 1, NEW v \in Values,
         NEW g, \A i \in 0 .. n - 1 : g[i] = IF i = p THEN [key |-> f[p].key, ptr |-> v] ELSE f[i]
  PROVE  /\ Row(g, n)
         /\ \A r : r \in RowSet(g, n) <=> \/ r \in RowSet(f, n) /\ r.key # f[p].key
                                          \/ r = [key |-> f[p].key, ptr |-> v]
<1> DEFINE x == [key |-> f[p].key, ptr |-> v]
<1>1. f[p] \in Pair /\ x \in Pair /\ x.key = f[p].key
  <2>1. f[p] \in Pair
    BY DEF Row
  <2>2. f[p].key \in Keys
    BY <2>1, PairParts
  <2>3. QED
    BY <2>1, <2>2, PairIs
<1> HIDE DEF x
<1>2. \A i \in 0 .. n - 1 : g[i] \in Pair /\ g[i].key = f[i].key /\ g[i] = IF i = p THEN x ELSE f[i]
  BY <1>1 DEF Row, x
<1>3. Row(g, n)
  BY <1>2 DEF Row
<1>4. \A i \in 0 .. n - 1 : i # p => f[i].key # f[p].key
  BY RowKeys
<1>5. \A r : r \in RowSet(g, n) <=> r = x \/ (r \in RowSet(f, n) /\ r.key # f[p].key)
  <2>1. ASSUME NEW r \in RowSet(g, n) PROVE r = x \/ (r \in RowSet(f, n) /\ r.key # f[p].key)
    <3>1. PICK i \in 0 .. n - 1 : r = g[i]
      BY DEF RowSet
    <3>2. QED
      BY <1>2, <1>4, <3>1 DEF RowSet
  <2>2. ASSUME NEW r \in RowSet(f, n), r.key # f[p].key PROVE r \in RowSet(g, n)
    <3>1. PICK i \in 0 .. n - 1 : r = f[i]
      BY DEF RowSet
    <3>2. i # p
      BY <2>2, <3>1
    <3>3. QED
      BY <1>2, <3>1, <3>2 DEF RowSet
  <2>3. x \in RowSet(g, n)
    BY <1>2 DEF RowSet
  <2>4. QED
    BY <2>1, <2>2, <2>3
<1>6. QED
  BY <1>3, <1>5 DEF x

(* The lower and the upper part of a row. *)
LEMMA RowCut ==
  ASSUME NEW n \in Nat, NEW f, Row(f, n), NEW h \in 0 .. n - 1,
         NEW g, \A i \in 0 .. n - h - 1 : g[i] = f[h + i]
  PROVE  /\ Row(f, h) /\ Row(g, n - h)
         /\ \A r : /\ r \in RowSet(f, h) <=> r \in RowSet(f, n) /\ r.key < f[h].key
                   /\ r \in RowSet(g, n - h) <=> r \in RowSet(f, n) /\ r.key >= f[h].key
<1>1. \A i \in 0 .. h - 1 : i \in 0 .. n - 1 /\ i < h
  OBVIOUS
<1>2. \A i \in 0 .. n - h - 1 : h + i \in 0 .. n - 1 /\ ~ (h + i < h)
  OBVIOUS
<1>3. Row(f, h)
  BY <1>1 DEF Row
<1>4. Row(g, n - h)
  <2>1. \A i \in 0 .. n - h - 1 : g[i] \in Pair
    BY <1>2 DEF Row
  <2>2. ASSUME NEW i \in 0 .. n - h - 1, NEW j \in 0 .. n - h - 1, i < j PROVE g[i].key < g[j].key
    <3>1. h + i \in 0 .. n - 1 /\ h + j \in 0 .. n - 1 /\ h + i < h + j
      BY <2>2
    <3>2. g[i] = f[h + i] /\ g[j] = f[h + j]
      OBVIOUS
    <3>3. QED
      BY <3>1, <3>2 DEF Row
  <2>3. QED
    BY <2>1, <2>2 DEF Row
<1>5. \A i \in 0 .. n - 1 : f[i].key \in Int /\ (f[i].key < f[h].key <=> i < h)
  <2>1. ASSUME NEW i \in 0 .. n - 1 PROVE f[i].key \in Int /\ (f[i].key < f[h].key <=> i < h)
    <3>1. f[i].key \in Int /\ f[h].key \in Int /\ (f[i].key < f[h].key => i < h)
      BY RowKeys
    <3>2. i < h => f[i].key < f[h].key
      BY DEF Row
    <3>3. QED
      BY <3>1, <3>2
  <2>2. QED
    BY <2>1
<1>6. ASSUME NEW r
      PROVE  r \in RowSet(f, h) <=> r \in RowSet(f, n) /\ r.key < f[h].key
  <2>1. ASSUME r \in RowSet(f, h) PROVE r \in RowSet(f, n) /\ r.key < f[h].key
    BY <1>1, <1>5, <2>1 DEF RowSet
  <2>2. ASSUME r \in RowSet(f, n), r.key < f[h].key PROVE r \in RowSet(f, h)
    <3>1. PICK i \in 0 .. n - 1 : r = f[i]
      BY <2>2 DEF RowSet
    <3>2. i \in 0 .. h - 1
      BY <1>5, <2>2, <3>1
    <3>3. QED
      BY <3>1, <3>2 DEF RowSet
  <2>3. QED
    BY <2>1, <2>2
<1>7. ASSUME NEW r
      PROVE  r \in RowSet(g, n - h) <=> r \in RowSet(f, n) /\ r.key >= f[h].key
  <2>0. f[h].key \in Int
    BY <1>5
  <2>1. ASSUME r \in RowSet(g, n - h) PROVE r \in RowSet(f, n) /\ r.key >= f[h].key
    <3>1. PICK i \in 0 .. n - h - 1 : r = f[h + i]
      BY <2>1 DEF RowSet
    <3>2. h + i \in 0 .. n - 1 /\ ~ (h + i < h)
      BY <1>2
    <3>3. f[h + i].key \in Int /\ ~ (f[h + i].key < f[h].key)
      BY <1>5, <3>2
    <3>4. QED
      BY <2>0, <3>1, <3>2, <3>3 DEF RowSet
  <2>2. ASSUME r \in RowSet(f, n), r.key >= f[h].key PROVE r \in RowSet(g, n - h)
    <3>1. PICK i \in 0 .. n - 1 : r = f[i]
      BY <2>2 DEF RowSet
    <3>2. ~ (i < h)
      BY <1>5, <2>0, <2>2, <3>1
    <3>3. i - h \in 0 .. n - h - 1 /\ h + (i - h) = i
      BY <3>2
    <3>4. g[i - h] = f[i]
      BY <3>3
    <3>5. QED
      BY <3>1, <3>3, <3>4 DEF RowSet
  <2>3. QED
    BY <2>1, <2>2
<1>8. QED
  BY <1>3, <1>4, <1>6, <1>7

(* A row from place p on, as a sequence. *)
LEMMA RowFrom ==
  ASSUME NEW n \in Nat, NEW f, Row(f, n), NEW p \in 0 .. n,
         NEW s \in [1 .. n - p -> Pair], \A i \in 1 .. n - p : s[i] = f[p + i - 1], NEW k,
         \A i \in 0 .. n - 1 : (i < p => ~ (f[i].key >= k)) /\ (i >= p => f[i].key >= k),
         NEW R, \A r : r \in R <=> r \in RowSet(f, n) /\ r.key >= k
  PROVE  Ascends(s, R)
<1>1. \A i \in 1 .. n - p : p + i - 1 \in 0 .. n - 1 /\ p + i - 1 >= p
  OBVIOUS
<1>3. s \in Seq(Pair) /\ Len(s) = n - p
  <2>1. n - p \in Nat
    OBVIOUS
  <2>2. QED
    BY <2>1, FunctionSeq
<1>4. ASSUME NEW i \in 1 .. Len(s), NEW j \in 1 .. Len(s), i < j PROVE s[i].key < s[j].key
  <2>1. p + i - 1 \in 0 .. n - 1 /\ p + j - 1 \in 0 .. n - 1 /\ p + i - 1 < p + j - 1
    BY <1>3, <1>4
  <2>2. s[i] = f[p + i - 1] /\ s[j] = f[p + j - 1]
    BY <1>3
  <2>3. QED
    BY <2>1, <2>2 DEF Row
<1>5. ASSUME NEW r PROVE r \in Range(s) <=> r \in RowSet(f, n) /\ r.key >= k
  <2>1. ASSUME r \in Range(s) PROVE r \in RowSet(f, n) /\ r.key >= k
    <3>1. PICK i \in 1 .. n - p : r = s[i]
      BY <2>1 DEF Range
    <3>2. r = f[p + i - 1]
      BY <3>1
    <3>3. QED
      BY <1>1, <3>2 DEF RowSet
  <2>2. ASSUME r \in RowSet(f, n), r.key >= k PROVE r \in Range(s)
    <3>1. PICK i \in 0 .. n - 1 : r = f[i]
      BY <2>2 DEF RowSet
    <3>2. ~ (i < p)
      BY <2>2, <3>1
    <3>3. i - p + 1 \in 1 .. n - p /\ p + (i - p + 1) - 1 = i
      BY <3>2
    <3>4. s[i - p + 1] = f[i]
      BY <3>3
    <3>5. DOMAIN s = 1 .. n - p
      OBVIOUS
    <3>6. QED
      BY <3>1, <3>3, <3>4, <3>5 DEF Range
  <2>3. QED
    BY <2>1, <2>2
<1>6. Range(s) = R
  BY <1>5
<1>7. QED
  BY <1>3, <1>4, <1>6 DEF Ascends

(* The whole row. *)
LEMMA RowAll ==
  ASSUME NEW n \in Nat, NEW f, Row(f, n), NEW s \in [1 .. n -> Pair], \A i \in 1 .. n : s[i] = f[i - 1]
  PROVE  Ascends(s, RowSet(f, n))
<1>1. \A i \in 0 .. n - 1 : f[i].key \in Int /\ f[i].key >= 1
  BY PairParts DEF Row
<1>2. PICK p \in 0 .. n : p = 0
  OBVIOUS
<1>3. \A r : r \in RowSet(f, n) <=> r \in RowSet(f, n) /\ r.key >= 1
  BY <1>1 DEF RowSet
<1>4. n - p = n /\ \A i \in 1 .. n : p + i - 1 = i - 1
  BY <1>2
<1>5. s \in [1 .. n - p -> Pair] /\ \A i \in 1 .. n - p : s[i] = f[p + i - 1]
  BY <1>4
<1>6. \A i \in 0 .. n - 1 : (i < p => ~ (f[i].key >= 1)) /\ (i >= p => f[i].key >= 1)
  BY <1>1, <1>2
<1>7. QED
  BY <1>3, <1>5, <1>6, RowFrom

-----------------------------------------------------------------------------
(* Recursive functions over an interval *)

(* Induction from i up to l. *)
LEMMA InductFrom ==
  ASSUME NEW i \in Int, NEW l \in Int, i <= l, NEW G, i \in G,
         \A j \in i .. l - 1 : j \in G => j + 1 \in G
  PROVE  \A j \in i .. l : j \in G
<1> DEFINE H == {d \in 0 .. l - i : i + d \in G}
<1>1. l - i \in Nat /\ 0 \in H
  OBVIOUS
<1>2. ASSUME NEW d \in 0 .. (l - i) - 1, d \in H PROVE d + 1 \in H
  <2>1. i + d \in i .. l - 1 /\ i + d \in G /\ d + 1 \in 0 .. l - i /\ (i + d) + 1 = i + (d + 1)
    BY <1>2
  <2>2. QED
    BY <2>1
<1> HIDE DEF H
<1>3. \A d \in 0 .. l - i : d \in H
  BY <1>1, <1>2, Induct
<1>4. ASSUME NEW j \in i .. l PROVE j \in G
  <2>1. j - i \in 0 .. l - i /\ i + (j - i) = j
    OBVIOUS
  <2>2. j - i \in H
    BY <1>3, <2>1
  <2>3. QED
    BY <2>1, <2>2 DEF H
<1>5. QED
  BY <1>4

(* A function that starts from c and makes each value of the one before. *)
Steps(g, i, l, Q, c, F) ==
  /\ g \in [i .. l -> Q]
  /\ g = [j \in i .. l |-> IF j = i THEN c ELSE F[<<g[j - 1], j>>]]

(* The recursive definitions of the buckets count on such a function. *)
LEMMA StepsExist ==
  ASSUME NEW i \in Int, NEW l \in Int, i <= l, NEW Q, NEW c \in Q,
         NEW F \in [Q \X (i + 1 .. l) -> Q]
  PROVE  \E g : Steps(g, i, l, Q, c, F)
<1> DEFINE n == l - i
           E == [t \in Q \X (1 .. n) |-> F[<<t[1], t[2] + i>>]]
<1>1. n \in Nat
  OBVIOUS
<1>2. E \in [Q \X (1 .. n) -> Q]
  <2>1. ASSUME NEW t \in Q \X (1 .. n) PROVE F[<<t[1], t[2] + i>>] \in Q
    <3>1. t[1] \in Q /\ t[2] \in 1 .. n
      OBVIOUS
    <3>2. t[2] + i \in i + 1 .. l
      BY <3>1
    <3>3. QED
      BY <3>1, <3>2
  <2>2. QED
    BY <2>1
<1> HIDE DEF E
<1>3. PICK f : Turns(f, n, Q, c, E)
  <2> HIDE DEF n
  <2>1. QED
    BY <1>1, <1>2, TurnsExist
<1> DEFINE g == [j \in i .. l |-> f[j - i]]
<1>4. f \in [0 .. n -> Q] /\ f[0] = c
  BY <1>3 DEF Turns
<1>5. \A j \in i .. l : j - i \in 0 .. n /\ g[j] = f[j - i]
  OBVIOUS
<1>6. g \in [i .. l -> Q]
  BY <1>4, <1>5
<1>7. ASSUME NEW j \in i .. l PROVE g[j] = IF j = i THEN c ELSE F[<<g[j - 1], j>>]
  <2>1. CASE j = i
    BY <1>4, <1>5, <2>1
  <2>2. CASE j # i
    <3>1. j - i \in 1 .. n /\ j - 1 \in i .. l /\ (j - 1) - i = (j - i) - 1 /\ (j - i) + i = j
      BY <2>2
    <3>2. g[j - 1] = f[(j - i) - 1] /\ g[j - 1] \in Q
      BY <1>5, <1>6, <3>1
    <3>3. g[j] = E[<<g[j - 1], j - i>>]
      BY <1>3, <1>5, <3>1, <3>2 DEF Turns
    <3> DEFINE t == <<g[j - 1], j - i>>
    <3>4. t \in Q \X (1 .. n) /\ t[1] = g[j - 1] /\ t[2] = j - i
      <4> HIDE DEF g, n
      <4>1. QED
        BY <3>1, <3>2
    <3>5. E[t] = F[<<t[1], t[2] + i>>]
      BY <3>4 DEF E
    <3>6. QED
      BY <2>2, <3>1, <3>3, <3>4, <3>5
  <2>3. QED
    BY <2>1, <2>2
<1>8. g = [j \in i .. l |-> g[j]]
  OBVIOUS
<1> HIDE DEF g
<1>9. Steps(g, i, l, Q, c, F)
  BY <1>6, <1>7, <1>8 DEF Steps
<1>10. QED
  BY <1>9

-----------------------------------------------------------------------------
(* The ordered bucket *)

Record == [key : 0 .. MaxKey, ptr : 0 .. 2]

SBuckets == [recs : [0 .. MaxEntries - 1 -> Record],
             entries : Nat, last_pos : Nat, next : Nat]

(* The slots that hold a pair, and the pairs. *)
SLive(b) == {i \in 0 .. b.last_pos - 1 : b.recs[i].key # 0}
SPairs(b) == {b.recs[i] : i \in SLive(b)}

(* What holds of it until a Put meets a hole: the pairs ascend, with holes *)
(* between them, and are counted.                                          *)
SGood(b) ==
  /\ b \in SBuckets /\ b.last_pos <= MaxEntries
  /\ \A i \in SLive(b) : b.recs[i] \in Pair
  /\ \A i, j \in SLive(b) : i < j => b.recs[i].key < b.recs[j].key
  /\ b.entries = Cardinality(SLive(b))
  /\ b.last_pos = 0 => b.recs[0].key = 0

(* Without holes it is a row. *)
SClean(b) ==
  /\ b \in SBuckets /\ b.entries = b.last_pos /\ b.entries <= MaxEntries
  /\ Row(b.recs, b.entries)
  /\ b.entries = 0 => b.recs[0].key = 0

(* What the assumption on the constants says of the sizes. *)
LEMMA Sizes ==
  /\ MaxEntries \in Nat /\ MaxEntries >= 2 /\ EntryCount \in Nat /\ EntryCount >= 1
  /\ MaxKey \in Nat /\ Keys = 1 .. MaxKey
  /\ Pair \subseteq Record
BY PointerBEntryAssumption DEF Keys, Pair, Record, Values

(* The two modules mean the same by Max and Min. *)
LEMMA SMaxMin == \A T : S!Max(T) = Max(T) /\ S!Min(T) = Min(T)
BY DEF S!Max, S!Min, Max, Min

(* The fields of an ordered bucket. *)
LEMMA SParts ==
  ASSUME NEW b \in SBuckets
  PROVE  /\ b.recs \in [0 .. MaxEntries - 1 -> Record] /\ b.entries \in Nat
         /\ b.last_pos \in Nat /\ b.next \in Nat
         /\ DOMAIN b.recs = 0 .. MaxEntries - 1
         /\ \A i \in 0 .. MaxEntries - 1 : b.recs[i] \in Record /\ b.recs[i].key \in 0 .. MaxKey
                                           /\ b.recs[i].key \in Int /\ b.recs[i].ptr \in 0 .. 2
                                           /\ b.recs[i] = [key |-> b.recs[i].key, ptr |-> b.recs[i].ptr]
BY Sizes DEF SBuckets, Record

(* The numbers below n are finitely many: n. *)
LEMMA Count ==
  ASSUME NEW n \in Nat
  PROVE  IsFiniteSet(0 .. n - 1) /\ Cardinality(0 .. n - 1) = n
<1>1. 0 \in Int /\ n - 1 \in Int
  OBVIOUS
<1>2. IsFiniteSet(0 .. n - 1) /\ Cardinality(0 .. n - 1) = IF 0 > n - 1 THEN 0 ELSE (n - 1) - 0 + 1
  BY <1>1, FS_Interval
<1>3. QED
  BY <1>2

(* A bucket without holes is a good one. *)
LEMMA SCleanGood ==
  ASSUME NEW b, SClean(b)
  PROVE  SGood(b) /\ SLive(b) = 0 .. b.entries - 1 /\ SPairs(b) = RowSet(b.recs, b.entries)
<1>1. b \in SBuckets /\ b.entries \in Nat /\ b.last_pos = b.entries /\ b.entries <= MaxEntries
  BY SParts DEF SClean
<1>2. \A i \in 0 .. b.entries - 1 : b.recs[i] \in Pair /\ b.recs[i].key # 0
  BY PairParts DEF SClean, Row
<1>3. SLive(b) = 0 .. b.entries - 1
  BY <1>1, <1>2 DEF SLive
<1>4. b.entries = Cardinality(SLive(b))
  BY <1>1, <1>3, Count
<1>5. SGood(b)
  BY <1>1, <1>2, <1>3, <1>4 DEF SGood, SClean, Row
<1>6. QED
  BY <1>3, <1>5 DEF SPairs, RowSet

(* What a good bucket says of its pairs. *)
LEMMA SGoodParts ==
  ASSUME NEW b, SGood(b)
  PROVE  /\ b \in SBuckets /\ b.last_pos \in Nat /\ b.last_pos <= MaxEntries /\ b.entries \in Nat
         /\ \A i \in 0 .. b.last_pos - 1 : i \in 0 .. MaxEntries - 1 /\ b.recs[i].key \in Int
         /\ \A i \in SLive(b) : i \in 0 .. b.last_pos - 1 /\ i \in Int /\ b.recs[i] \in Pair
         /\ IsFiniteSet(SLive(b)) /\ b.entries <= b.last_pos
<1>1. b \in SBuckets /\ b.last_pos \in Nat /\ b.last_pos <= MaxEntries /\ b.entries \in Nat
  BY SParts DEF SGood
<1>2. \A i \in 0 .. b.last_pos - 1 : i \in 0 .. MaxEntries - 1
  BY <1>1, Sizes
<1>3. \A i \in 0 .. b.last_pos - 1 : b.recs[i].key \in Int
  BY <1>1, <1>2, SParts
<1>4. \A i \in SLive(b) : i \in 0 .. b.last_pos - 1 /\ i \in Int /\ b.recs[i] \in Pair
  BY <1>1 DEF SGood, SLive
<1>5. IsFiniteSet(SLive(b)) /\ Cardinality(SLive(b)) <= b.last_pos
  <2>1. SLive(b) \in SUBSET (0 .. b.last_pos - 1)
    BY DEF SLive
  <2>2. QED
    BY <1>1, <2>1, Count, FS_Subset
<1>6. b.entries <= b.last_pos
  BY <1>5 DEF SGood
<1>7. QED
  BY <1>1, <1>2, <1>3, <1>4, <1>5, <1>6

(* A good bucket whose count says that no slot is a hole. *)
LEMMA SGoodClean ==
  ASSUME NEW b, SGood(b), b.entries = b.last_pos
  PROVE  SClean(b)
<1>1. /\ b \in SBuckets /\ b.last_pos \in Nat /\ b.last_pos <= MaxEntries
      /\ \A i \in SLive(b) : b.recs[i] \in Pair
  BY SGoodParts
<1>2. SLive(b) = 0 .. b.last_pos - 1
  <2>1. SLive(b) \in SUBSET (0 .. b.last_pos - 1)
    BY DEF SLive
  <2>2. Cardinality(SLive(b)) = b.last_pos
    BY DEF SGood
  <2>3. QED
    BY <1>1, <2>1, <2>2, Count, FS_Subset
<1>3. Row(b.recs, b.entries)
  BY <1>1, <1>2 DEF Row, SGood
<1>4. QED
  BY <1>1, <1>3 DEF SClean, SGood

(* Keys are there once. *)
LEMMA SKeys ==
  ASSUME NEW b, SGood(b), NEW i \in SLive(b), NEW j \in SLive(b), b.recs[i].key = b.recs[j].key
  PROVE  i = j
<1>1. i \in Int /\ j \in Int /\ b.recs[i].key \in Int /\ b.recs[j].key \in Int
  BY SGoodParts, PairParts
<1>2. ~ (i < j) /\ ~ (j < i)
  BY <1>1 DEF SGood
<1>3. QED
  BY <1>1, <1>2

(* entries counts the pairs. *)
LEMMA SCount ==
  ASSUME NEW b, SGood(b)
  PROVE  /\ b.entries = Cardinality(SPairs(b)) /\ IsFiniteSet(SPairs(b)) /\ SPairs(b) \subseteq Pair
         /\ b.entries \in 0 .. MaxEntries /\ b.next \in Nat
         /\ \A r, t \in SPairs(b) : r.key = t.key => r = t
<1> DEFINE I == SLive(b)
           h == [i \in I |-> b.recs[i]]
<1>1. IsFiniteSet(I) /\ b.entries = Cardinality(I)
  BY SGoodParts DEF SGood
<1>2. h \in Bijection(I, SPairs(b))
  <2>1. h \in [I -> SPairs(b)]
    BY DEF SPairs
  <2>2. \A i, j \in I : h[i] = h[j] => i = j
    <3>1. ASSUME NEW i \in I, NEW j \in I, h[i] = h[j] PROVE i = j
      <4>1. b.recs[i].key = b.recs[j].key
        BY <3>1
      <4>2. QED
        BY <4>1, SKeys
    <3>2. QED
      BY <3>1
  <2>3. \A r \in SPairs(b) : \E i \in I : h[i] = r
    BY DEF SPairs
  <2> HIDE DEF h, I
  <2>4. QED
    BY <2>1, <2>2, <2>3 DEF Bijection, Injection, Surjection, IsInjective
<1>3. Cardinality(SPairs(b)) = Cardinality(I) /\ IsFiniteSet(SPairs(b))
  <2>1. ExistsBijection(I, SPairs(b))
    BY <1>2 DEF ExistsBijection
  <2> HIDE DEF h, I
  <2>2. QED
    BY <1>1, <2>1, FS_Bijection
<1>4. SPairs(b) \subseteq Pair
  BY DEF SPairs, SGood
<1>5. b.entries \in 0 .. MaxEntries /\ b.next \in Nat
  BY SGoodParts, SParts, Sizes
<1>6. ASSUME NEW r \in SPairs(b), NEW t \in SPairs(b), r.key = t.key PROVE r = t
  BY <1>6, SKeys DEF SPairs
<1>7. QED
  BY <1>1, <1>3, <1>4, <1>5, <1>6

(* A new bucket. *)
LEMMA SEmptyIs ==
  /\ SClean(S!Empty) /\ SPairs(S!Empty) = {} /\ S!Empty.entries = 0 /\ S!Empty.next = 0
<1>1. S!Empty \in SBuckets /\ S!Empty.entries = 0 /\ S!Empty.last_pos = 0 /\ S!Empty.next = 0
      /\ S!Empty.recs[0].key = 0
  BY Sizes DEF S!Empty, S!Hole, S!Rec, SBuckets, Record
<1>2. SClean(S!Empty)
  BY <1>1, Sizes DEF SClean, Row
<1>3. SPairs(S!Empty) = {}
  BY <1>1 DEF SPairs, SLive
<1>4. QED
  BY <1>1, <1>2, <1>3

(* Find is such a search. *)
SKeyList(b) == [i \in 0 .. MaxEntries - 1 |-> b.recs[i].key]

(* Find is the search over the keys of the slots. *)
LEMMA SFindIs ==
  ASSUME NEW b, NEW k
  PROVE  \E f : Searches(f, SKeyList(b), MaxEntries, k) /\ S!Find(b, k) = f[<<0, b.entries - 1>>]
<1> DEFINE ks == SKeyList(b)
           Body(f, range) == LET l == range[1]
                                 r == range[2]
                                 m == (l + r) \div 2
                             IN  IF l > r THEN [find |-> FALSE, pos |-> l]
                                 ELSE IF b.recs[m].key = k THEN [find |-> TRUE, pos |-> m]
                                 ELSE IF b.recs[m].key > k THEN f[<<l, m - 1>>] ELSE f[<<m + 1, r>>]
           P(f) == f = [range \in Spans(MaxEntries) |-> Body(f, range)]
<1>1. ASSUME NEW f, NEW range \in Spans(MaxEntries) PROVE Body(f, range) = SearchTurn(f, ks, k, range)
  <2>1. MaxEntries \in Nat
    BY Sizes
  <2>2. CASE range[1] > range[2]
    BY <2>2 DEF SearchTurn
  <2>3. CASE ~ (range[1] > range[2])
    <3>1. (range[1] + range[2]) \div 2 \in 0 .. MaxEntries - 1
      BY <2>1, <2>3, SpanParts, SpanHalves
    <3>2. ks[(range[1] + range[2]) \div 2] = b.recs[(range[1] + range[2]) \div 2].key
      BY <3>1 DEF SKeyList
    <3> HIDE DEF ks
    <3>3. QED
      BY <3>2 DEF SearchTurn
  <2>4. QED
    BY <2>2, <2>3
<1> HIDE DEF ks, Body
<1>2. \A f : P(f) <=> Searches(f, ks, MaxEntries, k)
  <2>1. ASSUME NEW f
        PROVE  [range \in Spans(MaxEntries) |-> Body(f, range)]
                 = [range \in Spans(MaxEntries) |-> SearchTurn(f, ks, k, range)]
    BY <1>1
  <2>2. QED
    BY <2>1 DEF Searches
<1>3. \E f : P(f)
  BY <1>2, Sizes, SearchExists
<1>4. P(CHOOSE f : P(f))
  <2> HIDE DEF P
  <2>1. QED
    BY <1>3
<1>5. S!Find(b, k) = (CHOOSE f : P(f))[<<0, b.entries - 1>>]
  BY DEF S!Find, Spans, Body
<1> HIDE DEF P
<1>6. Searches(CHOOSE f : P(f), ks, MaxEntries, k)
  BY <1>2, <1>4
<1>7. QED
  BY <1>5, <1>6 DEF ks

(* What Find says it found is there, holes or not. *)
LEMMA SFindSound ==
  ASSUME NEW b \in SBuckets, b.entries <= MaxEntries, NEW k
  PROVE  /\ S!Find(b, k).find \in BOOLEAN
         /\ S!Find(b, k).find => S!Find(b, k).pos \in 0 .. b.entries - 1
                                 /\ b.recs[S!Find(b, k).pos].key = k
<1>1. b.entries \in Nat /\ MaxEntries \in Nat
  BY SParts, Sizes
<1>2. PICK f : Searches(f, SKeyList(b), MaxEntries, k) /\ S!Find(b, k) = f[<<0, b.entries - 1>>]
  BY SFindIs
<1>3. 0 \in 0 .. MaxEntries /\ b.entries - 1 \in -1 .. MaxEntries - 1
  BY <1>1
<1>4. /\ S!Find(b, k).find \in BOOLEAN
      /\ S!Find(b, k).find => S!Find(b, k).pos \in 0 .. b.entries - 1
                              /\ SKeyList(b)[S!Find(b, k).pos] = k
  BY <1>1, <1>2, <1>3, SearchSound
<1>5. \A i \in 0 .. b.entries - 1 : SKeyList(b)[i] = b.recs[i].key
  BY <1>1 DEF SKeyList
<1>6. QED
  BY <1>4, <1>5

(* Without holes Find finds what is there. *)
LEMMA SFindClean ==
  ASSUME NEW b, SClean(b), NEW k \in Int
  PROVE  LET t == S!Find(b, k)
         IN  /\ t.find \in BOOLEAN
             /\ t.find => t.pos \in 0 .. b.entries - 1 /\ b.recs[t.pos].key = k
             /\ ~ t.find => /\ t.pos \in 0 .. b.entries
                            /\ \A i \in 0 .. b.entries - 1 : /\ i < t.pos => b.recs[i].key < k
                                                             /\ i >= t.pos => b.recs[i].key > k
<1>1. b.entries \in 0 .. MaxEntries /\ MaxEntries \in Nat /\ b.entries \in Nat
  BY SParts, Sizes DEF SClean
<1>2. PICK f : Searches(f, SKeyList(b), MaxEntries, k) /\ S!Find(b, k) = f[<<0, b.entries - 1>>]
  BY SFindIs
<1> DEFINE ks == SKeyList(b)
           n == b.entries
<1>3. \A i \in 0 .. n - 1 : ks[i] = b.recs[i].key /\ ks[i] \in Int
  <2>1. \A i \in 0 .. n - 1 : i \in 0 .. MaxEntries - 1 /\ b.recs[i] \in Pair
    BY <1>1 DEF SClean, Row
  <2>2. QED
    BY <2>1, PairParts DEF SKeyList
<1>4. \A i, j \in 0 .. n - 1 : i < j => ks[i] < ks[j]
  BY <1>3 DEF SClean, Row
<1> HIDE DEF ks
<1>5. Sought(f[<<0, n - 1>>], ks, n, k)
  BY <1>1, <1>2, <1>3, <1>4, SearchFinds DEF ks
<1>6. QED
  BY <1>2, <1>3, <1>5 DEF Sought

(* Records field by field. *)
SRow(b, R, e, l, x) == b = [recs |-> R, entries |-> e, last_pos |-> l, next |-> x]

(* A bucket made of its fields. *)
LEMMA SRowParts ==
  ASSUME NEW b, NEW R, NEW e, NEW l, NEW x, SRow(b, R, e, l, x)
  PROVE  /\ b.recs = R /\ b.entries = e /\ b.last_pos = l /\ b.next = x
         /\ b \in SBuckets <=> /\ R \in [0 .. MaxEntries - 1 -> Record]
                               /\ e \in Nat /\ l \in Nat /\ x \in Nat
BY DEF SRow, SBuckets

(* A bucket is made of its fields. *)
LEMMA SRowOf ==
  ASSUME NEW b \in SBuckets
  PROVE  SRow(b, b.recs, b.entries, b.last_pos, b.next)
BY DEF SRow, SBuckets

(* The counters after a Put. *)
LEMMA SCountedIs ==
  ASSUME NEW b, NEW R, NEW e, NEW l, NEW x, SRow(b, R, e, l, x)
  PROVE  SRow(S!Counted(b), R, e + 1, l + 1, x)
<1> DEFINE d == [b EXCEPT !.entries = b.entries + 1]
<1>1. S!Counted(b) = [d EXCEPT !.last_pos = d.last_pos + 1]
  BY Zenon DEF S!Counted
<1>2. SRow(d, R, e + 1, l, x)
  BY DEF SRow
<1> HIDE DEF d
<1>3. QED
  BY <1>1, <1>2 DEF SRow

(* A bucket whose first slot is y, the pointer of the second cleared. *)
LEMMA SFirstIs ==
  ASSUME NEW b, NEW R, NEW e, NEW l, NEW x, SRow(b, R, e, l, x), NEW y
  PROVE  SRow([b EXCEPT !.recs[0] = y, !.recs[1].ptr = 0],
              [[R EXCEPT ![0] = y] EXCEPT ![1] = [([R EXCEPT ![0] = y])[1] EXCEPT !.ptr = 0]], e, l, x)
<1> DEFINE d == [b EXCEPT !.recs = [b.recs EXCEPT ![0] = y]]
           Q == [R EXCEPT ![0] = y]
<1>1. [b EXCEPT !.recs[0] = y, !.recs[1].ptr = 0]
        = [d EXCEPT !.recs = [d.recs EXCEPT ![1] = [d.recs[1] EXCEPT !.ptr = 0]]]
  BY Zenon
<1>2. SRow(d, Q, e, l, x)
  BY DEF SRow
<1> HIDE DEF d, Q
<1>3. QED
  BY <1>1, <1>2 DEF SRow, Q

(* Put says Full of a full bucket and changes nothing. *)
LEMMA SPutFull ==
  ASSUME NEW b, b.entries \in Nat, NEW k, NEW v
  PROVE  /\ b.entries >= MaxEntries => S!Put(b, k, v) = [status |-> "Full", b |-> b]
         /\ ~ (b.entries >= MaxEntries) => /\ S!Put(b, k, v).status = "OK"
                                           /\ S!Put(b, k, v).b = S!Counted(S!PutBufKV(b, k, v))
BY DEF S!Put

(* The place where Shift puts a key. *)
SPlace(b, k) == S!Max({i \in 0 .. b.last_pos - 1 : b.recs[i].key <= k} \union {-1}) + 1

(* The place that PutBufKV finds for a key. *)
LEMMA SPlaceIs ==
  ASSUME NEW b, SClean(b), NEW k \in Int, \A i \in 0 .. b.entries - 1 : b.recs[i].key # k
  PROVE  /\ SPlace(b, k) \in 0 .. b.entries
         /\ \A i \in 0 .. b.entries - 1 : /\ i < SPlace(b, k) => b.recs[i].key < k
                                          /\ i >= SPlace(b, k) => k < b.recs[i].key
<1> DEFINE T == {i \in 0 .. b.last_pos - 1 : b.recs[i].key <= k} \union {-1}
           p == SPlace(b, k)
<1>1. b.entries \in Nat /\ b.last_pos = b.entries
  BY SParts DEF SClean
<1>2. \A i \in 0 .. b.entries - 1 : b.recs[i].key \in Int
  BY PairParts DEF SClean, Row
<1>3. T \in SUBSET Int /\ T # {} /\ \A x \in T : x <= b.entries
  BY <1>1
<1>4. PICK m \in T : m = S!Max(T) /\ \A y \in T : y <= m
  <2> HIDE DEF T
  <2>1. \A y \in T : y <= b.entries
    BY <1>3
  <2>3. b.entries \in Int
    BY <1>1
  <2>4. Max(T) \in T /\ \A y \in T : y <= Max(T)
    BY <1>3, <2>1, <2>3, MaxProperty
  <2>2. QED
    BY <2>4, SMaxMin
<1>5. p = m + 1
  BY <1>4 DEF SPlace
<1>6. m \in -1 .. b.entries - 1 /\ (m # -1 => b.recs[m].key <= k)
  BY <1>1, <1>4
<1> HIDE DEF p
<1>7. p \in 0 .. b.entries /\ m = p - 1
  BY <1>1, <1>5, <1>6
<1>8. ASSUME NEW i \in 0 .. b.entries - 1, i < p PROVE b.recs[i].key < k
  <2>1. m \in 0 .. b.entries - 1 /\ b.recs[m].key <= k /\ (i < m \/ i = m)
    BY <1>1, <1>6, <1>7, <1>8
  <2>2. b.recs[i].key <= b.recs[m].key
    BY <1>2, <2>1 DEF SClean, Row
  <2>3. QED
    BY <1>2, <2>1, <2>2
<1>9. ASSUME NEW i \in 0 .. b.entries - 1, i >= p PROVE k < b.recs[i].key
  <2>1. ~ (i \in T)
    BY <1>1, <1>4, <1>7, <1>9
  <2>2. ~ (b.recs[i].key <= k)
    BY <1>1, <2>1
  <2>3. QED
    BY <1>2, <2>2
<1>10. QED
  BY <1>7, <1>8, <1>9 DEF p

(* A Put into a bucket without holes and not full makes room in the row. *)
LEMMA SPutClean ==
  ASSUME NEW b, SClean(b), ~ (b.entries >= MaxEntries), NEW k \in Keys, NEW v \in Values,
         \A r \in SPairs(b) : r.key # k
  PROVE  LET c == S!Counted(S!PutBufKV(b, k, v))
         IN  /\ SClean(c) /\ c.next = b.next /\ c.entries = b.entries + 1
             /\ SPairs(c) = SPairs(b) \union {[key |-> k, ptr |-> v]}
<1> DEFINE c == S!Counted(S!PutBufKV(b, k, v))
           n == b.entries
           x == [key |-> k, ptr |-> v]
           p == SPlace(b, k)
<1>1. /\ b \in SBuckets /\ n \in Nat /\ b.last_pos = n /\ n < MaxEntries /\ MaxEntries \in Nat
      /\ MaxEntries >= 2 /\ b.recs \in [0 .. MaxEntries - 1 -> Record] /\ b.next \in Nat
      /\ Row(b.recs, n)
  BY SParts, Sizes DEF SClean
<1>2. x \in Pair /\ x.key = k /\ x \in Record /\ k \in Int /\ S!Rec(k, v) = x /\ x.ptr = v
  BY PairIs, PairParts, Sizes DEF S!Rec
<1>3. \A i \in 0 .. n - 1 : b.recs[i].key # k
  BY SCleanGood DEF RowSet
<1>4. /\ p \in 0 .. n
      /\ \A i \in 0 .. n - 1 : (i < p => b.recs[i].key < x.key) /\ (i >= p => x.key < b.recs[i].key)
  BY <1>2, <1>3, SPlaceIs
<1> HIDE DEF p
<1>5. /\ c.recs \in [0 .. MaxEntries - 1 -> Record] /\ SRow(c, c.recs, n + 1, n + 1, b.next)
      /\ \A i \in 0 .. n : c.recs[i] = IF i < p THEN b.recs[i] ELSE IF i = p THEN x ELSE b.recs[i - 1]
  <2>1. CASE n = 0
    <3> DEFINE g == [b.recs EXCEPT ![0] = x]
               q == [g[1] EXCEPT !.ptr = 0]
               h == [g EXCEPT ![1] = q]
    <3>1. 0 \in 0 .. MaxEntries - 1 /\ 1 \in 0 .. MaxEntries - 1 /\ 0 # 1
      BY <1>1
    <3>2. g \in [0 .. MaxEntries - 1 -> Record] /\ g[1] \in Record /\ g[0] = x
      BY <1>1, <1>2, <3>1
    <3>3. q \in Record
      <4> HIDE DEF g
      <4>1. QED
        BY <3>2 DEF Record
    <3>4. h \in [0 .. MaxEntries - 1 -> Record] /\ h[0] = x
      <4> HIDE DEF g, q
      <4>1. QED
        BY <3>1, <3>2, <3>3
    <3>5. S!PutBufKV(b, k, v) = [b EXCEPT !.recs[0] = x, !.recs[1].ptr = 0]
      BY <1>2, <2>1 DEF S!PutBufKV
    <3>6. SRow(S!PutBufKV(b, k, v), h, n, n, b.next)
      <4>1. SRow(b, b.recs, n, n, b.next)
        BY <1>1, SRowOf
      <4>2. SRow([b EXCEPT !.recs[0] = x, !.recs[1].ptr = 0], h, n, n, b.next)
        BY <4>1, SFirstIs, Zenon
      <4>3. QED
        BY <3>5, <4>2, Zenon
    <3>7. SRow(c, h, n + 1, n + 1, b.next)
      BY <3>6, SCountedIs
    <3> HIDE DEF h, c
    <3>8. p = 0
      BY <1>4, <2>1
    <3>9. QED
      BY <1>1, <2>1, <3>4, <3>7, <3>8, SRowParts
  <2>2. CASE n # 0
    <3>1. S!Compact(b) = b
      BY <1>1 DEF S!Compact
    <3>2. S!PutBufKV(b, k, v) = S!Shift(b, k, v)
      BY <2>2, <3>1 DEF S!PutBufKV
    <3> DEFINE h == [i \in DOMAIN b.recs |-> CASE i = p -> x
                                               [] i > p /\ i <= b.last_pos -> b.recs[i - 1]
                                               [] OTHER -> b.recs[i]]
    <3>3. S!Shift(b, k, v) = [b EXCEPT !.recs = h]
      BY <1>2 DEF S!Shift, SPlace, S!Used, p
    <3>4. DOMAIN b.recs = 0 .. MaxEntries - 1
      BY <1>1
    <3>5. \A i \in 0 .. MaxEntries - 1 : h[i] = IF i = p THEN x ELSE IF i > p /\ i <= n THEN b.recs[i - 1]
                                                                ELSE b.recs[i]
      BY <1>1, <3>4
    <3>6. h \in [0 .. MaxEntries - 1 -> Record]
      <4>1. \A i \in 0 .. MaxEntries - 1 : i > p /\ i <= n => i - 1 \in 0 .. MaxEntries - 1
        BY <1>1, <1>4
      <4>2. \A i \in 0 .. MaxEntries - 1 : h[i] \in Record
        BY <1>1, <1>2, <3>5, <4>1
      <4>3. DOMAIN h = 0 .. MaxEntries - 1 /\ h = [i \in DOMAIN h |-> h[i]]
        BY <3>4
      <4> HIDE DEF h
      <4>4. QED
        BY <4>2, <4>3
    <3> HIDE DEF h
    <3>7. SRow(c, h, n + 1, n + 1, b.next)
      <4>1. SRow([b EXCEPT !.recs = h], h, n, n, b.next)
        BY <1>1, SRowOf DEF SRow
      <4>2. QED
        BY <3>2, <3>3, <4>1, SCountedIs
    <3> HIDE DEF c
    <3>8. ASSUME NEW i \in 0 .. n
          PROVE  h[i] = IF i < p THEN b.recs[i] ELSE IF i = p THEN x ELSE b.recs[i - 1]
      BY <1>1, <1>4, <3>5
    <3>9. c.recs = h
      BY <3>7, SRowParts
    <3>10. QED
      BY <3>6, <3>7, <3>8, <3>9
  <2>3. QED
    BY <2>1, <2>2
<1> HIDE DEF c
<1>6. Row(c.recs, n + 1) /\ RowSet(c.recs, n + 1) = RowSet(b.recs, n) \union {x}
  <2> DEFINE f == b.recs
             g == c.recs
  <2>1. Row(f, n) /\ \A i \in 0 .. n : g[i] = IF i < p THEN f[i] ELSE IF i = p THEN x ELSE f[i - 1]
    BY <1>1, <1>5
  <2>0. Row(f, n) /\ x \in Pair /\ x.key = k /\ n \in Nat
    BY <1>1, <1>2
  <2>5. \A i \in 0 .. n - 1 : (i < p => f[i].key < x.key) /\ (i >= p => x.key < f[i].key)
    BY <1>4
  <2> HIDE DEF f, g, n, x
  <2>2. Row(g, n + 1) /\ RowSet(g, n + 1) = RowSet(f, n) \union {x}
    BY <1>4, <2>0, <2>1, <2>5, RowInsert
  <2>3. QED
    BY <2>2 DEF f, g
<1>7. c \in SBuckets /\ c.entries = n + 1 /\ c.last_pos = n + 1 /\ c.next = b.next
  BY <1>1, <1>5, SRowParts
<1>8. SClean(c)
  BY <1>1, <1>6, <1>7 DEF SClean
<1>9. SPairs(c) = SPairs(b) \union {x}
  BY <1>1, <1>6, <1>7, <1>8, SCleanGood
<1>10. QED
  BY <1>7, <1>8, <1>9 DEF c

(* Get: the first slot whose key is not below k.  A hole, of key 0, is. *)
LEMMA SGet ==
  ASSUME NEW b, SGood(b), NEW k \in Keys
  PROVE  /\ \A r \in SPairs(b) : r.key = k => S!Get(b, k) = r.ptr
         /\ (\A r \in SPairs(b) : r.key # k) => S!Get(b, k) = 0
<1> DEFINE T == {j \in 0 .. b.last_pos - 1 : b.recs[j].key >= k} \union {b.last_pos}
<1>1. /\ b.last_pos \in Nat /\ b.last_pos <= MaxEntries /\ MaxEntries \in Nat /\ k \in Int /\ k # 0
      /\ \A i \in 0 .. b.last_pos - 1 : b.recs[i].key \in Int
  BY SGoodParts, Sizes
<1>2. T \in SUBSET Int /\ T # {} /\ \A x \in T : 0 <= x
  BY <1>1
<1>3. PICK i \in T : i = S!Min(T) /\ \A y \in T : i <= y
  <2> HIDE DEF T
  <2>1. Min(T) \in T /\ \A y \in T : Min(T) <= y
    BY <1>2, MinProperty
  <2>2. QED
    BY <2>1, SMaxMin
<1>4. S!LinearFind(b, k) = [find |-> i < b.last_pos /\ S!At(b, i).key = k, pos |-> i]
  BY <1>3 DEF S!LinearFind, S!Used
<1>5. i \in Int /\ (i < b.last_pos => /\ i \in 0 .. b.last_pos - 1 /\ S!At(b, i) = b.recs[i]
                                      /\ b.recs[i].key >= k /\ i \in SLive(b))
  <2>1. CASE i = b.last_pos
    <3>1. i \in Int /\ ~ (i < b.last_pos)
      BY <1>1, <2>1
    <3>2. QED
      BY <3>1
  <2>2. CASE i \in 0 .. b.last_pos - 1 /\ b.recs[i].key >= k
    <3>1. i \in Int /\ i < MaxEntries
      BY <1>1, <2>2
    <3>2. b.recs[i].key # 0
      BY <1>1, <2>2 DEF Keys
    <3>3. QED
      BY <2>2, <3>1, <3>2 DEF S!At, SLive
  <2>3. QED
    BY <1>3, <2>1, <2>2
<1>6. S!Get(b, k) = IF i < b.last_pos /\ b.recs[i].key = k THEN b.recs[i].ptr ELSE 0
  <2> DEFINE lf == S!LinearFind(b, k)
             C == i < b.last_pos /\ S!At(b, i).key = k
  <2>1. lf = [find |-> C, pos |-> i]
    BY <1>4
  <2>2. S!Get(b, k) = IF lf.find THEN b.recs[lf.pos].ptr ELSE 0
    BY DEF S!Get
  <2> HIDE DEF lf, C
  <2>3. lf.pos = i
    BY <2>1
  <2>4. lf.find = C
    BY <2>1, Zenon
  <2>5. S!Get(b, k) = IF C THEN b.recs[i].ptr ELSE 0
    BY <2>2, <2>3, <2>4, Zenon
  <2>6. C <=> i < b.last_pos /\ b.recs[i].key = k
    BY <1>5 DEF C
  <2>7. QED
    BY <2>5, <2>6
<1>7. ASSUME NEW r \in SPairs(b), r.key = k PROVE S!Get(b, k) = r.ptr
  <2>1. PICK j \in SLive(b) : r = b.recs[j]
    BY DEF SPairs
  <2>2. j \in 0 .. b.last_pos - 1 /\ j \in Int /\ b.recs[j].key = k
    BY <1>7, <2>1 DEF SLive
  <2>3. j \in T
    BY <1>1, <2>2
  <2>4. i <= j
    BY <1>3, <2>3
  <2>5. i < b.last_pos /\ i \in SLive(b) /\ b.recs[i].key >= k
    BY <1>1, <1>5, <2>2, <2>4
  <2>6. ~ (i < j)
    BY <1>1, <1>5, <2>1, <2>2, <2>5 DEF SGood
  <2>7. i = j
    BY <1>5, <2>2, <2>4, <2>6
  <2>8. QED
    BY <1>6, <2>1, <2>2, <2>5, <2>7
<1>8. ASSUME \A r \in SPairs(b) : r.key # k PROVE S!Get(b, k) = 0
  <2>1. ASSUME i < b.last_pos, b.recs[i].key = k PROVE FALSE
    BY <1>5, <1>8, <2>1 DEF SPairs
  <2>2. QED
    BY <1>6, <2>1
<1>9. QED
  BY <1>7, <1>8

(* A new value in a live slot. *)
LEMMA SChange ==
  ASSUME NEW b, SGood(b), NEW p \in SLive(b), NEW v \in Values, NEW c,
         SRow(c, [b.recs EXCEPT ![p] = [key |-> b.recs[p].key, ptr |-> v]],
              b.entries, b.last_pos, b.next)
  PROVE  /\ SGood(c) /\ c.next = b.next /\ c.entries = b.entries /\ c.last_pos = b.last_pos
         /\ \A t : t \in SPairs(c) <=> \/ t \in SPairs(b) /\ t.key # b.recs[p].key
                                       \/ t = [key |-> b.recs[p].key, ptr |-> v]
<1> DEFINE y == [key |-> b.recs[p].key, ptr |-> v]
           R == [b.recs EXCEPT ![p] = y]
<1>1. /\ b \in SBuckets /\ b.last_pos \in Nat /\ b.last_pos <= MaxEntries /\ b.entries \in Nat
      /\ p \in 0 .. b.last_pos - 1 /\ p \in 0 .. MaxEntries - 1 /\ b.recs[p] \in Pair
  BY SGoodParts
<1>2. b.recs \in [0 .. MaxEntries - 1 -> Record] /\ b.next \in Nat
  BY <1>1, SParts
<1>3. y \in Pair /\ y \in Record /\ y.key = b.recs[p].key /\ y.key # 0
  BY <1>1, PairParts, PairIs, Sizes
<1>4. R \in [0 .. MaxEntries - 1 -> Record]
      /\ \A i \in 0 .. MaxEntries - 1 : R[i] = IF i = p THEN y ELSE b.recs[i]
  <2> HIDE DEF y
  <2>1. QED
    BY <1>1, <1>2, <1>3
<1> HIDE DEF R, y
<1>5. /\ c.recs = R /\ c.entries = b.entries /\ c.last_pos = b.last_pos /\ c.next = b.next
      /\ c \in SBuckets
  <2>1. SRow(c, R, b.entries, b.last_pos, b.next)
    BY DEF R, y
  <2>2. QED
    BY <1>1, <1>2, <1>4, <2>1, SRowParts
<1>6. \A i \in 0 .. b.last_pos - 1 : i \in 0 .. MaxEntries - 1 /\ c.recs[i].key = b.recs[i].key
                                     /\ c.recs[i] = IF i = p THEN y ELSE b.recs[i]
  <2>1. \A i \in 0 .. b.last_pos - 1 : i \in 0 .. MaxEntries - 1
    BY SGoodParts
  <2>2. QED
    BY <1>3, <1>4, <1>5, <2>1
<1>7. SLive(c) = SLive(b) /\ \A i \in SLive(b) : i \in 0 .. b.last_pos - 1
  <2>1. SLive(c) = {i \in 0 .. b.last_pos - 1 : c.recs[i].key # 0}
    BY <1>5 DEF SLive
  <2>2. {i \in 0 .. b.last_pos - 1 : c.recs[i].key # 0} = {i \in 0 .. b.last_pos - 1 : b.recs[i].key # 0}
    BY <1>6
  <2>3. QED
    BY <2>1, <2>2 DEF SLive
<1>8. SGood(c)
  <2>1. \A i \in SLive(c) : c.recs[i] \in Pair
    BY <1>3, <1>6, <1>7 DEF SGood
  <2>2. \A i, j \in SLive(c) : i < j => c.recs[i].key < c.recs[j].key
    BY <1>6, <1>7 DEF SGood
  <2>3. c.last_pos = 0 => c.recs[0].key = 0
    BY <1>1, <1>5
  <2>4. QED
    BY <1>1, <1>5, <1>7, <2>1, <2>2, <2>3 DEF SGood
<1>9. ASSUME NEW t \in SPairs(c) PROVE (t \in SPairs(b) /\ t.key # b.recs[p].key) \/ t = y
  <2>1. PICK i \in SLive(c) : t = c.recs[i]
    BY DEF SPairs
  <2>2. CASE i = p
    BY <1>6, <1>7, <2>1, <2>2
  <2>3. CASE i # p
    <3>1. t = b.recs[i] /\ i \in SLive(b)
      BY <1>6, <1>7, <2>1, <2>3
    <3>2. t.key # b.recs[p].key
      BY <2>3, <3>1, SKeys
    <3>3. QED
      BY <3>1, <3>2 DEF SPairs
  <2>4. QED
    BY <2>2, <2>3
<1>10. ASSUME NEW t \in SPairs(b), t.key # b.recs[p].key PROVE t \in SPairs(c)
  <2>1. PICK i \in SLive(b) : t = b.recs[i]
    BY DEF SPairs
  <2>2. i # p
    BY <1>10, <2>1
  <2>3. t = c.recs[i] /\ i \in SLive(c)
    BY <1>6, <1>7, <2>1, <2>2
  <2>4. QED
    BY <2>3 DEF SPairs
<1>11. y \in SPairs(c)
  BY <1>6, <1>7 DEF SPairs
<1>12. QED
  BY <1>5, <1>8, <1>9, <1>10, <1>11 DEF y

(* Update says OK of a key that is there; among holes it may miss one. *)
LEMMA SUpdate ==
  ASSUME NEW b, SGood(b), NEW k \in Keys, NEW v \in Values
  PROVE  LET r == S!Update(b, k, v)
         IN  /\ r.status \in {"OK", "NoExist"} /\ (r.status = "NoExist" => r.b = b)
             /\ r.status = "OK" =>
                  /\ SGood(r.b) /\ r.b.next = b.next /\ r.b.entries = b.entries
                  /\ \E q \in SPairs(b) : q.key = k
                  /\ \A t : t \in SPairs(r.b) <=> \/ t \in SPairs(b) /\ t.key # k
                                                  \/ t = [key |-> k, ptr |-> v]
             /\ SClean(b) => SClean(r.b)
             /\ SClean(b) /\ (\E q \in SPairs(b) : q.key = k) => r.status = "OK"
<1> DEFINE r == S!Update(b, k, v)
           f == S!Find(b, k)
           p == f.pos
<1>1. b \in SBuckets /\ b.entries \in Nat /\ b.last_pos \in Nat /\ b.entries <= b.last_pos
      /\ b.last_pos <= MaxEntries /\ MaxEntries \in Nat
  BY SGoodParts, Sizes
<1>2. k \in Int /\ k # 0
  BY Sizes
<1>3. f.find \in BOOLEAN /\ (f.find => p \in 0 .. b.entries - 1 /\ b.recs[p].key = k)
  BY <1>1, SFindSound
<1>4. f.find => p \in SLive(b) /\ b.recs[p] \in Pair /\ b.recs[p].ptr # 0
  <2>1. f.find => p \in SLive(b)
    BY <1>1, <1>2, <1>3 DEF SLive
  <2>2. QED
    BY <2>1, SGoodParts, PairParts
<1>5. CASE ~ f.find
  <2>1. r.status = "NoExist" /\ r.b = b
    BY <1>5 DEF S!Update
  <2>2. ASSUME SClean(b), NEW q \in SPairs(b), q.key = k PROVE FALSE
    <3>1. PICK i \in 0 .. b.entries - 1 : q = b.recs[i]
      BY <2>2, SCleanGood DEF RowSet
    <3>2. f.pos \in 0 .. b.entries /\ (i < f.pos => b.recs[i].key < k)
          /\ (i >= f.pos => b.recs[i].key > k)
      BY <1>2, <1>5, <2>2, SFindClean
    <3>3. b.recs[i].key = k /\ (i < f.pos \/ i >= f.pos)
      BY <1>1, <2>2, <3>1, <3>2
    <3>4. QED
      BY <1>2, <3>2, <3>3
  <2>3. QED
    BY <2>1, <2>2
<1>6. CASE f.find
  <2> DEFINE c == [b EXCEPT !.recs[p].ptr = v]
             R == [b.recs EXCEPT ![p] = [key |-> b.recs[p].key, ptr |-> v]]
  <2>1. r.status = "OK" /\ r.b = c
    BY <1>4, <1>6 DEF S!Update
  <2>2. [b.recs[p] EXCEPT !.ptr = v] = [key |-> b.recs[p].key, ptr |-> v]
    <3>1. b.recs[p] = [key |-> b.recs[p].key, ptr |-> b.recs[p].ptr]
      BY <1>4, <1>6, PairParts
    <3>2. \A x, y : [([key |-> x, ptr |-> y]) EXCEPT !.ptr = v] = [key |-> x, ptr |-> v]
      OBVIOUS
    <3>3. QED
      BY <3>1, <3>2
  <2>3. SRow(c, R, b.entries, b.last_pos, b.next)
    <3>1. c = [b EXCEPT !.recs = [b.recs EXCEPT ![p] = [b.recs[p] EXCEPT !.ptr = v]]]
      BY Zenon
    <3>2. c = [b EXCEPT !.recs = R]
      BY <2>2, <3>1, Zenon
    <3>3. SRow([b EXCEPT !.recs = R], R, b.entries, b.last_pos, b.next)
      <4> HIDE DEF R
      <4>1. QED
        BY <1>1, SRowOf DEF SRow
    <3>4. QED
      BY <3>2, <3>3, Zenon
  <2> HIDE DEF c
  <2>4. /\ SGood(c) /\ c.next = b.next /\ c.entries = b.entries /\ c.last_pos = b.last_pos
        /\ \A t : t \in SPairs(c) <=> \/ t \in SPairs(b) /\ t.key # k
                                      \/ t = [key |-> k, ptr |-> v]
    BY <1>3, <1>4, <1>6, <2>3, SChange
  <2>5. \E q \in SPairs(b) : q.key = k
    BY <1>3, <1>4, <1>6 DEF SPairs
  <2>6. SClean(b) => SClean(c)
    BY <2>4, SGoodClean DEF SClean
  <2>7. QED
    BY <2>1, <2>4, <2>5, <2>6
<1>7. QED
  BY <1>3, <1>5, <1>6

(* A live slot becomes a hole. *)
LEMMA SClear ==
  ASSUME NEW b, SGood(b), NEW p \in SLive(b), NEW c,
         SRow(c, [b.recs EXCEPT ![p] = S!Hole], b.entries - 1, b.last_pos, b.next)
  PROVE  /\ SGood(c) /\ c.next = b.next /\ c.entries = b.entries - 1
         /\ \A t : t \in SPairs(c) <=> t \in SPairs(b) /\ t.key # b.recs[p].key
<1> DEFINE y == S!Hole
           R == [b.recs EXCEPT ![p] = y]
<1>1. /\ b \in SBuckets /\ b.last_pos \in Nat /\ b.last_pos <= MaxEntries /\ b.entries \in Nat
      /\ p \in 0 .. b.last_pos - 1 /\ p \in 0 .. MaxEntries - 1 /\ b.recs[p] \in Pair
      /\ IsFiniteSet(SLive(b)) /\ \A i \in 0 .. b.last_pos - 1 : i \in 0 .. MaxEntries - 1
  BY SGoodParts
<1>2. b.recs \in [0 .. MaxEntries - 1 -> Record] /\ b.next \in Nat
  BY <1>1, SParts
<1>3. y \in Record /\ y.key = 0
  BY Sizes DEF S!Hole, S!Rec, Record
<1> HIDE DEF y
<1>4. R \in [0 .. MaxEntries - 1 -> Record]
      /\ \A i \in 0 .. MaxEntries - 1 : R[i] = IF i = p THEN y ELSE b.recs[i]
  BY <1>1, <1>2, <1>3
<1>5. Cardinality(SLive(b) \ {p}) = b.entries - 1 /\ b.entries - 1 \in Nat
  <2>1. Cardinality(SLive(b) \ {p}) = b.entries - 1 /\ IsFiniteSet(SLive(b) \ {p})
    BY <1>1, FS_RemoveElement DEF SGood
  <2>2. Cardinality(SLive(b) \ {p}) \in Nat
    BY <2>1, FS_CardinalityType
  <2>3. QED
    BY <2>1, <2>2
<1>6. SRow(c, R, b.entries - 1, b.last_pos, b.next)
  BY DEF R, y
<1> HIDE DEF R
<1>7. /\ c.recs = R /\ c.entries = b.entries - 1 /\ c.last_pos = b.last_pos /\ c.next = b.next
      /\ c \in SBuckets
  BY <1>1, <1>2, <1>4, <1>5, <1>6, SRowParts
<1>8. \A i \in 0 .. b.last_pos - 1 : c.recs[i] = IF i = p THEN y ELSE b.recs[i]
  BY <1>1, <1>4, <1>7
<1>9. SLive(c) = SLive(b) \ {p} /\ \A i \in SLive(b) : i \in 0 .. b.last_pos - 1
  <2>1. SLive(c) = {i \in 0 .. b.last_pos - 1 : c.recs[i].key # 0}
    BY <1>7 DEF SLive
  <2>2. \A i \in 0 .. b.last_pos - 1 : c.recs[i].key # 0 <=> b.recs[i].key # 0 /\ i # p
    BY <1>3, <1>8
  <2>3. QED
    BY <2>1, <2>2 DEF SLive
<1>10. SGood(c)
  <2>1. \A i \in SLive(c) : c.recs[i] \in Pair /\ c.recs[i] = b.recs[i] /\ i \in SLive(b)
    BY <1>8, <1>9 DEF SGood
  <2>2. \A i, j \in SLive(c) : i < j => c.recs[i].key < c.recs[j].key
    BY <2>1 DEF SGood
  <2>3. c.last_pos = 0 => c.recs[0].key = 0
    BY <1>1, <1>7
  <2>4. QED
    BY <1>1, <1>5, <1>7, <1>9, <2>1, <2>2, <2>3 DEF SGood
<1>11. ASSUME NEW t \in SPairs(c) PROVE t \in SPairs(b) /\ t.key # b.recs[p].key
  <2>1. PICK i \in SLive(c) : t = c.recs[i]
    BY DEF SPairs
  <2>2. t = b.recs[i] /\ i \in SLive(b) /\ i # p
    BY <1>8, <1>9, <2>1
  <2>3. t.key # b.recs[p].key
    BY <2>2, SKeys
  <2>4. QED
    BY <2>2, <2>3 DEF SPairs
<1>12. ASSUME NEW t \in SPairs(b), t.key # b.recs[p].key PROVE t \in SPairs(c)
  <2>1. PICK i \in SLive(b) : t = b.recs[i]
    BY DEF SPairs
  <2>2. i # p
    BY <1>12, <2>1
  <2>3. t = c.recs[i] /\ i \in SLive(c)
    BY <1>8, <1>9, <2>1, <2>2
  <2>4. QED
    BY <2>3 DEF SPairs
<1>13. QED
  BY <1>7, <1>10, <1>11, <1>12

(* Delete says OK of a key that is there; behind a hole it misses one. *)
LEMMA SDelete ==
  ASSUME NEW b, SGood(b), NEW k \in Keys
  PROVE  LET r == S!Delete(b, k)
         IN  /\ r.status \in {"OK", "NoExist"} /\ (r.status = "NoExist" => r.b = b)
             /\ r.status = "OK" =>
                  /\ SGood(r.b) /\ r.b.next = b.next
                  /\ \E q \in SPairs(b) : q.key = k
                  /\ \A t : t \in SPairs(r.b) <=> t \in SPairs(b) /\ t.key # k
             /\ SClean(b) /\ (\E q \in SPairs(b) : q.key = k) => r.status = "OK"
<1> DEFINE r == S!Delete(b, k)
           hit == {i \in S!Used(b) : /\ b.recs[i].key = k
                                     /\ \A j \in 0..i-1 : b.recs[j].key # 0}
<1>1. b \in SBuckets /\ b.last_pos \in Nat /\ k \in Int /\ k # 0 /\ b.entries \in Nat
  BY SGoodParts, Sizes
<1>2. CASE hit = {}
  <2>1. r.status = "NoExist" /\ r.b = b
    BY <1>2 DEF S!Delete
  <2>2. ASSUME SClean(b), NEW q \in SPairs(b), q.key = k PROVE FALSE
    <3>1. PICK i \in 0 .. b.entries - 1 : q = b.recs[i]
      BY <2>2, SCleanGood DEF RowSet
    <3>2. b.entries = b.last_pos /\ \A j \in 0 .. b.entries - 1 : b.recs[j] \in Pair
      BY <2>2 DEF SClean, Row
    <3>3. \A j \in 0 .. b.entries - 1 : b.recs[j].key # 0
      BY <3>2, PairParts
    <3>4. \A j \in 0 .. i - 1 : j \in 0 .. b.entries - 1
      BY <1>1
    <3>5. i \in hit
      BY <2>2, <3>1, <3>2, <3>3, <3>4 DEF S!Used
    <3>6. QED
      BY <1>2, <3>5
  <2>3. QED
    BY <2>1, <2>2
<1>3. CASE hit # {}
  <2> DEFINE p == S!Min(hit)
             R == [b.recs EXCEPT ![p] = S!Hole]
             c == [b EXCEPT !.recs[p] = S!Hole, !.entries = @ - 1]
  <2>1. r = [status |-> "OK", b |-> c]
    BY <1>3 DEF S!Delete
  <2>2. p \in hit
    <3>1. hit \in SUBSET Int /\ \A x \in hit : 0 <= x
      BY <1>1 DEF S!Used
    <3> HIDE DEF hit
    <3>2. Min(hit) \in hit
      BY <1>3, <3>1, MinProperty
    <3>3. QED
      BY <3>2, SMaxMin
  <2>3. p \in SLive(b) /\ b.recs[p].key = k
    <3>1. \A i \in hit : i \in 0 .. b.last_pos - 1 /\ b.recs[i].key = k
      BY DEF S!Used
    <3> HIDE DEF p, hit
    <3>2. QED
      BY <1>1, <2>2, <3>1 DEF SLive
  <2> HIDE DEF p, hit
  <2>4. SRow(c, R, b.entries - 1, b.last_pos, b.next)
    <3> DEFINE d == [b EXCEPT !.recs = R]
    <3>1. c = [d EXCEPT !.entries = d.entries - 1]
      BY Zenon
    <3> HIDE DEF R
    <3>2. SRow(d, R, b.entries, b.last_pos, b.next)
      BY <1>1, SRowOf DEF SRow
    <3> HIDE DEF d, c
    <3>3. QED
      BY <3>1, <3>2 DEF SRow
  <2> HIDE DEF c
  <2>5. /\ SGood(c) /\ c.next = b.next
        /\ \A t : t \in SPairs(c) <=> t \in SPairs(b) /\ t.key # k
    BY <2>3, <2>4, SClear
  <2>6. \E q \in SPairs(b) : q.key = k
    BY <2>3 DEF SPairs
  <2>7. r.status = "OK" /\ r.b = c
    BY <2>1
  <2>8. QED
    BY <2>5, <2>6, <2>7
<1>4. QED
  BY <1>2, <1>3

(* Where holes may be, Put keeps to the types and the counts. *)
LEMMA SPutAny ==
  ASSUME NEW b \in SBuckets, NEW k \in Keys, NEW v \in Values
  PROVE  LET c == S!Counted(S!PutBufKV(b, k, v))
         IN  c \in SBuckets /\ c.entries = b.entries + 1 /\ c.next = b.next
<1> DEFINE D == 0 .. MaxEntries - 1
           y == S!Rec(k, v)
<1>1. /\ b.recs \in [D -> Record] /\ b.entries \in Nat /\ b.last_pos \in Nat /\ b.next \in Nat
      /\ DOMAIN b.recs = D /\ MaxEntries \in Nat /\ MaxEntries >= 2
  BY SParts, Sizes
<1>2. y \in Record /\ S!Hole \in Record /\ k \in Int
  <2>1. S!Hole \in Record
    BY Sizes DEF S!Rec, S!Hole, Record
  <2>2. y \in Record
    BY PairIs, Sizes DEF S!Rec
  <2>3. QED
    BY <2>1, <2>2, Sizes
<1>3. \E l \in Nat, R \in [D -> Record] : SRow(S!PutBufKV(b, k, v), R, b.entries, l, b.next)
  <2>1. CASE b.entries = 0
    <3> DEFINE g == [b.recs EXCEPT ![0] = y]
               q == [g[1] EXCEPT !.ptr = 0]
               h == [g EXCEPT ![1] = q]
    <3>1. 0 \in D /\ 1 \in D
      BY <1>1
    <3> HIDE DEF y
    <3>2. g \in [D -> Record] /\ g[1] \in Record
      BY <1>1, <1>2, <3>1
    <3>3. q \in Record
      <4> HIDE DEF g
      <4>1. QED
        BY <3>2 DEF Record
    <3>4. h \in [D -> Record]
      <4> HIDE DEF g, q
      <4>1. QED
        BY <3>1, <3>2, <3>3
    <3>5. S!PutBufKV(b, k, v) = [b EXCEPT !.recs[0] = y, !.recs[1].ptr = 0]
      BY <2>1 DEF S!PutBufKV, y
    <3>6. SRow(S!PutBufKV(b, k, v), h, b.entries, b.last_pos, b.next)
      <4>1. SRow(b, b.recs, b.entries, b.last_pos, b.next)
        BY SRowOf
      <4>2. SRow([b EXCEPT !.recs[0] = y, !.recs[1].ptr = 0], h, b.entries, b.last_pos, b.next)
        BY <4>1, SFirstIs, Zenon
      <4>3. QED
        BY <3>5, <4>2, Zenon
    <3> HIDE DEF h
    <3>7. QED
      BY <1>1, <3>4, <3>6
  <2>2. CASE b.entries # 0
    <3> DEFINE d == S!Compact(b)
    <3>1. \E l \in Nat, R \in [D -> Record] : SRow(d, R, b.entries, l, b.next)
      <4>1. CASE d = b
        BY <1>1, <4>1, SRowOf
      <4>2. CASE d # b
        <5> DEFINE holes == {i \in S!Used(b) : b.recs[i].key = 0}
                   moved(i) == holes # {} /\ i >= S!Max(holes) /\ i < b.last_pos
                   h == [i \in DOMAIN b.recs |-> IF moved(i) THEN S!At(b, i + 1) ELSE b.recs[i]]
                   e == [b EXCEPT !.recs = h]
        <5>1. d = [b EXCEPT !.recs = h, !.last_pos = @ - 1] /\ b.last_pos >= MaxEntries - 1
          BY <4>2 DEF S!Compact
        <5>2. \A i \in D : S!At(b, i + 1) \in Record
          <6>1. \A i \in D : i + 1 < MaxEntries => i + 1 \in D
            BY <1>1
          <6>2. QED
            BY <1>1, <1>2, <6>1 DEF S!At
        <5> HIDE DEF moved
        <5>3. h \in [D -> Record]
          BY <1>1, <5>2
        <5> HIDE DEF h
        <5>4. SRow(e, h, b.entries, b.last_pos, b.next)
          BY SRowOf DEF SRow
        <5>5. d = [e EXCEPT !.last_pos = e.last_pos - 1]
          BY <5>1, Zenon
        <5> HIDE DEF d, e
        <5>6. SRow(d, h, b.entries, b.last_pos - 1, b.next)
          BY <5>4, <5>5 DEF SRow
        <5>7. b.last_pos - 1 \in Nat
          BY <1>1, <5>1
        <5>8. QED
          BY <5>3, <5>6, <5>7
      <4>3. QED
        BY <4>1, <4>2
    <3> HIDE DEF d
    <3>2. PICK l \in Nat, R \in [D -> Record] : SRow(d, R, b.entries, l, b.next)
      BY <3>1
    <3>3. d.recs = R /\ d.last_pos = l
      BY <3>2, SRowParts
    <3> DEFINE T == {i \in S!Used(d) : d.recs[i].key <= k} \union {-1}
               p == S!Max(T) + 1
               h == [i \in DOMAIN d.recs |-> CASE i = p -> y
                                               [] i > p /\ i <= d.last_pos -> d.recs[i - 1]
                                               [] OTHER -> d.recs[i]]
    <3>4. S!PutBufKV(b, k, v) = [d EXCEPT !.recs = h]
      BY <2>2 DEF S!PutBufKV, S!Shift, d
    <3>5. p \in Nat
      <4>1. T \in SUBSET Int /\ T # {} /\ -1 \in T
        BY <3>3 DEF S!Used
      <4>2. l \in Int /\ \A x \in T : x <= l
        BY <3>3 DEF S!Used
      <4> HIDE DEF T
      <4>3. Max(T) \in T /\ \A x \in T : x <= Max(T)
        BY <4>1, <4>2, MaxProperty
      <4>4. S!Max(T) = Max(T)
        BY SMaxMin
      <4>5. S!Max(T) \in Int /\ -1 <= S!Max(T)
        BY <4>1, <4>3, <4>4
      <4>6. QED
        BY <4>5
    <3> HIDE DEF p, y
    <3>6. h \in [D -> Record]
      <4>1. DOMAIN d.recs = D
        BY <3>3
      <4>2. \A i \in D : i > p => i - 1 \in D
        BY <1>1, <3>5
      <4>3. \A i \in D : h[i] \in Record
        <5>1. ASSUME NEW i \in D PROVE h[i] \in Record
          <6>1. CASE i = p
            BY <1>2, <4>1, <6>1
          <6>2. CASE i # p /\ i > p /\ i <= d.last_pos
            <7>1. h[i] = R[i - 1] /\ i - 1 \in D
              BY <3>3, <4>1, <4>2, <6>2
            <7>2. QED
              BY <7>1
          <6>3. CASE i # p /\ ~ (i > p /\ i <= d.last_pos)
            <7>1. h[i] = R[i]
              BY <3>3, <4>1, <6>3
            <7>2. QED
              BY <7>1
          <6>4. QED
            BY <6>1, <6>2, <6>3
        <5>2. QED
          BY <5>1
      <4>4. DOMAIN h = D /\ h = [i \in DOMAIN h |-> h[i]]
        BY <4>1
      <4> HIDE DEF h
      <4>5. QED
        BY <4>3, <4>4
    <3> HIDE DEF h
    <3>7. SRow(S!PutBufKV(b, k, v), h, b.entries, l, b.next)
      BY <3>2, <3>4 DEF SRow
    <3>8. QED
      BY <3>6, <3>7
  <2>3. QED
    BY <2>1, <2>2
<1>4. PICK l \in Nat, R \in [D -> Record] : SRow(S!PutBufKV(b, k, v), R, b.entries, l, b.next)
  BY <1>3
<1>5. SRow(S!Counted(S!PutBufKV(b, k, v)), R, b.entries + 1, l + 1, b.next)
  BY <1>4, SCountedIs
<1>6. b.entries + 1 \in Nat /\ l + 1 \in Nat
  BY <1>1
<1>7. QED
  BY <1>1, <1>5, <1>6, SRowParts

(* min_key, unless slot 0 is a hole. *)
LEMMA SMinKeys ==
  ASSUME NEW b, NEW any
  PROVE  /\ b \in SBuckets => S!MinKeys(b, any) = any
                              \/ \E m \in 0 .. MaxKey : S!MinKeys(b, any) = {m}
         /\ SGood(b) => \/ S!MinKeys(b, any) = any
                        \/ \E q \in SPairs(b) : /\ S!MinKeys(b, any) = {q.key}
                                                /\ \A t \in SPairs(b) : q.key <= t.key
<1>1. ASSUME b \in SBuckets, b.recs[0].key # 0 PROVE \E m \in 0 .. MaxKey : S!MinKeys(b, any) = {m}
  <2>1. 0 \in 0 .. MaxEntries - 1
    BY Sizes
  <2>2. b.recs[0].key \in 0 .. MaxKey
    BY <1>1, <2>1, SParts
  <2>3. QED
    BY <1>1, <2>2 DEF S!MinKeys
<1>2. ASSUME SGood(b), b.recs[0].key # 0
      PROVE  \E q \in SPairs(b) : /\ S!MinKeys(b, any) = {q.key}
                                  /\ \A t \in SPairs(b) : q.key <= t.key
  <2>1. b.last_pos \in Nat /\ b.last_pos # 0
    BY <1>2, SGoodParts DEF SGood
  <2>2. 0 \in SLive(b)
    BY <1>2, <2>1 DEF SLive
  <2>3. ASSUME NEW t \in SPairs(b) PROVE b.recs[0].key <= t.key
    <3>1. PICK i \in SLive(b) : t = b.recs[i]
      BY DEF SPairs
    <3>2. i \in 0 .. b.last_pos - 1 /\ (i = 0 \/ 0 < i)
      BY <2>1 DEF SLive
    <3>3. b.recs[0].key \in Int /\ b.recs[i].key \in Int
      BY <1>2, <2>1, <3>2, SGoodParts
    <3>4. QED
      BY <1>2, <2>2, <3>1, <3>2, <3>3 DEF SGood
  <2>4. b.recs[0] \in SPairs(b)
    BY <2>2 DEF SPairs
  <2>5. QED
    BY <1>2, <2>3, <2>4 DEF S!MinKeys
<1>3. b.recs[0].key = 0 => S!MinKeys(b, any) = any
  BY DEF S!MinKeys
<1>4. QED
  BY <1>1, <1>2, <1>3

(* What the iterator has given out when it comes to a slot. *)
LEMMA SFromIs ==
  ASSUME NEW b \in SBuckets, b.last_pos <= MaxEntries, NEW i \in Nat, i < b.last_pos
  PROVE  \E g \in [i .. b.last_pos -> Seq(Record)] :
           /\ g[i] = <<>> /\ S!From(b, i) = g[b.last_pos]
           /\ \A j \in i + 1 .. b.last_pos :
                g[j] = IF j - 1 # i /\ b.recs[j - 1].key = 0 THEN g[j - 1] ELSE Append(g[j - 1], b.recs[j - 1])
<1> DEFINE l == b.last_pos
           Sq == Seq(Record)
           Turn(s, j) == IF j - 1 # i /\ b.recs[j - 1].key = 0 THEN s ELSE Append(s, b.recs[j - 1])
           P(g) == g = [j \in i .. l |-> IF j = i THEN <<>> ELSE Turn(g[j - 1], j)]
           F == [t \in Sq \X (i + 1 .. l) |-> Turn(t[1], t[2])]
<1>1. l \in Nat /\ i <= l /\ i \in Int /\ l \in Int /\ MaxEntries \in Nat /\ <<>> \in Sq
  BY SParts, Sizes
<1>2. \A j \in i + 1 .. l : j - 1 \in i .. l /\ b.recs[j - 1] \in Record
  <2>1. \A j \in i + 1 .. l : j - 1 \in i .. l /\ j - 1 \in 0 .. MaxEntries - 1
    BY <1>1
  <2>2. QED
    BY <2>1, SParts
<1>3. \A s \in Sq, j \in i + 1 .. l : Turn(s, j) \in Sq
  BY <1>2
<1> HIDE DEF Turn, Sq
<1>4. F \in [Sq \X (i + 1 .. l) -> Sq]
  BY <1>3
<1> HIDE DEF F, l
<1>5. PICK g : Steps(g, i, l, Sq, <<>>, F)
  BY <1>1, <1>4, StepsExist
<1>6. P(g)
  <2>1. ASSUME NEW j \in i .. l
        PROVE  (IF j = i THEN <<>> ELSE F[<<g[j - 1], j>>]) = IF j = i THEN <<>> ELSE Turn(g[j - 1], j)
    <3>1. CASE j = i
      BY <3>1
    <3>2. CASE j # i
      <4>1. j \in i + 1 .. l
        BY <1>1, <3>2
      <4>2. j - 1 \in i .. l
        BY <1>1, <4>1
      <4>3. g[j - 1] \in Sq
        BY <1>5, <4>2 DEF Steps
      <4> DEFINE t == <<g[j - 1], j>>
      <4>4. t \in Sq \X (i + 1 .. l) /\ t[1] = g[j - 1] /\ t[2] = j
        BY <4>1, <4>3
      <4>5. F[t] = Turn(t[1], t[2])
        BY <4>4 DEF F
      <4>6. QED
        BY <3>2, <4>4, <4>5
    <3>3. QED
      BY <3>1, <3>2
  <2>2. g = [j \in i .. l |-> IF j = i THEN <<>> ELSE F[<<g[j - 1], j>>]]
    BY <1>5 DEF Steps
  <2>3. QED
    BY <2>1, <2>2
<1>7. P(CHOOSE h : P(h))
  <2> HIDE DEF P
  <2>1. QED
    BY <1>6
<1> DEFINE h == CHOOSE f : P(f)
<1>8. S!From(b, i) = h[l]
  <2>1. ~ (i >= l)
    BY <1>1 DEF l
  <2>2. QED
    BY <2>1 DEF S!From, Turn, l
<1>9. P(h)
  BY <1>7
<1> HIDE DEF h
<1>10. h[i] = <<>> /\ \A j \in i + 1 .. l : h[j] = Turn(h[j - 1], j)
  BY <1>1, <1>9
<1>11. \A j \in i .. l : h[j] \in Sq
  <2> DEFINE G == {j \in i .. l : h[j] \in Sq}
  <2>1. i \in G
    BY <1>1, <1>10
  <2>2. ASSUME NEW j \in i .. l - 1, j \in G PROVE j + 1 \in G
    <3>1. j + 1 \in i + 1 .. l /\ (j + 1) - 1 = j /\ h[j] \in Sq /\ j + 1 \in i .. l
      BY <1>1, <2>2
    <3>2. QED
      BY <1>3, <1>10, <3>1
  <2> HIDE DEF G
  <2>3. \A j \in i .. l : j \in G
    BY <1>1, <2>1, <2>2, InductFrom
  <2>4. QED
    BY <2>3 DEF G
<1>12. h \in [i .. l -> Sq]
  BY <1>9, <1>11
<1>13. QED
  BY <1>8, <1>10, <1>12 DEF Turn, Sq, l

(* In a bucket without holes: the slots from i on. *)
LEMMA SFromClean ==
  ASSUME NEW b, SClean(b), NEW i \in 0 .. b.entries
  PROVE  S!From(b, i) \in [1 .. b.entries - i -> Pair]
         /\ \A m \in 1 .. b.entries - i : S!From(b, i)[m] = b.recs[i + m - 1]
<1> DEFINE n == b.entries
<1>1. b \in SBuckets /\ n \in Nat /\ b.last_pos = n /\ n <= MaxEntries /\ i \in Nat
      /\ \A j \in 0 .. n - 1 : b.recs[j] \in Pair /\ b.recs[j].key # 0
  BY SParts, PairParts DEF SClean, Row
<1>2. CASE i = n
  <2>1. S!From(b, i) = <<>> /\ n - i = 0
    BY <1>1, <1>2 DEF S!From
  <2>2. QED
    BY <2>1
<1>3. CASE i # n
  <2>1. i < n
    BY <1>1, <1>3
  <2>0. b.last_pos <= MaxEntries /\ i < b.last_pos
    BY <1>1, <2>1
  <2>9. PICK g \in [i .. b.last_pos -> Seq(Record)] :
           /\ g[i] = <<>> /\ S!From(b, i) = g[b.last_pos]
           /\ \A j \in i + 1 .. b.last_pos :
                g[j] = IF j - 1 # i /\ b.recs[j - 1].key = 0 THEN g[j - 1] ELSE Append(g[j - 1], b.recs[j - 1])
    BY <1>1, <2>0, SFromIs
  <2>2. /\ g \in [i .. n -> Seq(Record)]
        /\ g[i] = <<>> /\ S!From(b, i) = g[n]
        /\ \A j \in i + 1 .. n :
             g[j] = IF j - 1 # i /\ b.recs[j - 1].key = 0 THEN g[j - 1] ELSE Append(g[j - 1], b.recs[j - 1])
    BY <1>1, <2>9
  <2> DEFINE Q(s, d) == /\ s \in Seq(Pair) /\ Len(s) = d
                        /\ \A m \in 1 .. d : s[m] = b.recs[i + m - 1]
             G == {j \in i .. n : Q(g[j], j - i)}
  <2>3. i \in G
    <3>1. i - i = 0
      BY <1>1
    <3>2. Q(<<>>, 0)
      OBVIOUS
    <3> HIDE DEF Q
    <3>3. QED
      BY <1>1, <2>2, <3>1, <3>2
  <2>4. ASSUME NEW j \in i .. n - 1, j \in G PROVE j + 1 \in G
    <3>1. j \in i .. n /\ j + 1 \in i + 1 .. n /\ j + 1 \in i .. n /\ (j + 1) - 1 = j /\ j \in 0 .. n - 1
          /\ j - i \in Nat /\ (j + 1) - i = (j - i) + 1
      BY <1>1
    <3>2. g[j + 1] = Append(g[j], b.recs[j])
      <4>1. g[j + 1] = IF (j + 1) - 1 # i /\ b.recs[(j + 1) - 1].key = 0 THEN g[(j + 1) - 1]
                       ELSE Append(g[(j + 1) - 1], b.recs[(j + 1) - 1])
        BY <2>2, <3>1
      <4>2. QED
        BY <1>1, <3>1, <4>1
    <3>3. Q(g[j], j - i)
      BY <2>4
    <3> DEFINE s == g[j]
               d == j - i
    <3>4. s \in Seq(Pair) /\ Len(s) = d /\ \A m \in 1 .. d : s[m] = b.recs[i + m - 1]
      BY <3>3
    <3>5. d \in Nat /\ b.recs[j] \in Pair /\ b.recs[j] = b.recs[i + (d + 1) - 1]
      <4>1. d \in Nat /\ i + (d + 1) - 1 = j
        BY <1>1, <3>1
      <4>2. b.recs[j] \in Pair
        BY <1>1, <3>1
      <4>3. QED
        BY <4>1, <4>2
    <3> HIDE DEF s, d
    <3>6. Q(Append(s, b.recs[j]), d + 1)
      <4> DEFINE u == Append(s, b.recs[j])
      <4>1. u \in Seq(Pair) /\ Len(u) = d + 1 /\ u[d + 1] = b.recs[j] /\ \A m \in 1 .. d : u[m] = s[m]
        BY <3>4, <3>5
      <4> HIDE DEF u
      <4>2. ASSUME NEW m \in 1 .. d + 1 PROVE u[m] = b.recs[i + m - 1]
        <5>1. CASE m = d + 1
          BY <3>5, <4>1, <5>1
        <5>2. CASE m # d + 1
          <6>1. m \in 1 .. d
            BY <3>5, <5>2
          <6>2. QED
            BY <3>4, <4>1, <6>1
        <5>3. QED
          BY <5>1, <5>2
      <4>3. QED
        BY <4>1, <4>2 DEF u
    <3> HIDE DEF Q
    <3>7. QED
      BY <3>1, <3>2, <3>6 DEF s, d
  <2> HIDE DEF G
  <2>5. n \in G
    <3>1. n \in i .. n /\ i \in Int /\ n \in Int /\ i <= n
      BY <1>1
    <3> HIDE DEF n
    <3>2. QED
      BY <2>3, <2>4, <3>1, InductFrom
  <2>6. Q(g[n], n - i)
    BY <2>5 DEF G
  <2>7. g[n] \in [1 .. n - i -> Pair]
    <3>1. \A s \in Seq(Pair) : s \in [1 .. Len(s) -> Pair]
      OBVIOUS
    <3>2. g[n] \in Seq(Pair) /\ Len(g[n]) = n - i
      BY <2>6
    <3> HIDE DEF Q, G, n
    <3>3. QED
      BY <3>1, <3>2
  <2>8. \A m \in 1 .. n - i : g[n][m] = b.recs[i + m - 1]
    BY <2>6
  <2> HIDE DEF Q, G
  <2>10. QED
    BY <2>2, <2>7, <2>8
<1>4. QED
  BY <1>2, <1>3

(* Among holes: the pairs, and it may be a hole before them. *)
LEMMA SLiveRange ==
  ASSUME NEW b, SGood(b)
  PROVE  \A r : r \in Range(S!Iter(b)) /\ r.key # 0 <=> r \in SPairs(b)
<1> DEFINE n == b.last_pos
<1>1. b \in SBuckets /\ n \in Nat /\ n <= MaxEntries
  BY SGoodParts
<1>2. S!Iter(b) = S!From(b, 0)
  BY DEF S!Iter, S!Live
<1>3. CASE n = 0
  <2>1. S!From(b, 0) = <<>>
    BY <1>3 DEF S!From
  <2>2. Range(<<>>) = {} /\ SPairs(b) = {}
    BY <1>3 DEF Range, SPairs, SLive
  <2>3. QED
    BY <1>2, <2>1, <2>2
<1>4. CASE n # 0
  <2>1. 0 < n /\ 0 \in Nat
    BY <1>1, <1>4
  <2>2. PICK g \in [0 .. n -> Seq(Record)] :
           /\ g[0] = <<>> /\ S!From(b, 0) = g[n]
           /\ \A j \in 0 + 1 .. n :
                g[j] = IF j - 1 # 0 /\ b.recs[j - 1].key = 0 THEN g[j - 1] ELSE Append(g[j - 1], b.recs[j - 1])
    BY <1>1, <2>1, SFromIs
  <2> DEFINE Q(j) == \A r : r.key # 0 => (r \in Range(g[j]) <=> \E i \in 0 .. j - 1 : r = b.recs[i])
             G == {j \in 0 .. n : Q(j)}
  <2>3. 0 \in G
    BY <1>1, <2>2 DEF Range
  <2>4. ASSUME NEW j \in 0 .. n - 1, j \in G PROVE j + 1 \in G
    <3>1. j \in 0 .. n /\ j + 1 \in 0 + 1 .. n /\ j + 1 \in 0 .. n /\ (j + 1) - 1 = j
      BY <1>1
    <3>2. g[j + 1] = IF j # 0 /\ b.recs[j].key = 0 THEN g[j] ELSE Append(g[j], b.recs[j])
      <4>1. g[j + 1] = IF (j + 1) - 1 # 0 /\ b.recs[(j + 1) - 1].key = 0 THEN g[(j + 1) - 1]
                       ELSE Append(g[(j + 1) - 1], b.recs[(j + 1) - 1])
        BY <2>2, <3>1
      <4>2. QED
        BY <3>1, <4>1
    <3>3. Q(j) /\ g[j] \in Seq(Record)
      BY <2>4, <3>1
    <3>4. \A i : i \in 0 .. (j + 1) - 1 <=> i \in 0 .. j - 1 \/ i = j
      BY <3>1
    <3>5. b.recs[j] \in Record
      <4>1. j \in 0 .. MaxEntries - 1
        BY <1>1, Sizes
      <4>2. QED
        BY <1>1, <4>1, SParts
    <3>6. ASSUME NEW r, r.key # 0 PROVE r \in Range(g[j + 1]) <=> \E i \in 0 .. (j + 1) - 1 : r = b.recs[i]
      <4>1. CASE j # 0 /\ b.recs[j].key = 0
        BY <3>2, <3>3, <3>4, <3>6, <4>1
      <4>2. CASE ~ (j # 0 /\ b.recs[j].key = 0)
        <5>1. g[j + 1] = Append(g[j], b.recs[j])
          BY <3>2, <4>2
        <5>2. r \in Range(g[j + 1]) <=> r \in Range(g[j]) \/ r = b.recs[j]
          <6> DEFINE s == g[j]
                     y == b.recs[j]
          <6>1. s \in Seq(Record) /\ y \in Record
            BY <3>3, <3>5
          <6> HIDE DEF s, y
          <6>2. r \in Range(Append(s, y)) <=> r \in Range(s) \/ r = y
            <7>1. DOMAIN Append(s, y) = 1 .. Len(s) + 1 /\ DOMAIN s = 1 .. Len(s) /\ Len(s) \in Nat
              BY <6>1
            <7>2. Append(s, y)[Len(s) + 1] = y /\ \A m \in 1 .. Len(s) : Append(s, y)[m] = s[m]
              BY <6>1
            <7>3. \A m \in 1 .. Len(s) + 1 : m \in 1 .. Len(s) \/ m = Len(s) + 1
              BY <7>1
            <7>4. Len(s) + 1 \in 1 .. Len(s) + 1 /\ \A m \in 1 .. Len(s) : m \in 1 .. Len(s) + 1
              BY <7>1
            <7> DEFINE u == Append(s, y)
            <7> HIDE DEF u
            <7>5. QED
              BY <7>1, <7>2, <7>3, <7>4 DEF Range
          <6>3. QED
            BY <5>1, <6>2 DEF s, y
        <5>3. QED
          BY <3>3, <3>4, <3>6, <5>2
      <4>3. QED
        BY <4>1, <4>2
    <3> HIDE DEF Q
    <3>7. Q(j + 1)
      BY <3>6 DEF Q
    <3>8. QED
      BY <3>1, <3>7
  <2> HIDE DEF G
  <2>5. n \in G
    <3> HIDE DEF n
    <3>1. \A j \in 0 .. n : j \in G
      BY <1>1, <2>3, <2>4, Induct
    <3>2. QED
      BY <1>1, <3>1
  <2>6. Q(n)
    BY <2>5 DEF G
  <2>7. \A r : r \in SPairs(b) <=> r.key # 0 /\ \E i \in 0 .. n - 1 : r = b.recs[i]
    BY DEF SPairs, SLive
  <2>8. QED
    BY <1>2, <2>2, <2>6, <2>7
<1>5. QED
  BY <1>3, <1>4

(* Without holes the iterator yields every pair in key order. *)
LEMMA SIterClean ==
  ASSUME NEW b, SClean(b)
  PROVE  Ascends(S!Iter(b), SPairs(b))
<1> DEFINE s == S!Iter(b)
           n == b.entries
<1>1. n \in Nat /\ Row(b.recs, n) /\ SPairs(b) = RowSet(b.recs, n)
  BY SParts, SCleanGood DEF SClean
<1>2. s \in [1 .. n -> Pair] /\ \A m \in 1 .. n : s[m] = b.recs[m - 1]
  <2>1. 0 \in 0 .. n /\ s = S!From(b, 0)
    BY <1>1 DEF S!Iter, S!Live
  <2>2. S!From(b, 0) \in [1 .. n - 0 -> Pair] /\ \A m \in 1 .. n - 0 : S!From(b, 0)[m] = b.recs[0 + m - 1]
    BY <2>1, SFromClean
  <2>3. n - 0 = n /\ \A m \in 1 .. n : 0 + m - 1 = m - 1
    BY <1>1
  <2> HIDE DEF s, n
  <2>4. QED
    BY <2>1, <2>2, <2>3
<1> DEFINE f == b.recs
<1> HIDE DEF s, n
<1>3. Row(f, n) /\ \A m \in 1 .. n : s[m] = f[m - 1]
  BY <1>1, <1>2
<1> HIDE DEF f
<1>4. Ascends(s, RowSet(f, n))
  BY <1>1, <1>2, <1>3, RowAll
<1>5. QED
  BY <1>1, <1>4 DEF f, s

(* From a key on: Find says where. *)
LEMMA SIterFromClean ==
  ASSUME NEW b, SClean(b), NEW k \in Keys, NEW p, NEW R,
         \A r : r \in R <=> r \in SPairs(b) /\ r.key >= k
  PROVE  /\ k <= p => Ascends(S!IterFrom(b, k, p), SPairs(b))
         /\ ~ (k <= p) => Ascends(S!IterFrom(b, k, p), R)
<1> DEFINE n == b.entries
           t == S!Find(b, k)
           s == S!From(b, t.pos)
           f == b.recs
<1>1. n \in Nat /\ Row(f, n) /\ SPairs(b) = RowSet(f, n) /\ k \in Int
  BY SParts, SCleanGood, Sizes DEF SClean
<1>2. CASE k <= p
  <2>1. S!IterFrom(b, k, p) = S!Iter(b)
    BY <1>2 DEF S!IterFrom, S!Iter
  <2>2. QED
    BY <1>2, <2>1, SIterClean
<1>3. CASE ~ (k <= p)
  <2>1. S!IterFrom(b, k, p) = s
    BY <1>3 DEF S!IterFrom
  <2>2. \A i \in 0 .. n - 1 : f[i].key \in Int
    BY <1>1, PairParts DEF Row
  <2>3. t.pos \in 0 .. n /\ \A i \in 0 .. n - 1 : /\ i < t.pos => ~ (f[i].key >= k)
                                                  /\ i >= t.pos => f[i].key >= k
    <3>1. /\ t.find \in BOOLEAN
          /\ t.find => t.pos \in 0 .. n - 1 /\ f[t.pos].key = k
          /\ ~ t.find => /\ t.pos \in 0 .. n
                         /\ \A i \in 0 .. n - 1 : /\ i < t.pos => f[i].key < k
                                                  /\ i >= t.pos => f[i].key > k
      BY <1>1, SFindClean
    <3> HIDE DEF t, f, n
    <3>2. CASE t.find
      <4>1. t.pos \in 0 .. n - 1 /\ f[t.pos].key = k /\ t.pos \in 0 .. n
        BY <1>1, <3>1, <3>2
      <4>2. ASSUME NEW i \in 0 .. n - 1
            PROVE  (i < t.pos => ~ (f[i].key >= k)) /\ (i >= t.pos => f[i].key >= k)
        <5>1. (i < t.pos => f[i].key < f[t.pos].key) /\ (i > t.pos => f[t.pos].key < f[i].key)
          BY <1>1, <4>1 DEF Row
        <5>2. i > t.pos \/ i = t.pos \/ i < t.pos
          BY <4>1
        <5>3. QED
          BY <1>1, <2>2, <4>1, <5>1, <5>2
      <4>3. QED
        BY <4>1, <4>2
    <3>3. CASE ~ t.find
      <4>1. t.pos \in 0 .. n
        BY <3>1, <3>3
      <4>2. ASSUME NEW i \in 0 .. n - 1
            PROVE  (i < t.pos => ~ (f[i].key >= k)) /\ (i >= t.pos => f[i].key >= k)
        <5>1. (i < t.pos => f[i].key < k) /\ (i >= t.pos => f[i].key > k)
          BY <3>1, <3>3
        <5>2. QED
          BY <1>1, <2>2, <5>1
      <4>3. QED
        BY <4>1, <4>2
    <3>4. QED
      BY <3>1, <3>2, <3>3
  <2>4. s \in [1 .. n - t.pos -> Pair] /\ \A m \in 1 .. n - t.pos : s[m] = f[t.pos + m - 1]
    BY <2>3, SFromClean
  <2>5. \A r : r \in R <=> r \in RowSet(f, n) /\ r.key >= k
    BY <1>1
  <2> DEFINE q == t.pos
  <2>6. q \in 0 .. n /\ s \in [1 .. n - q -> Pair] /\ (\A m \in 1 .. n - q : s[m] = f[q + m - 1])
        /\ \A i \in 0 .. n - 1 : (i < q => ~ (f[i].key >= k)) /\ (i >= q => f[i].key >= k)
    BY <2>3, <2>4
  <2> HIDE DEF s, f, n, q, t
  <2>7. Ascends(s, R)
    BY <1>1, <2>5, <2>6, RowFrom
  <2>8. QED
    BY <1>3, <2>1, <2>7
<1>4. QED
  BY <1>2, <1>3

(* The chain alone changes. *)
LEMMA SNext ==
  ASSUME NEW b, SClean(b), NEW x \in Nat
  PROVE  LET c == [b EXCEPT !.next = x]
         IN  SClean(c) /\ c.next = x /\ c.entries = b.entries /\ SPairs(c) = SPairs(b)
<1> DEFINE c == [b EXCEPT !.next = x]
<1>1. SRow(b, b.recs, b.entries, b.last_pos, b.next)
  BY SRowOf DEF SClean
<1>2. SRow(c, b.recs, b.entries, b.last_pos, x)
  BY <1>1 DEF SRow
<1> HIDE DEF c
<1>3. c.recs = b.recs /\ c.entries = b.entries /\ c.last_pos = b.last_pos /\ c.next = x
  BY <1>2, SRowParts
<1>4. c \in SBuckets
  BY <1>2, SParts, SRowParts DEF SClean
<1>5. SClean(c)
  BY <1>3, <1>4 DEF SClean
<1>6. SPairs(c) = SPairs(b)
  BY <1>3, <1>5, SCleanGood
<1>7. QED
  BY <1>3, <1>5, <1>6 DEF c

(* The right half of a split, one Put after the other. *)
LEMMA SUpperIs ==
  ASSUME NEW b, SClean(b), b.last_pos # 0
  PROVE  LET c == S!UpperHalf(b)
             m == b.last_pos \div 2
         IN  /\ SClean(c) /\ c.entries = b.last_pos - m
             /\ \A r : r \in SPairs(c) <=> \E i \in m .. b.last_pos - 1 : r = b.recs[i]
<1> DEFINE n == b.last_pos
           m == n \div 2
           Turn(s, j) == IF b.recs[j - 1].key = 0 THEN s
                         ELSE S!Counted(S!PutBufKV(s, b.recs[j - 1].key, b.recs[j - 1].ptr))
           P(g) == g = [j \in m .. n |-> IF j = m THEN S!Empty ELSE Turn(g[j - 1], j)]
           F == [t \in SBuckets \X (m + 1 .. n) |-> Turn(t[1], t[2])]
<1>1. n \in Nat /\ n # 0 /\ n \in Int /\ n <= MaxEntries /\ MaxEntries \in Nat /\ Row(b.recs, n)
      /\ m \in Nat /\ m < n /\ m \in Int
  <2>1. n \in Nat /\ n # 0 /\ n <= MaxEntries /\ MaxEntries \in Nat /\ Row(b.recs, n)
    BY SParts, Sizes DEF SClean
  <2> HIDE DEF n
  <2>2. QED
    BY <2>1
<1> HIDE DEF m
<1>2. \A j \in m + 1 .. n : j - 1 \in m .. n /\ j - 1 \in 0 .. n - 1 /\ b.recs[j - 1] \in Pair
                            /\ b.recs[j - 1].key # 0 /\ b.recs[j - 1].key \in Keys
                            /\ b.recs[j - 1].ptr \in Values
                            /\ b.recs[j - 1] = [key |-> b.recs[j - 1].key, ptr |-> b.recs[j - 1].ptr]
  <2>1. \A j \in m + 1 .. n : j - 1 \in m .. n /\ j - 1 \in 0 .. n - 1
    BY <1>1
  <2>2. \A j \in 0 .. n - 1 : b.recs[j] \in Pair
    BY <1>1 DEF Row
  <2> HIDE DEF n
  <2>3. QED
    BY <2>1, <2>2, PairParts
<1>3. \A s \in SBuckets, j \in m + 1 .. n : Turn(s, j) \in SBuckets
  BY <1>2, SPutAny
<1>4. \A s, j : j \in m + 1 .. n => Turn(s, j) = S!Counted(S!PutBufKV(s, b.recs[j - 1].key, b.recs[j - 1].ptr))
  BY <1>2
<1> HIDE DEF Turn
<1>5. F \in [SBuckets \X (m + 1 .. n) -> SBuckets]
  BY <1>3
<1>6. SClean(S!Empty) /\ S!Empty \in SBuckets /\ SPairs(S!Empty) = {} /\ S!Empty.entries = 0
  BY SEmptyIs DEF SClean
<1>7. S!UpperHalf(b) = (CHOOSE g : P(g))[n]
  BY DEF S!UpperHalf, Turn, m
<1> HIDE DEF F, n
<1>8. PICK g : Steps(g, m, n, SBuckets, S!Empty, F)
  <2>1. m \in Int /\ n \in Int /\ m <= n /\ S!Empty \in SBuckets
    BY <1>1, <1>6
  <2>2. QED
    BY <1>5, <2>1, StepsExist
<1>9. P(g)
  <2>1. ASSUME NEW j \in m .. n
        PROVE  (IF j = m THEN S!Empty ELSE F[<<g[j - 1], j>>]) = IF j = m THEN S!Empty ELSE Turn(g[j - 1], j)
    <3>1. CASE j = m
      BY <3>1
    <3>2. CASE j # m
      <4>1. j \in m + 1 .. n
        BY <1>1, <3>2
      <4>2. j - 1 \in m .. n
        BY <1>1, <4>1
      <4>3. g[j - 1] \in SBuckets
        BY <1>8, <4>2 DEF Steps
      <4> DEFINE t == <<g[j - 1], j>>
      <4>4. t \in SBuckets \X (m + 1 .. n) /\ t[1] = g[j - 1] /\ t[2] = j
        BY <4>1, <4>3
      <4>5. F[t] = Turn(t[1], t[2])
        BY <4>4 DEF F
      <4>6. QED
        BY <3>2, <4>4, <4>5
    <3>3. QED
      BY <3>1, <3>2
  <2>2. g = [j \in m .. n |-> IF j = m THEN S!Empty ELSE F[<<g[j - 1], j>>]]
    BY <1>8 DEF Steps
  <2>3. QED
    BY <2>1, <2>2
<1>10. P(CHOOSE h : P(h))
  <2> HIDE DEF P
  <2>1. QED
    BY <1>9
<1> DEFINE h == CHOOSE f : P(f)
<1>11. P(h) /\ S!UpperHalf(b) = h[n]
  BY <1>7, <1>10
<1> HIDE DEF h
<1>12. h[m] = S!Empty /\ \A j \in m + 1 .. n : h[j] = Turn(h[j - 1], j)
  BY <1>1, <1>11
<1> DEFINE Q(j) == /\ SClean(h[j]) /\ h[j].entries = j - m
                   /\ \A r : r \in SPairs(h[j]) <=> \E i \in m .. j - 1 : r = b.recs[i]
           G == {j \in m .. n : Q(j)}
<1>13. m \in G
  <2>1. m - m = 0 /\ m .. m - 1 = {} /\ m \in m .. n
    BY <1>1
  <2>2. QED
    BY <1>6, <1>12, <2>1
<1>14. ASSUME NEW j \in m .. n - 1, j \in G PROVE j + 1 \in G
  <2>1. /\ j \in m .. n /\ j + 1 \in m + 1 .. n /\ j + 1 \in m .. n /\ (j + 1) - 1 = j /\ j - m \in Nat
        /\ j - m < MaxEntries /\ (j + 1) - m = (j - m) + 1 /\ j \in 0 .. n - 1
        /\ \A i : i \in m .. (j + 1) - 1 <=> i \in m .. j - 1 \/ i = j
        /\ \A i \in m .. j - 1 : i \in 0 .. n - 1 /\ i < j
    BY <1>1
  <2>2. Q(j)
    BY <1>14
  <2> DEFINE k == b.recs[j].key
             v == b.recs[j].ptr
             c == S!Counted(S!PutBufKV(h[j], k, v))
  <2>3. h[j + 1] = c
    BY <1>4, <1>12, <2>1
  <2>4. k \in Keys /\ v \in Values /\ b.recs[j] = [key |-> k, ptr |-> v]
    BY <1>2, <2>1
  <2>5. \A r \in SPairs(h[j]) : r.key # k
    <3>1. ASSUME NEW r \in SPairs(h[j]) PROVE r.key # k
      <4>1. PICK i \in m .. j - 1 : r = b.recs[i]
        BY <2>2
      <4>2. i \in 0 .. n - 1 /\ i < j
        BY <2>1
      <4>3. i # j
        BY <2>1, <4>2
      <4>4. b.recs[i].key # b.recs[j].key
        <5> DEFINE f == b.recs
        <5>1. Row(f, n) /\ n \in Nat
          BY <1>1
        <5> HIDE DEF f
        <5>2. f[i].key = f[j].key => i = j
          BY <2>1, <4>2, <5>1, RowKeys
        <5>3. QED
          BY <4>3, <5>2 DEF f
      <4>5. QED
        BY <4>1, <4>4
    <3>2. QED
      BY <3>1
  <2> HIDE DEF k, v, c
  <2>6. ~ (h[j].entries >= MaxEntries)
    BY <1>1, <2>1, <2>2
  <2>7. SClean(c) /\ c.entries = h[j].entries + 1 /\ SPairs(c) = SPairs(h[j]) \union {[key |-> k, ptr |-> v]}
    BY <2>2, <2>4, <2>5, <2>6, SPutClean DEF c
  <2>8. \A r : r \in SPairs(c) <=> r \in SPairs(h[j]) \/ r = b.recs[j]
    BY <2>4, <2>7
  <2>9. \A r : r \in SPairs(c) <=> \E i \in m .. (j + 1) - 1 : r = b.recs[i]
    BY <2>1, <2>2, <2>8
  <2>10. Q(j + 1)
    BY <2>1, <2>2, <2>3, <2>7, <2>9
  <2> HIDE DEF Q
  <2>11. QED
    BY <2>1, <2>10
<1> HIDE DEF G
<1>15. n \in G
  <2>1. n \in m .. n /\ m <= n
    BY <1>1
  <2>2. QED
    BY <1>1, <1>13, <1>14, <2>1, InductFrom
<1>16. Q(n)
  BY <1>15 DEF G
<1>17. QED
  BY <1>11, <1>16 DEF n, m

(* A full bucket gives its upper half to a new one. *)
LEMMA SExpand ==
  ASSUME NEW b, SClean(b), b.entries >= MaxEntries, NEW nid \in Nat
  PROVE  LET x == S!Expand(b, nid)
         IN  /\ SClean(x.left) /\ SClean(x.right)
             /\ x.left.next = nid /\ x.right.next = b.next
             /\ x.left.entries < MaxEntries /\ x.right.entries < MaxEntries
             /\ \E q \in SPairs(b) : q.key = x.split_key
             /\ \E q \in SPairs(b) : q.key < x.split_key
             /\ \A r : /\ r \in SPairs(x.left) <=> r \in SPairs(b) /\ r.key < x.split_key
                       /\ r \in SPairs(x.right) <=> r \in SPairs(b) /\ r.key >= x.split_key
<1> DEFINE x == S!Expand(b, nid)
           n == b.entries
           m == n \div 2
           u == S!UpperHalf(b)
           f == b.recs
           R == [b.recs EXCEPT ![m] = [b.recs[m] EXCEPT !.ptr = 0]]
           c == S!CutAt(b, m, u, nid)
<1>1. /\ b \in SBuckets /\ n \in Nat /\ n = MaxEntries /\ n >= 2 /\ b.last_pos = n /\ Row(f, n)
      /\ MaxEntries \in Nat /\ b.next \in Nat /\ SPairs(b) = RowSet(f, n)
      /\ f \in [0 .. MaxEntries - 1 -> Record]
  BY SParts, Sizes, SCleanGood DEF SClean
<1>2. m \in Nat /\ m < n /\ m >= 1 /\ m \in 0 .. n - 1 /\ 0 \in 0 .. n - 1
  <2> HIDE DEF n
  <2>1. QED
    BY <1>1
<1>3. x.split_key = f[m].key /\ x.left = c /\ x.right = [u EXCEPT !.next = b.next]
  BY <1>1 DEF S!Expand
<1> HIDE DEF x, u, m, c, n
<1>4. SClean(u) /\ u.entries = n - m /\ \A r : r \in SPairs(u) <=> \E i \in m .. n - 1 : r = b.recs[i]
  <2>1. m = b.last_pos \div 2 /\ b.last_pos # 0 /\ b.last_pos = n
    BY <1>1, <1>2 DEF m
  <2> DEFINE q == b.last_pos \div 2
  <2>2. SClean(u) /\ u.entries = b.last_pos - q
        /\ \A r : r \in SPairs(u) <=> \E i \in q .. b.last_pos - 1 : r = b.recs[i]
    BY <2>1, SUpperIs DEF u
  <2> HIDE DEF q
  <2>4. q = m
    BY <2>1 DEF q
  <2>3. QED
    BY <2>1, <2>2, <2>4
<1>5. SClean(x.right) /\ x.right.next = b.next /\ x.right.entries = n - m /\ SPairs(x.right) = SPairs(u)
  BY <1>1, <1>3, <1>4, SNext
<1>6. SRow(c, R, m, m, nid)
  <2> DEFINE d == [b EXCEPT !.recs = R]
             e == [d EXCEPT !.next = nid]
             a == [e EXCEPT !.entries = e.entries - u.entries]
  <2>1. c = [a EXCEPT !.last_pos = m]
    BY Zenon DEF c, S!CutAt
  <2> HIDE DEF R, c
  <2>2. SRow(d, R, n, n, b.next)
    <3>1. SRow(b, b.recs, n, n, b.next)
      BY <1>1, SRowOf DEF n
    <3>2. QED
      BY <3>1 DEF SRow
  <2> HIDE DEF d
  <2>3. SRow(e, R, n, n, nid)
    BY <2>2 DEF SRow
  <2> HIDE DEF e
  <2>4. SRow(a, R, n - u.entries, n, nid)
    BY <2>3 DEF SRow
  <2> HIDE DEF a
  <2>5. SRow(c, R, n - u.entries, m, nid)
    BY <2>1, <2>4 DEF SRow
  <2>6. n - u.entries = m
    BY <1>1, <1>2, <1>4
  <2>7. QED
    BY <2>5, <2>6
<1>7. R \in [0 .. MaxEntries - 1 -> Record] /\ \A i \in 0 .. m - 1 : R[i] = f[i]
  <2> DEFINE y == [b.recs[m] EXCEPT !.ptr = 0]
  <2>1. y \in Record
    <3>1. b.recs[m] \in Record
      BY <1>1, <1>2
    <3>2. QED
      BY <3>1 DEF Record
  <2>4. R = [f EXCEPT ![m] = y]
    OBVIOUS
  <2> HIDE DEF y, R, f
  <2>2. \A i \in 0 .. m - 1 : i # m /\ i \in 0 .. MaxEntries - 1
    BY <1>1, <1>2
  <2>3. QED
    BY <1>1, <1>2, <2>1, <2>2, <2>4
<1> HIDE DEF R
<1>8. c.recs = R /\ c.entries = m /\ c.last_pos = m /\ c.next = nid /\ c \in SBuckets
  BY <1>2, <1>6, <1>7, SRowParts
<1> DEFINE g == [i \in 0 .. n - m - 1 |-> f[m + i]]
<1>9. /\ Row(f, m)
      /\ \A r : /\ r \in RowSet(f, m) <=> r \in RowSet(f, n) /\ r.key < f[m].key
                /\ r \in RowSet(g, n - m) <=> r \in RowSet(f, n) /\ r.key >= f[m].key
  <2>1. \A i \in 0 .. n - m - 1 : g[i] = f[m + i]
    OBVIOUS
  <2>2. Row(f, n) /\ n \in Nat /\ m \in 0 .. n - 1
    BY <1>1, <1>2
  <2> HIDE DEF g, f
  <2>3. /\ Row(f, m) /\ Row(g, n - m)
        /\ \A r : /\ r \in RowSet(f, m) <=> r \in RowSet(f, n) /\ r.key < f[m].key
                  /\ r \in RowSet(g, n - m) <=> r \in RowSet(f, n) /\ r.key >= f[m].key
    BY <2>1, <2>2, RowCut
  <2>4. QED
    BY <2>3
<1>10. Row(c.recs, m) /\ RowSet(c.recs, m) = RowSet(f, m)
  <2>1. \A i \in 0 .. m - 1 : c.recs[i] = f[i]
    BY <1>7, <1>8
  <2> DEFINE h == c.recs
  <2>2. Row(f, m) /\ \A i \in 0 .. m - 1 : h[i] = f[i]
    BY <1>9, <2>1
  <2> HIDE DEF f, h
  <2>3. Row(h, m) /\ RowSet(h, m) = RowSet(f, m)
    BY <2>2 DEF Row, RowSet
  <2>4. QED
    BY <2>3 DEF h
<1>11. SClean(c)
  BY <1>1, <1>2, <1>8, <1>10 DEF SClean
<1>12. SPairs(c) = RowSet(f, m)
  BY <1>8, <1>10, <1>11, SCleanGood
<1>13. \A r : r \in SPairs(u) <=> r \in RowSet(g, n - m)
  <2>1. \A r : r \in RowSet(g, n - m) <=> \E i \in 0 .. n - m - 1 : r = f[m + i]
    BY DEF RowSet
  <2>2. \A i \in m .. n - 1 : i - m \in 0 .. n - m - 1 /\ m + (i - m) = i
    BY <1>1, <1>2
  <2>3. \A i \in 0 .. n - m - 1 : m + i \in m .. n - 1
    BY <1>1, <1>2
  <2> HIDE DEF g
  <2>4. QED
    BY <1>4, <2>1, <2>2, <2>3
<1>14. f[m] \in SPairs(b) /\ f[0] \in SPairs(b) /\ f[0].key < f[m].key
  BY <1>1, <1>2 DEF Row, RowSet
<1>15. m < MaxEntries /\ n - m < MaxEntries
  BY <1>1, <1>2
<1>16. SClean(x.left) /\ x.left.next = nid /\ x.left.entries = m
  BY <1>3, <1>8, <1>11
<1> HIDE DEF f, g
<1>17. \A r : /\ r \in SPairs(x.left) <=> r \in SPairs(b) /\ r.key < x.split_key
              /\ r \in SPairs(x.right) <=> r \in SPairs(b) /\ r.key >= x.split_key
  BY <1>1, <1>3, <1>5, <1>9, <1>12, <1>13
<1>18. (\E q \in SPairs(b) : q.key = x.split_key) /\ \E q \in SPairs(b) : q.key < x.split_key
  BY <1>3, <1>14
<1>19. QED
  BY <1>5, <1>15, <1>16, <1>17, <1>18 DEF x

-----------------------------------------------------------------------------
(* The unordered bucket *)

UBuckets == [recs : [0 .. MaxEntries - 1 -> Record], entries : Nat, next : Nat]

(* The first n of f are pairs of different keys. *)
Distinct(f, n) ==
  /\ \A i \in 0 .. n - 1 : f[i] \in Pair
  /\ \A i, j \in 0 .. n - 1 : f[i].key = f[j].key => i = j

UPairs(b) == RowSet(b.recs, b.entries)

UGood(b) == b \in UBuckets /\ b.entries <= MaxEntries /\ Distinct(b.recs, b.entries)

(* A row has no key twice. *)
LEMMA RowDistinct ==
  ASSUME NEW n \in Nat, NEW f, Row(f, n)
  PROVE  Distinct(f, n)
BY RowKeys DEF Distinct, Row

(* The last one goes into the gap at p. *)
LEMMA Fill ==
  ASSUME NEW n \in Nat, NEW f, Distinct(f, n + 1), NEW p \in 0 .. n,
         NEW g, \A i \in 0 .. n - 1 : g[i] = IF i = p THEN f[n] ELSE f[i]
  PROVE  /\ Distinct(g, n)
         /\ \A r : r \in RowSet(g, n) <=> r \in RowSet(f, n + 1) /\ r.key # f[p].key
<1>1. (n + 1) - 1 = n /\ n \in 0 .. n /\ \A i \in 0 .. n - 1 : i \in 0 .. n /\ i # n
  OBVIOUS
<1>2. /\ \A i \in 0 .. n : f[i] \in Pair
      /\ \A i, j \in 0 .. n : f[i].key = f[j].key => i = j
  BY <1>1 DEF Distinct
<1>3. \A i \in 0 .. n - 1 : \E j \in 0 .. n : g[i] = f[j] /\ j # p /\ (i = p => j = n) /\ (i # p => j = i)
  BY <1>1
<1>4. Distinct(g, n)
  <2>1. \A i \in 0 .. n - 1 : g[i] \in Pair
    BY <1>2, <1>3
  <2>2. ASSUME NEW i \in 0 .. n - 1, NEW j \in 0 .. n - 1, g[i].key = g[j].key PROVE i = j
    <3>1. PICK x \in 0 .. n : g[i] = f[x] /\ (i = p => x = n) /\ (i # p => x = i)
      BY <1>3
    <3>2. PICK y \in 0 .. n : g[j] = f[y] /\ (j = p => y = n) /\ (j # p => y = j)
      BY <1>3
    <3>3. x = y
      BY <1>2, <2>2, <3>1, <3>2
    <3>4. QED
      BY <1>1, <3>1, <3>2, <3>3
  <2>3. QED
    BY <2>1, <2>2 DEF Distinct
<1>5. ASSUME NEW r \in RowSet(g, n) PROVE r \in RowSet(f, n + 1) /\ r.key # f[p].key
  <2>1. PICK i \in 0 .. n - 1 : r = g[i]
    BY DEF RowSet
  <2>2. PICK j \in 0 .. n : g[i] = f[j] /\ j # p
    BY <1>3
  <2>3. r.key # f[p].key
    BY <1>2, <2>1, <2>2
  <2>4. QED
    BY <1>1, <2>1, <2>2, <2>3 DEF RowSet
<1>6. ASSUME NEW r \in RowSet(f, n + 1), r.key # f[p].key PROVE r \in RowSet(g, n)
  <2>1. PICK j \in 0 .. n : r = f[j]
    BY <1>1 DEF RowSet
  <2>2. j # p
    BY <1>6, <2>1
  <2>3. CASE j = n
    <3>1. p \in 0 .. n - 1
      BY <2>2, <2>3
    <3>2. QED
      BY <2>1, <2>3, <3>1 DEF RowSet
  <2>4. CASE j # n
    <3>1. j \in 0 .. n - 1
      BY <2>4
    <3>2. QED
      BY <2>1, <2>2, <3>1 DEF RowSet
  <2>5. QED
    BY <2>3, <2>4
<1>7. QED
  BY <1>4, <1>5, <1>6

URow(b, R, e, x) == b = [recs |-> R, entries |-> e, next |-> x]

(* A bucket made of its fields. *)
LEMMA URowParts ==
  ASSUME NEW b, NEW R, NEW e, NEW x, URow(b, R, e, x)
  PROVE  /\ b.recs = R /\ b.entries = e /\ b.next = x
         /\ b \in UBuckets <=> R \in [0 .. MaxEntries - 1 -> Record] /\ e \in Nat /\ x \in Nat
BY DEF URow, UBuckets

(* The fields of an unordered bucket. *)
LEMMA UParts ==
  ASSUME NEW b \in UBuckets
  PROVE  /\ b.recs \in [0 .. MaxEntries - 1 -> Record] /\ b.entries \in Nat /\ b.next \in Nat
         /\ URow(b, b.recs, b.entries, b.next)
BY DEF URow, UBuckets

(* What a good bucket says of its slots in use. *)
LEMMA UGoodParts ==
  ASSUME NEW b, UGood(b)
  PROVE  /\ b \in UBuckets /\ b.recs \in [0 .. MaxEntries - 1 -> Record] /\ b.next \in Nat
         /\ b.entries \in Nat /\ b.entries <= MaxEntries /\ MaxEntries \in Nat /\ MaxEntries >= 2
         /\ \A i \in 0 .. b.entries - 1 : i \in 0 .. MaxEntries - 1 /\ b.recs[i] \in Pair
         /\ \A i, j \in 0 .. b.entries - 1 : b.recs[i].key = b.recs[j].key => i = j
<1>1. /\ b \in UBuckets /\ b.recs \in [0 .. MaxEntries - 1 -> Record] /\ b.next \in Nat
      /\ b.entries \in Nat /\ b.entries <= MaxEntries /\ MaxEntries \in Nat /\ MaxEntries >= 2
  BY UParts, Sizes DEF UGood
<1>2. \A i \in 0 .. b.entries - 1 : i \in 0 .. MaxEntries - 1
  BY <1>1
<1>3. QED
  BY <1>1, <1>2 DEF UGood, Distinct

(* The slots of a bucket, written as a function that ends. *)
LEMMA DistinctCount ==
  ASSUME NEW n \in Nat, NEW f, Distinct(f, n)
  PROVE  /\ IsFiniteSet(RowSet(f, n)) /\ Cardinality(RowSet(f, n)) = n /\ RowSet(f, n) \subseteq Pair
         /\ \A r, t \in RowSet(f, n) : r.key = t.key => r = t
<1> DEFINE I == 0 .. n - 1
           R == RowSet(f, n)
           h == [i \in I |-> f[i]]
<1>1. IsFiniteSet(I) /\ Cardinality(I) = n
  BY Count
<1>2. h \in Bijection(I, R)
  <2>1. h \in [I -> R]
    BY DEF RowSet
  <2>2. \A i, j \in I : h[i] = h[j] => i = j
    BY DEF Distinct
  <2>3. \A r \in R : \E i \in I : h[i] = r
    BY DEF RowSet
  <2> HIDE DEF h, I, R
  <2>4. QED
    BY <2>1, <2>2, <2>3 DEF Bijection, Injection, Surjection, IsInjective
<1>3. IsFiniteSet(R) /\ Cardinality(R) = Cardinality(I)
  <2>1. ExistsBijection(I, R)
    BY <1>2 DEF ExistsBijection
  <2> HIDE DEF h, I, R
  <2>2. QED
    BY <1>1, <2>1, FS_Bijection
<1>4. R \subseteq Pair /\ \A r, t \in R : r.key = t.key => r = t
  BY DEF Distinct, RowSet
<1>5. QED
  BY <1>1, <1>3, <1>4

(* entries counts the pairs. *)
LEMMA UCount ==
  ASSUME NEW b, UGood(b)
  PROVE  /\ b.entries = Cardinality(UPairs(b)) /\ IsFiniteSet(UPairs(b)) /\ UPairs(b) \subseteq Pair
         /\ b.entries \in 0 .. MaxEntries /\ b.next \in Nat
         /\ \A r, t \in UPairs(b) : r.key = t.key => r = t
<1>1. b.entries \in Nat /\ Distinct(b.recs, b.entries) /\ b.entries \in 0 .. MaxEntries /\ b.next \in Nat
  BY UGoodParts DEF UGood
<1>2. QED
  BY <1>1, DistinctCount DEF UPairs

(* A new bucket. *)
LEMMA UEmptyIs == UGood(U!Empty) /\ UPairs(U!Empty) = {} /\ U!Empty.next = 0 /\ U!Empty.entries = 0
<1>1. U!Empty \in UBuckets /\ U!Empty.entries = 0 /\ U!Empty.next = 0
  BY Sizes DEF U!Empty, U!Rec, UBuckets, Record
<1>2. UGood(U!Empty)
  BY <1>1, Sizes DEF UGood, Distinct
<1>3. QED
  BY <1>1, <1>2 DEF UPairs, RowSet

(* Find: the first slot that holds the key. *)
LEMMA UFindIs ==
  ASSUME NEW b, b.entries \in Nat, NEW k
  PROVE  /\ U!Find(b, k) \in 0 .. b.entries
         /\ U!Find(b, k) # b.entries => U!Find(b, k) \in 0 .. b.entries - 1 /\ b.recs[U!Find(b, k)].key = k
         /\ U!Find(b, k) = b.entries => \A i \in 0 .. b.entries - 1 : b.recs[i].key # k
         /\ \A i \in 0 .. b.entries - 1 : b.recs[i].key = k => U!Find(b, k) <= i
<1> DEFINE T == {i \in 0 .. b.entries - 1 : b.recs[i].key = k} \union {b.entries}
<1>1. T \in SUBSET Int /\ T # {} /\ \A x \in T : 0 <= x
  OBVIOUS
<1>2. PICK p \in T : p = Min(T) /\ \A y \in T : p <= y
  <2> HIDE DEF T
  <2>1. Min(T) \in T /\ \A y \in T : Min(T) <= y
    BY <1>1, MinProperty
  <2>2. QED
    BY <2>1
<1>3. U!Find(b, k) = p
  <2>1. U!Min(T) = Min(T)
    BY DEF U!Min, Min
  <2>2. U!Find(b, k) = U!Min(T)
    BY DEF U!Find, U!Used
  <2>3. QED
    BY <1>2, <2>1, <2>2
<1>4. \A i \in 0 .. b.entries - 1 : b.recs[i].key = k => i \in T
  OBVIOUS
<1>5. p \in 0 .. b.entries /\ (p # b.entries => p \in 0 .. b.entries - 1 /\ b.recs[p].key = k)
  BY <1>2
<1>6. p = b.entries => \A i \in 0 .. b.entries - 1 : b.recs[i].key # k
  BY <1>2, <1>4
<1>7. QED
  BY <1>2, <1>3, <1>4, <1>5, <1>6

(* When Put reports Full, and that it has changed nothing then. *)
LEMMA UPutFull ==
  ASSUME NEW b, b.entries \in Nat, NEW k, NEW v
  PROVE  /\ b.entries >= MaxEntries => U!Put(b, k, v) = [status |-> "Full", b |-> b]
         /\ ~ (b.entries >= MaxEntries) => U!Put(b, k, v).status = "OK"
BY DEF U!Put

(* Put into a bucket that has room. *)
LEMMA UPutClean ==
  ASSUME NEW b, UGood(b), ~ (b.entries >= MaxEntries), NEW k \in Keys, NEW v \in Values,
         \A r \in UPairs(b) : r.key # k
  PROVE  LET c == U!Put(b, k, v).b
         IN  /\ UGood(c) /\ c.next = b.next /\ c.entries = b.entries + 1
             /\ UPairs(c) = UPairs(b) \union {[key |-> k, ptr |-> v]}
<1> DEFINE c == U!Put(b, k, v).b
           n == b.entries
           x == [key |-> k, ptr |-> v]
           R == [b.recs EXCEPT ![n] = x]
           d == [b EXCEPT !.recs = R]
<1>1. /\ n \in Nat /\ n < MaxEntries /\ n \in 0 .. MaxEntries - 1 /\ b.recs \in [0 .. MaxEntries - 1 -> Record]
      /\ b.next \in Nat /\ \A i \in 0 .. n - 1 : i \in 0 .. MaxEntries - 1 /\ i # n
      /\ \A i \in 0 .. n : i \in 0 .. n - 1 \/ i = n
  BY UGoodParts
<1>2. x \in Pair /\ x \in Record /\ x.key = k
  BY PairIs, Sizes
<1>3. c = [d EXCEPT !.entries = d.entries + 1]
  <2>1. U!Put(b, k, v).b = [b EXCEPT !.recs[n] = x, !.entries = @ + 1]
    BY DEF U!Put, U!Rec
  <2>2. QED
    BY <2>1, Zenon
<1> HIDE DEF x
<1>4. R \in [0 .. MaxEntries - 1 -> Record] /\ R[n] = x /\ \A i \in 0 .. n - 1 : R[i] = b.recs[i]
  BY <1>1, <1>2
<1> HIDE DEF R, c
<1>5. URow(d, R, n, b.next)
  BY UGoodParts, UParts DEF URow
<1> HIDE DEF d
<1>6. URow(c, R, n + 1, b.next)
  BY <1>3, <1>5 DEF URow
<1>7. c.recs = R /\ c.entries = n + 1 /\ c.next = b.next /\ c \in UBuckets
  BY <1>1, <1>4, <1>6, URowParts
<1>8. \A i \in 0 .. n - 1 : b.recs[i] \in Pair /\ b.recs[i].key # k
  BY UGoodParts DEF UPairs, RowSet
<1>9. (n + 1) - 1 = n
  BY <1>1
<1>10. Distinct(R, n + 1)
  <2>1. \A i \in 0 .. n : R[i] \in Pair
    BY <1>1, <1>2, <1>4, <1>8
  <2>2. ASSUME NEW i \in 0 .. n, NEW j \in 0 .. n, R[i].key = R[j].key PROVE i = j
    <3>1. \A m \in 0 .. n - 1 : R[m].key # R[n].key
      BY <1>2, <1>4, <1>8
    <3>2. i = n <=> j = n
      BY <1>1, <2>2, <3>1
    <3>3. CASE i # n /\ j # n
      <4>1. i \in 0 .. n - 1 /\ j \in 0 .. n - 1
        BY <1>1, <3>3
      <4>2. b.recs[i].key = b.recs[j].key
        BY <1>4, <2>2, <4>1
      <4>3. QED
        BY <4>1, <4>2, UGoodParts
    <3>4. QED
      BY <3>2, <3>3
  <2>3. QED
    BY <1>9, <2>1, <2>2 DEF Distinct
<1>11. UGood(c)
  <2>1. n + 1 <= MaxEntries
    BY <1>1, UGoodParts
  <2> HIDE DEF n
  <2>2. c \in UBuckets /\ c.entries <= MaxEntries /\ Distinct(c.recs, c.entries)
    BY <1>7, <1>10, <2>1
  <2>3. QED
    BY <2>2 DEF UGood
<1>12. UPairs(c) = UPairs(b) \union {x}
  <2>1. \A r : r \in UPairs(c) <=> \E i \in 0 .. n : r = R[i]
    BY <1>7, <1>9 DEF UPairs, RowSet
  <2>2. \A r : r \in UPairs(b) <=> \E i \in 0 .. n - 1 : r = b.recs[i]
    BY DEF UPairs, RowSet
  <2>3. \A i \in 0 .. n - 1 : i \in 0 .. n
    BY <1>1
  <2>4. n \in 0 .. n
    BY <1>1
  <2> HIDE DEF n
  <2>5. QED
    BY <1>1, <1>4, <2>1, <2>2, <2>3, <2>4
<1>13. QED
  BY <1>7, <1>11, <1>12 DEF c, x

(* Get finds the pair of a key. *)
LEMMA UGet ==
  ASSUME NEW b, UGood(b), NEW k \in Keys
  PROVE  /\ \A r \in UPairs(b) : r.key = k => U!Get(b, k) = r.ptr
         /\ (\A r \in UPairs(b) : r.key # k) => U!Get(b, k) = 0
<1> DEFINE p == U!Find(b, k)
           n == b.entries
<1>1. n \in Nat /\ \A i, j \in 0 .. n - 1 : b.recs[i].key = b.recs[j].key => i = j
  BY UGoodParts
<1>2. /\ p \in 0 .. n /\ (p # n => p \in 0 .. n - 1 /\ b.recs[p].key = k)
      /\ p = n => \A i \in 0 .. n - 1 : b.recs[i].key # k
  BY <1>1, UFindIs
<1>3. U!Get(b, k) = IF p < n THEN b.recs[p].ptr ELSE 0
  BY DEF U!Get
<1> HIDE DEF p
<1>4. ASSUME NEW r \in UPairs(b), r.key = k PROVE U!Get(b, k) = r.ptr
  <2>1. PICK i \in 0 .. n - 1 : r = b.recs[i]
    BY DEF UPairs, RowSet
  <2>2. p # n
    BY <1>2, <1>4, <2>1
  <2>3. p = i /\ p < n
    BY <1>1, <1>2, <1>4, <2>1, <2>2
  <2>4. QED
    BY <1>3, <2>1, <2>3
<1>5. ASSUME \A r \in UPairs(b) : r.key # k PROVE U!Get(b, k) = 0
  <2>1. \A i \in 0 .. n - 1 : b.recs[i].key # k
    BY <1>5 DEF UPairs, RowSet
  <2>2. ~ (p < n)
    BY <1>1, <1>2, <2>1
  <2>3. QED
    BY <1>3, <2>2
<1>6. QED
  BY <1>4, <1>5

(* Update replaces the pair of the key. *)
LEMMA UUpdate ==
  ASSUME NEW b, UGood(b), NEW k \in Keys, NEW v \in Values
  PROVE  LET r == U!Update(b, k, v)
         IN  /\ r.status \in {"OK", "NoExist"} /\ (r.status = "NoExist" => r.b = b)
             /\ r.status = "OK" =>
                  /\ UGood(r.b) /\ r.b.next = b.next /\ r.b.entries = b.entries
                  /\ \E q \in UPairs(b) : q.key = k
                  /\ \A t : t \in UPairs(r.b) <=> \/ t \in UPairs(b) /\ t.key # k
                                                  \/ t = [key |-> k, ptr |-> v]
             /\ (\E q \in UPairs(b) : q.key = k) => r.status = "OK"
<1> DEFINE r == U!Update(b, k, v)
           p == U!Find(b, k)
           n == b.entries
           y == [key |-> k, ptr |-> v]
           R == [b.recs EXCEPT ![p] = y]
           c == [b EXCEPT !.recs[p].ptr = v]
<1>1. /\ n \in Nat /\ n <= MaxEntries /\ MaxEntries \in Nat /\ b.recs \in [0 .. MaxEntries - 1 -> Record]
      /\ b.next \in Nat
      /\ \A i \in 0 .. n - 1 : i \in 0 .. MaxEntries - 1 /\ b.recs[i] \in Pair
      /\ \A i, j \in 0 .. n - 1 : b.recs[i].key = b.recs[j].key => i = j
  BY UGoodParts
<1>2. /\ p \in 0 .. n /\ (p # n => p \in 0 .. n - 1 /\ b.recs[p].key = k)
      /\ p = n => \A i \in 0 .. n - 1 : b.recs[i].key # k
  BY <1>1, UFindIs
<1>3. y \in Pair /\ y \in Record /\ y.key = k
  BY PairIs, Sizes
<1>4. CASE p = n
  <2>1. r.status = "NoExist" /\ r.b = b
    <3>1. ~ (p < n)
      BY <1>1, <1>4
    <3>2. QED
      BY <3>1 DEF U!Update
  <2>2. \A q \in UPairs(b) : q.key # k
    BY <1>2, <1>4 DEF UPairs, RowSet
  <2>3. QED
    BY <2>1, <2>2
<1>5. CASE p # n
  <2>1. p < n /\ p \in 0 .. n - 1 /\ b.recs[p].key = k
    BY <1>1, <1>2, <1>5
  <2>2. r.status = "OK" /\ r.b = c
    BY <2>1 DEF U!Update
  <2>3. [b.recs[p] EXCEPT !.ptr = v] = y
    <3>1. b.recs[p] = [key |-> k, ptr |-> b.recs[p].ptr]
      BY <1>1, <2>1, PairParts
    <3>2. \A x, z : [([key |-> x, ptr |-> z]) EXCEPT !.ptr = v] = [key |-> x, ptr |-> v]
      OBVIOUS
    <3>3. QED
      BY <3>1, <3>2
  <2>4. URow(c, R, n, b.next)
    <3>1. c = [b EXCEPT !.recs = [b.recs EXCEPT ![p] = [b.recs[p] EXCEPT !.ptr = v]]]
      BY Zenon
    <3>2. c = [b EXCEPT !.recs = R]
      BY <2>3, <3>1, Zenon
    <3>3. URow([b EXCEPT !.recs = R], R, n, b.next)
      <4> HIDE DEF R
      <4>1. QED
        BY UGoodParts, UParts DEF URow
    <3>4. QED
      BY <3>2, <3>3, Zenon
  <2> HIDE DEF c, y, p
  <2>5. R \in [0 .. MaxEntries - 1 -> Record] /\ \A i \in 0 .. n - 1 : R[i] = IF i = p THEN y ELSE b.recs[i]
    BY <1>1, <1>3, <2>1
  <2> HIDE DEF R
  <2>6. c.recs = R /\ c.entries = n /\ c.next = b.next /\ c \in UBuckets
    BY <1>1, <2>4, <2>5, URowParts
  <2>7. \A i \in 0 .. n - 1 : R[i] \in Pair /\ R[i].key = b.recs[i].key
    BY <1>1, <1>3, <2>1, <2>5
  <2>8. Distinct(R, n)
    BY <1>1, <2>7 DEF Distinct
  <2>9. UGood(c)
    BY <1>1, <2>6, <2>8 DEF UGood
  <2>10. \A t : t \in UPairs(c) <=> (t \in UPairs(b) /\ t.key # k) \/ t = y
    <3>1. ASSUME NEW t \in UPairs(c) PROVE (t \in UPairs(b) /\ t.key # k) \/ t = y
      <4>1. PICK i \in 0 .. n - 1 : t = R[i]
        BY <2>6, <3>1 DEF UPairs, RowSet
      <4>2. CASE i = p
        BY <2>5, <4>1, <4>2
      <4>3. CASE i # p
        <5>1. t = b.recs[i] /\ b.recs[i].key # k
          BY <1>1, <2>1, <2>5, <4>1, <4>3
        <5>2. QED
          BY <5>1 DEF UPairs, RowSet
      <4>4. QED
        BY <4>2, <4>3
    <3>2. ASSUME NEW t \in UPairs(b), t.key # k PROVE t \in UPairs(c)
      <4>1. PICK i \in 0 .. n - 1 : t = b.recs[i]
        BY <3>2 DEF UPairs, RowSet
      <4>2. i # p
        BY <2>1, <3>2, <4>1
      <4>3. t = R[i]
        BY <2>5, <4>1, <4>2
      <4>4. QED
        BY <2>6, <4>3 DEF UPairs, RowSet
    <3>3. y \in UPairs(c)
      <4>1. R[p] = y
        BY <2>1, <2>5
      <4>2. QED
        BY <2>1, <2>6, <4>1 DEF UPairs, RowSet
    <3>4. QED
      BY <3>1, <3>2, <3>3
  <2>11. \E q \in UPairs(b) : q.key = k
    BY <2>1 DEF UPairs, RowSet
  <2>12. QED
    BY <2>2, <2>6, <2>9, <2>10, <2>11 DEF y
<1>6. QED
  BY <1>4, <1>5

(* c is what RemoveKey(b, k, x + 1) makes of b. *)
URemoved(b, k, x, c) ==
  /\ c \in UBuckets /\ c.entries = b.entries /\ c.next = b.next
  /\ U!Find(b, k) \in {b.entries, x} => c.recs = b.recs
  /\ U!Find(b, k) \notin {b.entries, x} => \A i \in 0 .. MaxEntries - 1 :
                                    c.recs[i] = IF i = U!Find(b, k) THEN b.recs[x] ELSE b.recs[i]

(* remove_key, on whatever the slots hold. *)
LEMMA URemoveIs ==
  ASSUME NEW b \in UBuckets, b.entries <= MaxEntries, NEW k, NEW x \in 0 .. MaxEntries - 1
  PROVE  URemoved(b, k, x, U!RemoveKey(b, k, x + 1))
<1> DEFINE c == U!RemoveKey(b, k, x + 1)
           p == U!Find(b, k)
           R == [b.recs EXCEPT ![p] = b.recs[x]]
<1>1. /\ b.recs \in [0 .. MaxEntries - 1 -> Record] /\ b.entries \in Nat /\ b.next \in Nat
      /\ URow(b, b.recs, b.entries, b.next) /\ (x + 1) - 1 = x
  BY UParts
<1>2. c = IF p \in {b.entries, x} THEN b ELSE [b EXCEPT !.recs = R]
  <2>1. U!RemoveKey(b, k, x + 1)
          = IF p \in {b.entries, (x + 1) - 1} THEN b ELSE [b EXCEPT !.recs = [b.recs EXCEPT ![p] = b.recs[(x + 1) - 1]]]
    BY Zenon DEF U!RemoveKey
  <2>2. QED
    BY <1>1, <2>1, Zenon
<1>3. CASE p \in {b.entries, x}
  BY <1>2, <1>3 DEF URemoved
<1>4. CASE p \notin {b.entries, x}
  <2>1. R \in [0 .. MaxEntries - 1 -> Record]
        /\ \A i \in 0 .. MaxEntries - 1 : R[i] = IF i = p THEN b.recs[x] ELSE b.recs[i]
    <3> HIDE DEF p
    <3>1. b.recs[x] \in Record
      BY <1>1
    <3>2. QED
      BY <1>1, <3>1
  <2> HIDE DEF R, p, c
  <2>2. URow(c, R, b.entries, b.next)
    BY <1>1, <1>2, <1>4 DEF URow
  <2>3. c.recs = R /\ c.entries = b.entries /\ c.next = b.next /\ c \in UBuckets
    BY <1>1, <2>1, <2>2, URowParts
  <2>4. QED
    BY <1>4, <2>1, <2>3 DEF c, p, URemoved
<1>5. QED
  BY <1>3, <1>4

(* What it does to the n + 1 slots in use, of which one holds the key. *)
LEMMA URemoveFills ==
  ASSUME NEW b \in UBuckets, b.entries <= MaxEntries, NEW n \in Nat, n + 1 <= b.entries,
         Distinct(b.recs, n + 1), NEW k, NEW q \in 0 .. n, b.recs[q].key = k
  PROVE  LET c == U!RemoveKey(b, k, n + 1)
         IN  /\ c \in UBuckets /\ c.entries = b.entries /\ c.next = b.next
             /\ Distinct(c.recs, n)
             /\ \A r : r \in RowSet(c.recs, n) <=> r \in RowSet(b.recs, n + 1) /\ r.key # k
             /\ \A i \in 0 .. MaxEntries - 1 : i # q => c.recs[i] = b.recs[i]
<1> DEFINE c == U!RemoveKey(b, k, n + 1)
           p == U!Find(b, k)
           f == b.recs
           g == c.recs
<1>1. b.entries \in Nat /\ MaxEntries \in Nat /\ n \in 0 .. MaxEntries - 1 /\ n < b.entries /\ q < b.entries
      /\ q \in 0 .. b.entries - 1 /\ (n + 1) - 1 = n
  BY UParts, Sizes
<1>2. p \in 0 .. n /\ f[p].key = k
  <2>1. /\ p \in 0 .. b.entries /\ (p # b.entries => f[p].key = k)
        /\ \A i \in 0 .. b.entries - 1 : f[i].key = k => p <= i
    BY <1>1, UFindIs
  <2> HIDE DEF p, f
  <2>2. p <= q
    BY <1>1, <2>1 DEF f
  <2>3. QED
    BY <1>1, <2>1, <2>2
<1>3. p = q
  BY <1>1, <1>2 DEF Distinct
<1>4. /\ c \in UBuckets /\ c.entries = b.entries /\ c.next = b.next
      /\ p \in {b.entries, n} => c.recs = b.recs
      /\ p \notin {b.entries, n} => \A i \in 0 .. MaxEntries - 1 :
                                      c.recs[i] = IF i = p THEN b.recs[n] ELSE b.recs[i]
  <2>1. URemoved(b, k, n, U!RemoveKey(b, k, n + 1))
    BY <1>1, URemoveIs
  <2>2. QED
    BY <2>1 DEF URemoved
<1> HIDE DEF p, c
<1>5. p # b.entries
  BY <1>1, <1>2
<1>6. \A i \in 0 .. MaxEntries - 1 : i # q => c.recs[i] = b.recs[i]
  BY <1>3, <1>4, <1>5
<1>7. \A i \in 0 .. n - 1 : g[i] = IF i = p THEN f[n] ELSE f[i]
  <2>1. \A i \in 0 .. n - 1 : i \in 0 .. MaxEntries - 1 /\ i # n
    BY <1>1
  <2>2. QED
    BY <1>4, <1>5, <2>1
<1>8. Distinct(f, n + 1)
  OBVIOUS
<1> HIDE DEF f, g
<1>9. Distinct(g, n) /\ \A r : r \in RowSet(g, n) <=> r \in RowSet(f, n + 1) /\ r.key # f[p].key
  BY <1>2, <1>7, <1>8, Fill
<1>10. QED
  BY <1>2, <1>4, <1>6, <1>9 DEF c, f, g

(* Delete removes the pair of the key and closes the gap. *)
LEMMA UDelete ==
  ASSUME NEW b, UGood(b), NEW k \in Keys
  PROVE  LET r == U!Delete(b, k)
         IN  /\ r.status \in {"OK", "NoExist"} /\ (r.status = "NoExist" => r.b = b)
             /\ r.status = "OK" =>
                  /\ UGood(r.b) /\ r.b.next = b.next
                  /\ \E q \in UPairs(b) : q.key = k
                  /\ \A t : t \in UPairs(r.b) <=> t \in UPairs(b) /\ t.key # k
             /\ (\E q \in UPairs(b) : q.key = k) => r.status = "OK"
<1> DEFINE r == U!Delete(b, k)
           p == U!Find(b, k)
           e == b.entries
           d == U!RemoveKey(b, k, e)
           c == [d EXCEPT !.entries = d.entries - 1]
<1>1. b \in UBuckets /\ e \in Nat /\ e <= MaxEntries /\ MaxEntries \in Nat /\ Distinct(b.recs, e)
  BY UGoodParts DEF UGood
<1>2. /\ p \in 0 .. e /\ (p # e => p \in 0 .. e - 1 /\ b.recs[p].key = k)
      /\ p = e => \A i \in 0 .. e - 1 : b.recs[i].key # k
  BY <1>1, UFindIs
<1>3. CASE p = e
  <2>1. r.status = "NoExist" /\ r.b = b
    BY <1>3 DEF U!Delete
  <2>2. \A q \in UPairs(b) : q.key # k
    BY <1>2, <1>3 DEF UPairs, RowSet
  <2>3. QED
    BY <2>1, <2>2
<1>4. CASE p # e
  <2>1. r.status = "OK" /\ r.b = c
    BY <1>4 DEF U!Delete
  <2> DEFINE n == e - 1
  <2>2. n \in Nat /\ n + 1 = e /\ n + 1 <= b.entries /\ p \in 0 .. n /\ b.recs[p].key = k /\ n <= MaxEntries
    BY <1>1, <1>2, <1>4
  <2>3. Distinct(b.recs, n + 1)
    BY <1>1, <2>2
  <2> HIDE DEF n, c, d, p
  <2>4. d = U!RemoveKey(b, k, n + 1)
    BY <2>2 DEF d
  <2>5. /\ d \in UBuckets /\ d.entries = e /\ d.next = b.next /\ Distinct(d.recs, n)
        /\ \A t : t \in RowSet(d.recs, n) <=> t \in RowSet(b.recs, n + 1) /\ t.key # k
    BY <1>1, <2>2, <2>3, <2>4, URemoveFills, SMTT(30)
  <2>6. URow(c, d.recs, n, b.next)
    <3>1. URow(d, d.recs, e, b.next)
      BY <2>5, UParts
    <3>2. d.entries - 1 = n
      BY <2>2, <2>5
    <3>3. URow(c, d.recs, d.entries - 1, b.next)
      BY <3>1 DEF URow, c
    <3>4. QED
      BY <3>2, <3>3
  <2>7. c.recs = d.recs /\ c.entries = n /\ c.next = b.next /\ c \in UBuckets
    BY <2>2, <2>5, <2>6, UParts, URowParts
  <2>8. UGood(c)
    BY <2>2, <2>5, <2>7 DEF UGood
  <2>9. \A t : t \in UPairs(c) <=> t \in UPairs(b) /\ t.key # k
    BY <2>2, <2>5, <2>7 DEF UPairs
  <2>10. \E q \in UPairs(b) : q.key = k
    BY <1>2, <1>4 DEF UPairs, RowSet, p
  <2>11. QED
    BY <2>1, <2>7, <2>8, <2>9, <2>10
<1>5. QED
  BY <1>3, <1>4

(* The least key, or any when there is no pair. *)
LEMMA UMinKeys ==
  ASSUME NEW b, UGood(b), NEW any
  PROVE  \/ U!MinKeys(b, any) = any
         \/ \E q \in UPairs(b) : U!MinKeys(b, any) = {q.key} /\ \A t \in UPairs(b) : q.key <= t.key
<1>1. CASE b.entries = 0
  BY <1>1 DEF U!MinKeys
<1>2. CASE b.entries # 0
  <2> DEFINE T == {b.recs[i].key : i \in 0 .. b.entries - 1}
  <2>1. b.entries \in Nat /\ 0 \in 0 .. b.entries - 1
    BY <1>2, UGoodParts
  <2>2. \A i \in 0 .. b.entries - 1 : b.recs[i].key \in Int /\ b.recs[i].key >= 1
    BY UGoodParts, PairParts
  <2>3. T \in SUBSET Int /\ T # {} /\ \A x \in T : 1 <= x
    BY <2>1, <2>2
  <2>4. Min(T) \in T /\ \A y \in T : Min(T) <= y
    <3> HIDE DEF T
    <3>1. QED
      BY <2>3, MinProperty
  <2>5. U!MinKeys(b, any) = {Min(T)}
    <3>1. U!MinKeys(b, any) = {U!Min(T)}
      BY <1>2 DEF U!MinKeys, U!Used
    <3>2. U!Min(T) = Min(T)
      BY DEF U!Min, Min
    <3>3. QED
      BY <3>1, <3>2
  <2>6. PICK i \in 0 .. b.entries - 1 : Min(T) = b.recs[i].key
    BY <2>4
  <2>7. b.recs[i] \in UPairs(b) /\ \A t \in UPairs(b) : t.key \in T
    BY DEF UPairs, RowSet
  <2>8. QED
    BY <2>4, <2>5, <2>6, <2>7
<1>3. QED
  BY <1>1, <1>2

(* getSortedIndex lists the slots in key order, each once. *)
LEMMA URanks ==
  ASSUME NEW b, UGood(b)
  PROVE  LET rank == U!SortedIndex(b)
             n == b.entries
         IN  /\ rank \in [1 .. n -> 0 .. n - 1]
             /\ \A i, j \in 1 .. n : i < j => b.recs[rank[i]].key < b.recs[rank[j]].key
             /\ \A x \in 0 .. n - 1 : \E i \in 1 .. n : rank[i] = x
<1> DEFINE n == b.entries
           I == U!Used(b)
           w == [i \in I |-> b.recs[i].key]
           s == U!SortedIndex(b)
           A(x) == {y \in I : b.recs[y].key < b.recs[x].key}
           At(i) == CHOOSE x \in I : Cardinality(A(x)) = i - 1
<1>0. I = 0 .. n - 1
  BY DEF U!Used
<1>1. s = [i \in 1 .. n |-> At(i)]
  <2> DEFINE Bt(i) == CHOOSE x \in I : U!Cardinality(A(x)) = i - 1
  <2>1. s = [i \in 1 .. n |-> Bt(i)]
    BY DEF U!SortedIndex
  <2>2. \A T : U!Cardinality(T) = Cardinality(T)
    BY DEF U!Cardinality, Cardinality
  <2>3. \A i : Bt(i) = At(i)
    <3> HIDE DEF A, I
    <3>1. QED
      BY <2>2
  <2> HIDE DEF Bt, At, s
  <2>4. QED
    BY <2>1, <2>3
<1> HIDE DEF I, s
<1>2. /\ n \in Nat /\ IsFiniteSet(I) /\ Cardinality(I) = n
      /\ \A i \in I : b.recs[i].key \in Int
      /\ \A i, j \in I : b.recs[i].key = b.recs[j].key => i = j
  BY <1>0, UGoodParts, Count, PairParts
<1>3. w \in [I -> Int] /\ \A i, j \in I : w[i] = w[j] => i = j
  BY <1>2
<1>4. /\ s \in [1 .. n -> I]
      /\ \A i, j \in 1 .. n : i < j => w[s[i]] < w[s[j]]
      /\ \A x \in I : \E i \in 1 .. n : s[i] = x
  <2> DEFINE Below == [x \in I |-> A(x)]
             c == [x \in I |-> Cardinality(A(x))]
  <2>1. Below \in [I -> SUBSET I] /\ \A x, y \in I : y \in Below[x] <=> w[y] < w[x]
    OBVIOUS
  <2>2. \A x \in I : c[x] = Cardinality(Below[x]) /\ c[x] = Cardinality(A(x))
    OBVIOUS
  <2> HIDE DEF Below
  <2>3. ASSUME NEW i \in 1 .. n, \E x \in I : Cardinality(Below[x]) = i - 1
        PROVE  s[i] \in I /\ Cardinality(Below[s[i]]) = i - 1
    <3>1. \E x \in I : Cardinality(A(x)) = i - 1
      BY <2>2, <2>3
    <3>2. At(i) \in I /\ Cardinality(A(At(i))) = i - 1
      <4> HIDE DEF A, I
      <4>1. QED
        BY <3>1, Zenon
    <3>3. s[i] = At(i)
      BY <1>1
    <3> HIDE DEF A, At, n, c
    <3>4. QED
      BY <2>2, <3>2, <3>3
  <2> HIDE DEF At, n, A, c
  <2>4. s = [i \in 1 .. n |-> s[i]]
    BY <1>1
  <2>5. \A i \in 1 .. Cardinality(I) :
             (\E x \in I : Cardinality(Below[x]) = i - 1) => s[i] \in I /\ Cardinality(Below[s[i]]) = i - 1
    BY <1>2, <2>3, Zenon
  <2>6. IsFiniteSet(I)
    BY <1>2
  <2>7. /\ \A i \in 1 .. Cardinality(I) : s[i] \in I
        /\ \A i, j \in 1 .. Cardinality(I) : i < j => w[s[i]] < w[s[j]]
        /\ \A x \in I : \E i \in 1 .. Cardinality(I) : s[i] = x
    <3> HIDE DEF w
    <3>1. QED
      BY <1>3, <2>1, <2>5, <2>6, Ranked
  <2>8. s \in [1 .. n -> I]
    BY <1>2, <2>4, <2>7
  <2>9. QED
    BY <1>2, <2>7, <2>8
<1> HIDE DEF w
<1>5. \A i \in I : w[i] = b.recs[i].key
  BY DEF w
<1>6. \A i, j \in 1 .. n : i < j => b.recs[s[i]].key < b.recs[s[j]].key
  BY <1>4, <1>5
<1>7. QED
  BY <1>0, <1>4, <1>6 DEF s

(* Listed so it is a row. *)
USorted(b) == [i \in 0 .. b.entries - 1 |-> b.recs[U!SortedIndex(b)[i + 1]]]

(* The sorted index turns the slots into a row. *)
LEMMA USortedRow ==
  ASSUME NEW b, UGood(b)
  PROVE  /\ Row(USorted(b), b.entries) /\ RowSet(USorted(b), b.entries) = UPairs(b)
         /\ \A i \in 1 .. b.entries : /\ U!SortedIndex(b)[i] \in 0 .. b.entries - 1
                                      /\ b.recs[U!SortedIndex(b)[i]] = USorted(b)[i - 1]
<1> DEFINE n == b.entries
           s == U!SortedIndex(b)
           f == USorted(b)
<1>1. n \in Nat /\ \A i \in 0 .. n - 1 : b.recs[i] \in Pair
  BY UGoodParts
<1>2. /\ s \in [1 .. n -> 0 .. n - 1]
      /\ \A i, j \in 1 .. n : i < j => b.recs[s[i]].key < b.recs[s[j]].key
      /\ \A x \in 0 .. n - 1 : \E i \in 1 .. n : s[i] = x
  BY URanks
<1>3. \A i \in 0 .. n - 1 : f[i] = b.recs[s[i + 1]]
  BY DEF USorted
<1> HIDE DEF f, s, n
<1>4. \A i \in 0 .. n - 1 : i + 1 \in 1 .. n /\ s[i + 1] \in 0 .. n - 1
  BY <1>1, <1>2
<1>5. \A i \in 1 .. n : i - 1 \in 0 .. n - 1 /\ (i - 1) + 1 = i
  BY <1>1
<1>6. Row(f, n)
  <2>1. \A i \in 0 .. n - 1 : f[i] \in Pair
    BY <1>1, <1>3, <1>4
  <2>2. \A i, j \in 0 .. n - 1 : i < j => f[i].key < f[j].key
    <3>1. ASSUME NEW i \in 0 .. n - 1, NEW j \in 0 .. n - 1, i < j PROVE f[i].key < f[j].key
      <4>1. i + 1 < j + 1
        BY <3>1
      <4>2. QED
        BY <1>2, <1>3, <1>4, <4>1
    <3>2. QED
      BY <3>1
  <2>3. QED
    BY <2>1, <2>2 DEF Row
<1>7. \A i \in 1 .. n : b.recs[s[i]] = f[i - 1] /\ s[i] \in 0 .. n - 1
  BY <1>2, <1>3, <1>5
<1>8. RowSet(f, n) = RowSet(b.recs, n)
  <2>1. \A i \in 0 .. n - 1 : \E j \in 0 .. n - 1 : f[i] = b.recs[j]
    BY <1>3, <1>4
  <2>2. \A j \in 0 .. n - 1 : \E i \in 0 .. n - 1 : f[i] = b.recs[j]
    <3>1. ASSUME NEW j \in 0 .. n - 1 PROVE \E i \in 0 .. n - 1 : f[i] = b.recs[j]
      <4>1. PICK i \in 1 .. n : s[i] = j
        BY <1>2
      <4>2. i - 1 \in 0 .. n - 1 /\ f[i - 1] = b.recs[j]
        BY <1>5, <1>7, <4>1
      <4>3. QED
        BY <4>2
    <3>2. QED
      BY <3>1
  <2>3. \A r : r \in RowSet(f, n) <=> r \in RowSet(b.recs, n)
    BY <2>1, <2>2 DEF RowSet
  <2>4. QED
    BY <2>3
<1>9. QED
  BY <1>6, <1>7, <1>8 DEF f, s, n, UPairs

(* The iterator yields every pair in key order. *)
LEMMA UIterIs ==
  ASSUME NEW b, UGood(b)
  PROVE  /\ U!Iter(b) \in [1 .. b.entries -> Pair]
         /\ \A i \in 1 .. b.entries : U!Iter(b)[i] = USorted(b)[i - 1]
         /\ Ascends(U!Iter(b), UPairs(b))
<1> DEFINE n == b.entries
           s == U!Iter(b)
           f == USorted(b)
<1>1. n \in Nat /\ Row(f, n) /\ RowSet(f, n) = UPairs(b)
      /\ \A i \in 1 .. n : b.recs[U!SortedIndex(b)[i]] = f[i - 1]
  BY UGoodParts, USortedRow
<1>2. s = [i \in 1 .. n |-> b.recs[U!SortedIndex(b)[i]]]
  BY DEF U!Iter
<1> HIDE DEF f, n, s
<1>3. \A i \in 1 .. n : s[i] = f[i - 1]
  BY <1>1, <1>2
<1>4. \A i \in 1 .. n : s[i] \in Pair
  <2>1. \A i \in 1 .. n : i - 1 \in 0 .. n - 1
    BY <1>1
  <2>2. QED
    BY <1>1, <1>3, <2>1 DEF Row
<1>5. s \in [1 .. n -> Pair]
  BY <1>2, <1>4
<1>6. Ascends(s, RowSet(f, n))
  BY <1>1, <1>3, <1>5, RowAll
<1>7. QED
  BY <1>1, <1>3, <1>5, <1>6 DEF s, n, f

(* And from a key, the pairs from there on. *)
LEMMA UIterFrom ==
  ASSUME NEW b, UGood(b), NEW k \in Keys, NEW p, NEW R,
         \A r : r \in R <=> r \in UPairs(b) /\ r.key >= k
  PROVE  /\ k <= p => Ascends(U!IterFrom(b, k, p), UPairs(b))
         /\ ~ (k <= p) => Ascends(U!IterFrom(b, k, p), R)
<1> DEFINE n == b.entries
           s == U!Iter(b)
           f == USorted(b)
           T == {i \in 1 .. n : s[i].key >= k} \union {n + 1}
<1>1. n \in Nat /\ Row(f, n) /\ RowSet(f, n) = UPairs(b) /\ k \in Int
  BY UGoodParts, USortedRow, Sizes
<1>2. s \in [1 .. n -> Pair] /\ \A i \in 1 .. n : s[i] = f[i - 1]
  BY UIterIs
<1>3. \A i \in 1 .. n : s[i].key \in Int
  BY <1>2, PairParts
<1>4. CASE k <= p
  <2>1. U!IterFrom(b, k, p) = U!Iter(b)
    BY <1>4 DEF U!IterFrom
  <2>2. QED
    BY <1>4, <2>1, UIterIs
<1>5. CASE ~ (k <= p)
  <2>1. T \in SUBSET Int /\ T # {} /\ \A x \in T : 1 <= x
    BY <1>1
  <2>2. PICK a \in T : a = U!Min(T) /\ \A y \in T : a <= y
    <3>1. U!Min(T) = Min(T)
      BY DEF U!Min, Min
    <3> HIDE DEF T
    <3>2. Min(T) \in T /\ \A y \in T : Min(T) <= y
      BY <2>1, MinProperty
    <3>3. QED
      BY <3>1, <3>2
  <2>3. U!IterFrom(b, k, p) = SubSeq(s, a, n)
    <3>1. U!IterFrom(b, k, p) = SubSeq(s, U!Min(T), n)
      BY <1>5 DEF U!IterFrom
    <3>2. QED
      BY <2>2, <3>1
  <2> HIDE DEF s, f, n
  <2>4. a \in 1 .. n + 1 /\ (a # n + 1 => s[a].key >= k)
    BY <1>1, <2>2
  <2>5. \A i \in 1 .. n : i < a => ~ (s[i].key >= k)
    BY <1>1, <2>2, <2>4
  <2> HIDE DEF T
  <2> DEFINE q == a - 1
             u == SubSeq(s, a, n)
  <2>6. q \in 0 .. n /\ a = q + 1
    BY <1>1, <2>4
  <2> HIDE DEF q
  <2>7. \A i \in 0 .. n - 1 : (i < q => ~ (f[i].key >= k)) /\ (i >= q => f[i].key >= k)
    <3>1. ASSUME NEW i \in 0 .. n - 1, i < q PROVE ~ (f[i].key >= k)
      <4>1. i + 1 \in 1 .. n /\ i + 1 < a /\ (i + 1) - 1 = i
        BY <1>1, <2>6, <3>1
      <4>2. QED
        BY <1>2, <2>5, <4>1
    <3>2. ASSUME NEW i \in 0 .. n - 1, i >= q PROVE f[i].key >= k
      <4>1. q \in 0 .. n - 1 /\ q + 1 \in 1 .. n /\ (q + 1) - 1 = q /\ a # n + 1
        BY <1>1, <2>6, <3>2
      <4>2. f[q].key >= k
        BY <1>2, <2>4, <2>6, <4>1
      <4>3. q = i \/ f[q].key < f[i].key
        BY <1>1, <3>2, <4>1 DEF Row
      <4>4. f[q].key \in Int /\ f[i].key \in Int
        BY <1>1, <4>1, RowKeys
      <4>5. QED
        BY <1>1, <4>2, <4>3, <4>4
    <3>3. QED
      BY <3>1, <3>2
  <2>8. u \in [1 .. n - q -> Pair] /\ \A i \in 1 .. n - q : u[i] = f[q + i - 1]
    <3>1. s \in Seq(Pair) /\ Len(s) = n
      BY <1>1, <1>2, FunctionSeq
    <3>2. Len(u) = n - q /\ u \in Seq(Pair) /\ \A i \in 1 .. n - q : u[i] = s[q + i] /\ q + i \in 1 .. n
      BY <1>1, <2>6, <3>1
    <3> HIDE DEF u
    <3>3. ASSUME NEW i \in 1 .. n - q PROVE u[i] = f[q + i - 1]
      <4>1. u[i] = s[q + i] /\ q + i \in 1 .. n
        BY <3>2
      <4>2. s[q + i] = f[(q + i) - 1]
        BY <1>2, <4>1
      <4>3. (q + i) - 1 = q + i - 1
        BY <1>1, <2>6
      <4>4. QED
        BY <4>1, <4>2, <4>3
    <3>4. QED
      BY <3>2, <3>3
  <2> HIDE DEF u
  <2>9. \A r : r \in R <=> r \in RowSet(f, n) /\ r.key >= k
    BY <1>1
  <2>10. Ascends(u, R)
    BY <1>1, <2>6, <2>7, <2>8, <2>9, RowFrom
  <2>11. QED
    BY <1>5, <2>3, <2>10 DEF u
<1>6. QED
  BY <1>4, <1>5

(* What the removals of a split leave. *)
UCut(b) ==
  LET rank  == U!SortedIndex(b)
      half  == b.entries \div 2
      upper == b.entries - half
      cut[n \in 0 .. upper] ==
        IF n = 0 THEN b
        ELSE U!RemoveKey(cut[n - 1], cut[n - 1].recs[rank[half + n]].key, b.entries - n + 1)
  IN  cut[upper]

(* The lower half remains.  After each turn the slots still in use hold    *)
(* the pairs whose keys have not been removed, and the slots from which    *)
(* the later turns read their keys have not been written to.               *)
LEMMA UCutIs ==
  ASSUME NEW b, UGood(b), b.entries >= MaxEntries
  PROVE  LET c == UCut(b)
             half == b.entries \div 2
         IN  /\ c \in UBuckets /\ c.entries = b.entries /\ c.next = b.next
             /\ Distinct(c.recs, half)
             /\ \A r : r \in RowSet(c.recs, half) <=> r \in UPairs(b) /\ r.key < USorted(b)[half].key
<1> DEFINE e == b.entries
           half == e \div 2
           u == e - half
           s == U!SortedIndex(b)
           f == USorted(b)
           B == {c \in UBuckets : c.entries = e /\ c.next = b.next}
           K(m) == f[(half + m) - 1].key
           Turn(c, n) == U!RemoveKey(c, c.recs[s[half + n]].key, e - n + 1)
           P(g) == g = [n \in 0 .. u |-> IF n = 0 THEN b ELSE Turn(g[n - 1], n)]
           F == [t \in B \X (0 + 1 .. u) |-> Turn(t[1], t[2])]
<1>1. /\ e \in Nat /\ e = MaxEntries /\ e >= 2 /\ MaxEntries \in Nat /\ b \in UBuckets
      /\ Distinct(b.recs, e)
  BY UGoodParts DEF UGood
<1>2. /\ Row(f, e) /\ RowSet(f, e) = UPairs(b)
      /\ \A i \in 1 .. e : s[i] \in 0 .. e - 1 /\ b.recs[s[i]] = f[i - 1]
  BY USortedRow
<1>3. UCut(b) = (CHOOSE g : P(g))[u]
  BY DEF UCut
<1> HIDE DEF e
<1>4. half \in Nat /\ half >= 1 /\ half < e
  BY <1>1
<1> HIDE DEF half
<1>5. u \in Nat /\ u >= 1 /\ half + u = e /\ e - u = half /\ u <= e /\ 0 + 1 = 1
  BY <1>1, <1>4
<1> HIDE DEF u, f, s
<1>6. \A n \in 1 .. u : /\ e - n + 1 = (e - n) + 1 /\ e - n \in 0 .. MaxEntries - 1 /\ n - 1 \in 0 .. u
                        /\ half + n \in 1 .. e /\ (half + n) - 1 \in 0 .. e - 1 /\ n \in 0 .. u
  BY <1>1, <1>4, <1>5
<1>7. \A n \in 1 .. u : /\ s[half + n] \in 0 .. MaxEntries - 1 /\ b.recs[s[half + n]] = f[(half + n) - 1]
                        /\ f[(half + n) - 1] \in UPairs(b)
  BY <1>1, <1>2, <1>6 DEF RowSet
<1>8. \A m, n \in 1 .. u : K(m) = K(n) => m = n
  <2>1. ASSUME NEW m \in 1 .. u, NEW n \in 1 .. u, K(m) = K(n) PROVE m = n
    <3>1. (half + m) - 1 \in 0 .. e - 1 /\ (half + n) - 1 \in 0 .. e - 1
      BY <1>6
    <3>2. (half + m) - 1 = (half + n) - 1
      BY <1>1, <1>2, <2>1, <3>1, RowKeys
    <3>3. QED
      BY <1>4, <1>5, <3>2
  <2>2. QED
    BY <2>1
<1>9. \A c \in B, n \in 1 .. u : Turn(c, n) \in B
  <2>1. ASSUME NEW c \in B, NEW n \in 1 .. u PROVE Turn(c, n) \in B
    <3>1. c \in UBuckets /\ c.entries = e /\ c.next = b.next /\ c.entries <= MaxEntries
      BY <1>1
    <3> DEFINE k == c.recs[s[half + n]].key
               x == e - n
    <3>2. x \in 0 .. MaxEntries - 1
      BY <1>6
    <3>3. Turn(c, n) = U!RemoveKey(c, k, x + 1)
      OBVIOUS
    <3> HIDE DEF k, x, Turn
    <3>4. U!RemoveKey(c, k, x + 1) \in UBuckets /\ U!RemoveKey(c, k, x + 1).entries = c.entries
          /\ U!RemoveKey(c, k, x + 1).next = c.next
      <4>1. URemoved(c, k, x, U!RemoveKey(c, k, x + 1))
        BY <3>1, <3>2, URemoveIs
      <4>2. QED
        BY <4>1 DEF URemoved
    <3>5. QED
      BY <3>1, <3>3, <3>4
  <2>2. QED
    BY <2>1
<1>10. \A c, n : Turn(c, n) = U!RemoveKey(c, c.recs[s[half + n]].key, e - n + 1)
  OBVIOUS
<1> HIDE DEF Turn
<1>11. F \in [B \X (0 + 1 .. u) -> B]
  BY <1>5, <1>9
<1>12. b \in B /\ b.entries = e
  BY <1>1 DEF e
<1> HIDE DEF F, B
<1>13. PICK g : Steps(g, 0, u, B, b, F)
  <2>1. 0 \in Int /\ u \in Int /\ 0 <= u
    BY <1>5
  <2>2. QED
    BY <1>11, <1>12, <2>1, StepsExist
<1>14. P(g)
  <2>1. ASSUME NEW j \in 0 .. u
        PROVE  (IF j = 0 THEN b ELSE F[<<g[j - 1], j>>]) = IF j = 0 THEN b ELSE Turn(g[j - 1], j)
    <3>1. CASE j = 0
      BY <3>1
    <3>2. CASE j # 0
      <4>1. j \in 0 + 1 .. u /\ j \in 1 .. u
        BY <1>5, <3>2
      <4>2. j - 1 \in 0 .. u
        BY <1>5, <4>1
      <4>3. g[j - 1] \in B
        BY <1>13, <4>2 DEF Steps
      <4> DEFINE t == <<g[j - 1], j>>
      <4>4. t \in B \X (0 + 1 .. u) /\ t[1] = g[j - 1] /\ t[2] = j
        BY <4>1, <4>3
      <4>5. F[t] = Turn(t[1], t[2])
        BY <4>4 DEF F
      <4>6. QED
        BY <3>2, <4>4, <4>5
    <3>3. QED
      BY <3>1, <3>2
  <2>2. g = [j \in 0 .. u |-> IF j = 0 THEN b ELSE F[<<g[j - 1], j>>]]
    BY <1>13 DEF Steps
  <2>3. QED
    BY <2>1, <2>2
<1>15. P(CHOOSE h : P(h))
  <2> HIDE DEF P
  <2>1. QED
    BY <1>14
<1> DEFINE h == CHOOSE d : P(d)
<1>16. P(h) /\ UCut(b) = h[u]
  BY <1>3, <1>15
<1> HIDE DEF h
<1>17. h[0] = b /\ \A n \in 1 .. u : h[n] = Turn(h[n - 1], n)
  <2>1. h = [n \in 0 .. u |-> IF n = 0 THEN b ELSE Turn(h[n - 1], n)]
    BY <1>16
  <2>2. 0 \in 0 .. u /\ \A n \in 1 .. u : n \in 0 .. u /\ n # 0
    BY <1>5
  <2>3. QED
    BY <2>1, <2>2
<1> HIDE DEF P
<1> DEFINE Q(n) == /\ h[n] \in B /\ Distinct(h[n].recs, e - n)
                   /\ \A r : r \in RowSet(h[n].recs, e - n) <=> r \in UPairs(b) /\ \A m \in 1 .. n : r.key # K(m)
                   /\ \A m \in n + 1 .. u : h[n].recs[s[half + m]] = b.recs[s[half + m]]
           G == {n \in 0 .. u : Q(n)}
<1>18. 0 \in G
  <2>1. e - 0 = e /\ 1 .. 0 = {} /\ 0 \in 0 .. u
    BY <1>1, <1>5
  <2>2. UPairs(b) = RowSet(b.recs, e)
    BY DEF UPairs, e
  <2> HIDE DEF K
  <2>3. QED
    BY <1>1, <1>12, <1>17, <2>1, <2>2
<1>19. ASSUME NEW n \in 0 .. u - 1, n \in G PROVE n + 1 \in G
  <2> DEFINE y == e - (n + 1)
             c == h[n]
             d == h[n + 1]
             k == K(n + 1)
             z == f[(half + (n + 1)) - 1]
  <2>1. /\ n \in Nat /\ n \in 0 .. u /\ n + 1 \in 1 .. u /\ n + 1 \in 0 .. u /\ (n + 1) - 1 = n
        /\ y \in Nat /\ y + 1 = e - n /\ y + 1 <= e /\ e - (n + 1) + 1 = y + 1
        /\ \A m \in 1 .. n : m \in 1 .. u /\ m # n + 1 /\ m \in 1 .. n + 1
        /\ \A m \in 1 .. n + 1 : m \in 1 .. n \/ m = n + 1
        /\ \A m \in (n + 1) + 1 .. u : m \in 1 .. u /\ m # n + 1 /\ m \in n + 1 .. u
        /\ n + 1 \in n + 1 .. u
    BY <1>1, <1>5
  <2>2. Q(n)
    BY <1>19
  <2>3. c \in UBuckets /\ c.entries = e /\ c.next = b.next /\ c.entries <= MaxEntries
    BY <1>1, <2>2 DEF B
  <2>4. d = U!RemoveKey(c, c.recs[s[half + (n + 1)]].key, y + 1)
    BY <1>10, <1>17, <2>1
  <2>5. c.recs[s[half + (n + 1)]] = z
    BY <1>7, <2>1, <2>2
  <2>6. z.key = k /\ z \in UPairs(b)
    BY <1>7, <2>1
  <2>7. z \in RowSet(c.recs, y + 1)
    <3>1. \A m \in 1 .. n : z.key # K(m)
      <4> HIDE DEF K, z
      <4>1. QED
        BY <1>8, <2>1, <2>6
    <3> HIDE DEF K, z, y
    <3>2. QED
      BY <2>1, <2>2, <2>6, <3>1
  <2>8. PICK q \in 0 .. y : c.recs[q] = z
    <3>1. (y + 1) - 1 = y
      BY <2>1
    <3> HIDE DEF y, z, c
    <3>2. QED
      BY <2>7, <3>1 DEF RowSet
  <2>9. Distinct(c.recs, y + 1)
    BY <2>1, <2>2
  <2> HIDE DEF y, c, d, k, z
  <2>10. d = U!RemoveKey(c, k, y + 1) /\ c.recs[q].key = k
    BY <2>4, <2>5, <2>6, <2>8
  <2>11. /\ d \in UBuckets /\ d.entries = c.entries /\ d.next = c.next
         /\ Distinct(d.recs, y)
         /\ \A r : r \in RowSet(d.recs, y) <=> r \in RowSet(c.recs, y + 1) /\ r.key # k
         /\ \A i \in 0 .. MaxEntries - 1 : i # q => d.recs[i] = c.recs[i]
    BY <2>1, <2>3, <2>8, <2>9, <2>10, URemoveFills
  <2>12. d \in B
    BY <2>3, <2>11 DEF B
  <2>13. \A r : r \in RowSet(d.recs, y) <=> r \in UPairs(b) /\ \A m \in 1 .. n + 1 : r.key # K(m)
    <3>1. \A r : r \in RowSet(c.recs, y + 1) <=> r \in UPairs(b) /\ \A m \in 1 .. n : r.key # K(m)
      BY <2>1, <2>2 DEF c
    <3>2. k = K(n + 1)
      BY DEF k
    <3> HIDE DEF K
    <3>3. QED
      BY <2>1, <2>11, <3>1, <3>2
  <2>14. \A m \in (n + 1) + 1 .. u : d.recs[s[half + m]] = b.recs[s[half + m]]
    <3>1. ASSUME NEW m \in (n + 1) + 1 .. u PROVE d.recs[s[half + m]] = b.recs[s[half + m]]
      <4>1. c.recs[s[half + m]] = b.recs[s[half + m]] /\ m \in 1 .. u
        BY <2>1, <2>2 DEF c
      <4>2. c.recs[s[half + m]].key = K(m) /\ K(m) # k
        BY <1>7, <1>8, <2>1, <4>1 DEF k
      <4>3. s[half + m] # q
        BY <2>10, <4>2
      <4>4. QED
        BY <1>7, <2>11, <4>1, <4>3
    <3>2. QED
      BY <3>1
  <2>15. Q(n + 1)
    BY <2>11, <2>12, <2>13, <2>14 DEF d, y
  <2> HIDE DEF Q
  <2>16. QED
    BY <2>1, <2>15
<1> HIDE DEF G
<1>20. u \in G
  <2>1. \A i \in 0 .. u : i \in G
    BY <1>5, <1>18, <1>19, Induct
  <2>2. QED
    BY <1>5, <2>1
<1>21. Q(u)
  BY <1>20 DEF G
<1>22. \A r : r \in RowSet(h[u].recs, half) <=> r \in UPairs(b) /\ r.key < f[half].key
  <2>1. \A r : r \in RowSet(h[u].recs, half) <=> r \in UPairs(b) /\ \A m \in 1 .. u : r.key # K(m)
    BY <1>5, <1>21
  <2>2. half \in 0 .. e - 1
    BY <1>1, <1>4
  <2>3. ASSUME NEW r \in UPairs(b) PROVE (\A m \in 1 .. u : r.key # K(m)) <=> r.key < f[half].key
    <3>1. PICK i \in 0 .. e - 1 : r = f[i]
      BY <1>2 DEF RowSet
    <3>2. CASE i < half
      <4>1. r.key < f[half].key
        BY <1>2, <2>2, <3>1, <3>2 DEF Row
      <4>2. ASSUME NEW m \in 1 .. u, r.key = K(m) PROVE FALSE
        <5>1. (half + m) - 1 \in 0 .. e - 1 /\ i # (half + m) - 1
          BY <1>4, <1>5, <1>6, <3>2
        <5>2. QED
          BY <1>1, <1>2, <3>1, <4>2, <5>1, RowKeys
      <4>3. QED
        BY <4>1, <4>2
    <3>3. CASE ~ (i < half)
      <4> DEFINE m == (i - half) + 1
      <4>1. m \in 1 .. u /\ (half + m) - 1 = i
        BY <1>1, <1>4, <1>5, <3>3
      <4>2. r.key = K(m)
        BY <3>1, <4>1
      <4>3. ~ (r.key < f[half].key)
        BY <1>1, <1>2, <2>2, <3>1, <3>3, RowKeys
      <4> HIDE DEF m
      <4>4. QED
        BY <4>1, <4>2, <4>3
    <3>4. QED
      BY <3>2, <3>3
  <2> HIDE DEF K
  <2>4. QED
    BY <2>1, <2>3
<1>23. h[u] \in UBuckets /\ h[u].entries = e /\ h[u].next = b.next /\ Distinct(h[u].recs, half)
  BY <1>5, <1>21 DEF B
<1>24. QED
  BY <1>16, <1>22, <1>23 DEF e, half, f

(* A bucket with other pairs, count and successor. *)
LEMMA URowMake ==
  ASSUME NEW b, NEW R, NEW e, NEW x, URow(b, R, e, x), NEW R1, NEW e1, NEW x1
  PROVE  /\ URow([b EXCEPT !.entries = e1, !.next = x1], R, e1, x1)
         /\ URow([b EXCEPT !.recs = R1, !.entries = e1, !.next = x1], R1, e1, x1)
<1>1. ASSUME NEW c, NEW R2, URow(c, R2, e, x) PROVE URow([c EXCEPT !.entries = e1, !.next = x1], R2, e1, x1)
  <2> DEFINE d == [c EXCEPT !.entries = e1]
  <2>1. [c EXCEPT !.entries = e1, !.next = x1] = [d EXCEPT !.next = x1]
    BY Zenon
  <2>2. URow(d, R2, e1, x)
    BY <1>1 DEF URow
  <2> HIDE DEF d
  <2>3. URow([d EXCEPT !.next = x1], R2, e1, x1)
    BY <2>2 DEF URow
  <2>4. QED
    BY <2>1, <2>3
<1> DEFINE f == [b EXCEPT !.recs = R1]
<1>2. URow(f, R1, e, x)
  BY DEF URow
<1>3. [b EXCEPT !.recs = R1, !.entries = e1, !.next = x1] = [f EXCEPT !.entries = e1, !.next = x1]
  BY Zenon
<1> HIDE DEF f
<1>4. URow([f EXCEPT !.entries = e1, !.next = x1], R1, e1, x1)
  BY <1>1, <1>2
<1>5. QED
  BY <1>1, <1>3, <1>4

(* A split parts the pairs at split_key. *)
LEMMA UExpand ==
  ASSUME NEW b, UGood(b), b.entries >= MaxEntries, NEW nid \in Nat
  PROVE  LET x == U!Expand(b, nid)
         IN  /\ UGood(x.left) /\ UGood(x.right)
             /\ x.left.next = nid /\ x.right.next = b.next
             /\ x.left.entries < MaxEntries /\ x.right.entries < MaxEntries
             /\ \E q \in UPairs(b) : q.key = x.split_key
             /\ \E q \in UPairs(b) : q.key < x.split_key
             /\ \A r : /\ r \in UPairs(x.left) <=> r \in UPairs(b) /\ r.key < x.split_key
                       /\ r \in UPairs(x.right) <=> r \in UPairs(b) /\ r.key >= x.split_key
<1> DEFINE x == U!Expand(b, nid)
           e == b.entries
           half == e \div 2
           u == e - half
           s == U!SortedIndex(b)
           f == USorted(b)
           c == UCut(b)
           l == [c EXCEPT !.entries = half, !.next = nid]
           R == [i \in DOMAIN b.recs |-> IF i < u THEN b.recs[s[half + i + 1]] ELSE U!Empty.recs[i]]
           g == [U!Empty EXCEPT !.recs = R, !.entries = u, !.next = b.next]
<1>1. /\ e \in Nat /\ e = MaxEntries /\ e >= 2 /\ MaxEntries \in Nat /\ b.next \in Nat
      /\ b.recs \in [0 .. MaxEntries - 1 -> Record] /\ DOMAIN b.recs = 0 .. MaxEntries - 1
  BY UGoodParts
<1>2. /\ Row(f, e) /\ RowSet(f, e) = UPairs(b)
      /\ \A i \in 1 .. e : s[i] \in 0 .. e - 1 /\ b.recs[s[i]] = f[i - 1]
  BY USortedRow
<1>3. /\ c \in UBuckets /\ c.entries = e /\ c.next = b.next /\ Distinct(c.recs, half)
      /\ \A r : r \in RowSet(c.recs, half) <=> r \in UPairs(b) /\ r.key < f[half].key
  BY UCutIs
<1>4. x.split_key = b.recs[s[half + 1]].key
  BY DEF U!Expand
<1>5. x.right = g
  BY DEF U!Expand
<1>6. x.left = l
  <2>1. x.left = [UCut(b) EXCEPT !.entries = b.entries \div 2, !.next = nid]
    BY DEF U!Expand, UCut
  <2>2. QED
    BY <2>1
<1> HIDE DEF x, l, g, R, c, e
<1>7. half \in Nat /\ half >= 1 /\ half < e
  BY <1>1
<1> HIDE DEF half
<1>8. u \in Nat /\ u >= 1 /\ u < e /\ half + u = e /\ e - half = u /\ half \in 0 .. e - 1 /\ half < MaxEntries
      /\ half + 1 \in 1 .. e /\ (half + 1) - 1 = half /\ 0 \in 0 .. e - 1
  BY <1>1, <1>7
<1> HIDE DEF u, s, f
<1>9. x.split_key = f[half].key
  BY <1>2, <1>4, <1>8
<1>10. /\ \A i \in 0 .. u - 1 : R[i] = f[half + i]
       /\ R \in [0 .. MaxEntries - 1 -> Record]
  <2>1. \A i \in 0 .. u - 1 : i < u /\ i \in 0 .. MaxEntries - 1 /\ half + i + 1 \in 1 .. e
                              /\ (half + i + 1) - 1 = half + i
    BY <1>1, <1>7, <1>8
  <2>2. \A i \in 0 .. MaxEntries - 1 : i < u => i \in 0 .. u - 1
    BY <1>8
  <2>3. \A i \in 0 .. u - 1 : R[i] = b.recs[s[half + i + 1]]
    BY <1>1, <2>1 DEF R
  <2>4. \A i \in 0 .. u - 1 : b.recs[s[half + i + 1]] \in Record
    BY <1>1, <1>2, <2>1
  <2>5. \A i \in 0 .. MaxEntries - 1 : U!Empty.recs[i] \in Record
    BY Sizes DEF U!Empty, U!Rec, Record
  <2>6. \A i \in 0 .. MaxEntries - 1 :
          (IF i < u THEN b.recs[s[half + i + 1]] ELSE U!Empty.recs[i]) \in Record
    BY <2>2, <2>4, <2>5
  <2>7. R \in [0 .. MaxEntries - 1 -> Record]
    BY <1>1, <2>6 DEF R
  <2>8. \A i \in 0 .. u - 1 : R[i] = f[half + i]
    BY <1>2, <2>1, <2>3
  <2>9. QED
    BY <2>7, <2>8
<1>11. URow(g, R, u, b.next)
  <2>1. URow(U!Empty, U!Empty.recs, 0, 0)
    BY DEF URow, U!Empty
  <2>2. QED
    BY <2>1, URowMake DEF g
<1>12. g.recs = R /\ g.entries = u /\ g.next = b.next /\ g \in UBuckets
  BY <1>1, <1>8, <1>10, <1>11, URowParts
<1>13. /\ Row(R, u)
       /\ \A r : r \in RowSet(R, u) <=> r \in UPairs(b) /\ r.key >= f[half].key
  <2>1. \A i \in 0 .. e - half - 1 : R[i] = f[half + i]
    BY <1>8, <1>10
  <2>2. /\ Row(f, half) /\ Row(R, e - half)
        /\ \A r : /\ r \in RowSet(f, half) <=> r \in RowSet(f, e) /\ r.key < f[half].key
                  /\ r \in RowSet(R, e - half) <=> r \in RowSet(f, e) /\ r.key >= f[half].key
    BY <1>1, <1>2, <1>8, <2>1, RowCut
  <2>3. QED
    BY <1>2, <1>8, <2>2
<1>14. UGood(g) /\ UPairs(g) = RowSet(R, u)
  <2>1. Distinct(R, u)
    BY <1>8, <1>13, RowDistinct
  <2>2. u <= MaxEntries
    BY <1>1, <1>8
  <2>3. QED
    BY <1>12, <2>1, <2>2 DEF UGood, UPairs
<1>15. URow(l, c.recs, half, nid)
  <2>1. URow(c, c.recs, e, b.next)
    BY <1>3, UParts
  <2>2. QED
    BY <2>1, URowMake DEF l
<1>16. l.recs = c.recs /\ l.entries = half /\ l.next = nid /\ l \in UBuckets
  BY <1>3, <1>7, <1>15, UParts, URowParts
<1>17. UGood(l) /\ UPairs(l) = RowSet(c.recs, half)
  BY <1>1, <1>3, <1>7, <1>8, <1>16 DEF UGood, UPairs
<1>18. f[half] \in UPairs(b) /\ f[0] \in UPairs(b) /\ f[0].key < f[half].key
  BY <1>2, <1>7, <1>8 DEF Row, RowSet
<1>19. u < MaxEntries /\ half < MaxEntries
  BY <1>1, <1>8
<1>20. \A r : /\ r \in UPairs(l) <=> r \in UPairs(b) /\ r.key < x.split_key
              /\ r \in UPairs(g) <=> r \in UPairs(b) /\ r.key >= x.split_key
  BY <1>3, <1>9, <1>13, <1>14, <1>17
<1>21. QED
  BY <1>5, <1>6, <1>9, <1>12, <1>14, <1>16, <1>17, <1>18, <1>19, <1>20 DEF x

-----------------------------------------------------------------------------
(* The indexed bucket *)

XBuckets == [buf : [0 .. MaxEntries - 1 -> Record], bitmap : SUBSET (0 .. MaxEntries - 1),
             total_indexs : [0 .. MaxEntries - 1 -> 0 .. MaxEntries - 1], entries : Nat, next : Nat]

(* The slots in the order of the ranks. *)
XList(b) == [n \in 0 .. MaxEntries - 1 |-> b.buf[b.total_indexs[n]]]

XPairs(b) == RowSet(XList(b), b.entries)

XGood(b) ==
  /\ b \in XBuckets /\ b.entries <= MaxEntries
  /\ Row(XList(b), b.entries)
  /\ b.bitmap = {b.total_indexs[n] : n \in 0 .. b.entries - 1}

XRow(b, B, M, T, e, x) ==
  b = [buf |-> B, bitmap |-> M, total_indexs |-> T, entries |-> e, next |-> x]

(* A bucket made of its fields. *)
LEMMA XRowParts ==
  ASSUME NEW b, NEW B, NEW M, NEW T, NEW e, NEW x, XRow(b, B, M, T, e, x)
  PROVE  /\ b.buf = B /\ b.bitmap = M /\ b.total_indexs = T /\ b.entries = e /\ b.next = x
         /\ b \in XBuckets <=> /\ B \in [0 .. MaxEntries - 1 -> Record]
                               /\ M \in SUBSET (0 .. MaxEntries - 1)
                               /\ T \in [0 .. MaxEntries - 1 -> 0 .. MaxEntries - 1]
                               /\ e \in Nat /\ x \in Nat
BY DEF XRow, XBuckets

(* The fields of an indexed bucket. *)
LEMMA XParts ==
  ASSUME NEW b \in XBuckets
  PROVE  /\ b.buf \in [0 .. MaxEntries - 1 -> Record] /\ b.bitmap \in SUBSET (0 .. MaxEntries - 1)
         /\ b.total_indexs \in [0 .. MaxEntries - 1 -> 0 .. MaxEntries - 1]
         /\ b.entries \in Nat /\ b.next \in Nat
         /\ XRow(b, b.buf, b.bitmap, b.total_indexs, b.entries, b.next)
BY DEF XRow, XBuckets

(* What a good bucket says of its ranks, slots and bitmap. *)
LEMMA XGoodParts ==
  ASSUME NEW b, XGood(b)
  PROVE  /\ b \in XBuckets /\ b.entries \in Nat /\ b.entries <= MaxEntries /\ b.next \in Nat
         /\ MaxEntries \in Nat /\ MaxEntries >= 2 /\ Row(XList(b), b.entries)
         /\ \A n \in 0 .. b.entries - 1 :
              /\ n \in 0 .. MaxEntries - 1 /\ b.total_indexs[n] \in 0 .. MaxEntries - 1
              /\ b.buf[b.total_indexs[n]] = XList(b)[n]
              /\ X!KeyAt(b, n) = XList(b)[n].key /\ X!ValueAt(b, n) = XList(b)[n].ptr
              /\ XList(b)[n] \in Pair
         /\ \A m, n \in 0 .. b.entries - 1 : b.total_indexs[m] = b.total_indexs[n] => m = n
         /\ \A i : i \in b.bitmap <=> \E n \in 0 .. b.entries - 1 : i = b.total_indexs[n]
<1> DEFINE f == XList(b)
<1>1. /\ b \in XBuckets /\ b.entries \in Nat /\ b.entries <= MaxEntries /\ b.next \in Nat
      /\ MaxEntries \in Nat /\ MaxEntries >= 2 /\ Row(f, b.entries)
  BY XParts, Sizes DEF XGood
<1>2. \A n \in 0 .. b.entries - 1 : n \in 0 .. MaxEntries - 1
  BY <1>1
<1>3. \A n \in 0 .. b.entries - 1 : b.total_indexs[n] \in 0 .. MaxEntries - 1
  BY <1>1, <1>2, XParts
<1>4. \A n \in 0 .. b.entries - 1 : b.buf[b.total_indexs[n]] = f[n]
  BY <1>2 DEF XList
<1> HIDE DEF f
<1>5. \A n \in 0 .. b.entries - 1 :
        X!KeyAt(b, n) = f[n].key /\ X!ValueAt(b, n) = f[n].ptr /\ f[n] \in Pair
  BY <1>1, <1>4 DEF X!KeyAt, X!ValueAt, Row
<1>6. \A m, n \in 0 .. b.entries - 1 : b.total_indexs[m] = b.total_indexs[n] => m = n
  <2>1. ASSUME NEW m \in 0 .. b.entries - 1, NEW n \in 0 .. b.entries - 1,
               b.total_indexs[m] = b.total_indexs[n]
        PROVE  m = n
    <3>1. f[m] = f[n]
      BY <1>4, <2>1
    <3>2. QED
      BY <1>1, <3>1, RowKeys
  <2>2. QED
    BY <2>1
<1>7. \A i : i \in b.bitmap <=> \E n \in 0 .. b.entries - 1 : i = b.total_indexs[n]
  BY DEF XGood
<1>8. QED
  BY <1>1, <1>2, <1>3, <1>4, <1>5, <1>6, <1>7 DEF f

(* entries counts the pairs. *)
LEMMA XCount ==
  ASSUME NEW b, XGood(b)
  PROVE  /\ b.entries = Cardinality(XPairs(b)) /\ IsFiniteSet(XPairs(b)) /\ XPairs(b) \subseteq Pair
         /\ b.entries \in 0 .. MaxEntries /\ b.next \in Nat
         /\ \A r, t \in XPairs(b) : r.key = t.key => r = t
<1>1. b.entries \in Nat /\ Row(XList(b), b.entries) /\ b.entries \in 0 .. MaxEntries /\ b.next \in Nat
  BY XGoodParts
<1>2. Distinct(XList(b), b.entries)
  BY <1>1, RowDistinct
<1>3. QED
  BY <1>1, <1>2, DistinctCount DEF XPairs

(* A new bucket. *)
LEMMA XEmptyIs == XGood(X!Empty) /\ XPairs(X!Empty) = {} /\ X!Empty.next = 0 /\ X!Empty.entries = 0
<1>1. X!Empty \in XBuckets /\ X!Empty.entries = 0 /\ X!Empty.next = 0 /\ X!Empty.bitmap = {}
  <2>1. XRow(X!Empty, [i \in 0 .. MaxEntries - 1 |-> [key |-> 0, ptr |-> 0]], {},
             [i \in 0 .. MaxEntries - 1 |-> 0], 0, 0)
    BY DEF X!Empty, X!Rec, X!Slots, XRow
  <2>2. [key |-> 0, ptr |-> 0] \in Record /\ 0 \in 0 .. MaxEntries - 1
    BY Sizes DEF Record
  <2>3. [i \in 0 .. MaxEntries - 1 |-> [key |-> 0, ptr |-> 0]] \in [0 .. MaxEntries - 1 -> Record]
        /\ [i \in 0 .. MaxEntries - 1 |-> 0] \in [0 .. MaxEntries - 1 -> 0 .. MaxEntries - 1]
    BY <2>2
  <2>4. QED
    BY <2>1, <2>3, XRowParts
<1>2. XGood(X!Empty)
  <2>1. 0 .. 0 - 1 = {}
    OBVIOUS
  <2>2. QED
    BY <1>1, <2>1, Sizes DEF XGood, Row
<1>3. QED
  BY <1>1, <1>2 DEF XPairs, RowSet

(* Find is a search by ranks. *)
XKeyList(b) == [n \in 0 .. MaxEntries - 1 |-> X!KeyAt(b, n)]

(* Find is the search over the keys in rank order. *)
LEMMA XFindIs ==
  ASSUME NEW b, NEW k
  PROVE  \E f : Searches(f, XKeyList(b), MaxEntries, k) /\ X!Find(b, k) = f[<<0, b.entries - 1>>]
<1> DEFINE ks == XKeyList(b)
           Body(f, range) == LET l == range[1]
                                 r == range[2]
                                 m == (l + r) \div 2
                             IN  IF l > r THEN [find |-> FALSE, pos |-> l]
                                 ELSE IF X!KeyAt(b, m) = k THEN [find |-> TRUE, pos |-> m]
                                 ELSE IF X!KeyAt(b, m) > k THEN f[<<l, m - 1>>] ELSE f[<<m + 1, r>>]
           P(f) == f = [range \in Spans(MaxEntries) |-> Body(f, range)]
<1>1. ASSUME NEW f, NEW range \in Spans(MaxEntries) PROVE Body(f, range) = SearchTurn(f, ks, k, range)
  <2>1. MaxEntries \in Nat
    BY Sizes
  <2>2. CASE range[1] > range[2]
    BY <2>2 DEF SearchTurn
  <2>3. CASE ~ (range[1] > range[2])
    <3>1. (range[1] + range[2]) \div 2 \in 0 .. MaxEntries - 1
      BY <2>1, <2>3, SpanParts, SpanHalves
    <3>2. ks[(range[1] + range[2]) \div 2] = X!KeyAt(b, (range[1] + range[2]) \div 2)
      BY <3>1 DEF XKeyList
    <3> HIDE DEF ks
    <3>3. QED
      BY <3>2 DEF SearchTurn
  <2>4. QED
    BY <2>2, <2>3
<1> HIDE DEF ks, Body
<1>2. \A f : P(f) <=> Searches(f, ks, MaxEntries, k)
  <2>1. ASSUME NEW f
        PROVE  [range \in Spans(MaxEntries) |-> Body(f, range)]
                 = [range \in Spans(MaxEntries) |-> SearchTurn(f, ks, k, range)]
    BY <1>1
  <2>2. QED
    BY <2>1 DEF Searches
<1>3. \E f : P(f)
  BY <1>2, Sizes, SearchExists
<1>4. P(CHOOSE f : P(f))
  <2> HIDE DEF P
  <2>1. QED
    BY <1>3
<1>5. X!Find(b, k) = (CHOOSE f : P(f))[<<0, b.entries - 1>>]
  BY DEF X!Find, Spans, Body
<1> HIDE DEF P
<1>6. Searches(CHOOSE f : P(f), ks, MaxEntries, k)
  BY <1>2, <1>4
<1>7. QED
  BY <1>5, <1>6 DEF ks

(* Find finds what is there, or the rank to put it. *)
LEMMA XFindGood ==
  ASSUME NEW b, XGood(b), NEW k \in Int
  PROVE  LET t == X!Find(b, k)
             f == XList(b)
         IN  /\ t.find \in BOOLEAN
             /\ t.find => t.pos \in 0 .. b.entries - 1 /\ f[t.pos].key = k
             /\ ~ t.find => /\ t.pos \in 0 .. b.entries
                            /\ \A i \in 0 .. b.entries - 1 : /\ i < t.pos => f[i].key < k
                                                             /\ i >= t.pos => f[i].key > k
<1>1. b.entries \in 0 .. MaxEntries /\ MaxEntries \in Nat /\ b.entries \in Nat
  BY XGoodParts
<1>2. PICK g : Searches(g, XKeyList(b), MaxEntries, k) /\ X!Find(b, k) = g[<<0, b.entries - 1>>]
  BY XFindIs
<1> DEFINE ks == XKeyList(b)
           n == b.entries
           f == XList(b)
<1>3. \A i \in 0 .. n - 1 : ks[i] = f[i].key /\ ks[i] \in Int
  <2>1. \A i \in 0 .. n - 1 : i \in 0 .. MaxEntries - 1 /\ f[i] \in Pair /\ X!KeyAt(b, i) = f[i].key
    BY XGoodParts
  <2>2. QED
    BY <2>1, PairParts DEF XKeyList
<1>4. Row(f, n)
  BY DEF XGood
<1> HIDE DEF f
<1>5. \A i, j \in 0 .. n - 1 : i < j => ks[i] < ks[j]
  BY <1>3, <1>4 DEF Row
<1> HIDE DEF ks
<1>6. Sought(g[<<0, n - 1>>], ks, n, k)
  BY <1>1, <1>2, <1>3, <1>5, SearchFinds DEF ks
<1>7. QED
  BY <1>2, <1>3, <1>6 DEF Sought, f

(* Which of the two it is. *)
LEMMA XFindPairs ==
  ASSUME NEW b, XGood(b), NEW k \in Keys
  PROVE  /\ k \in Int /\ X!Find(b, k).find \in BOOLEAN
         /\ X!Find(b, k).find <=> \E r \in XPairs(b) : r.key = k
<1> DEFINE t == X!Find(b, k)
           f == XList(b)
           n == b.entries
<1>1. k \in Int /\ n \in Nat /\ Row(f, n)
  BY Sizes, XGoodParts
<1>2. /\ t.find \in BOOLEAN
      /\ t.find => t.pos \in 0 .. n - 1 /\ f[t.pos].key = k
      /\ ~ t.find => /\ t.pos \in 0 .. n
                     /\ \A i \in 0 .. n - 1 : /\ i < t.pos => f[i].key < k
                                              /\ i >= t.pos => f[i].key > k
  BY <1>1, XFindGood
<1> HIDE DEF t, f
<1>3. \A r : r \in XPairs(b) <=> \E i \in 0 .. n - 1 : r = f[i]
  BY DEF XPairs, RowSet, f
<1>4. ASSUME ~ t.find, NEW i \in 0 .. n - 1 PROVE f[i].key # k
  <2>1. f[i].key \in Int /\ i \in Int /\ t.pos \in Int
    BY <1>1, <1>2, <1>4, RowKeys
  <2>2. (i < t.pos => f[i].key < k) /\ (i >= t.pos => f[i].key > k)
    BY <1>2, <1>4
  <2>3. QED
    BY <1>1, <2>1, <2>2
<1>5. QED
  BY <1>1, <1>2, <1>3, <1>4 DEF t

(* Put of a key that is there changes nothing, nor does one into a full    *)
(* bucket.                                                                 *)
LEMMA XPutFull ==
  ASSUME NEW b, XGood(b), NEW k \in Keys, NEW v
  PROVE  /\ (\E r \in XPairs(b) : r.key = k) => X!Put(b, k, v) = [status |-> "Exist", b |-> b]
         /\ (\A r \in XPairs(b) : r.key # k) =>
              /\ b.entries >= MaxEntries => X!Put(b, k, v) = [status |-> "Full", b |-> b]
              /\ ~ (b.entries >= MaxEntries) => X!Put(b, k, v).status = "OK"
<1>1. /\ X!Find(b, k).find \in BOOLEAN
      /\ X!Find(b, k).find <=> \E r \in XPairs(b) : r.key = k
  BY XFindPairs
<1>2. X!Find(b, k).find => X!Put(b, k, v) = [status |-> "Exist", b |-> b]
  BY DEF X!Put
<1>3. ~ X!Find(b, k).find /\ b.entries >= MaxEntries => X!Put(b, k, v) = [status |-> "Full", b |-> b]
  BY DEF X!Put
<1>4. ~ X!Find(b, k).find /\ ~ (b.entries >= MaxEntries) => X!Put(b, k, v).status = "OK"
  BY DEF X!Put
<1>5. QED
  BY <1>1, <1>2, <1>3, <1>4

(* A bucket that is not full has a free slot, and the lowest is taken. *)
LEMMA XFreeSlot ==
  ASSUME NEW b, XGood(b), ~ (b.entries >= MaxEntries)
  PROVE  LET slot == X!Min(X!Slots \ b.bitmap)
         IN  slot \in 0 .. MaxEntries - 1 /\ slot \notin b.bitmap
<1> DEFINE e == b.entries
           T == (0 .. MaxEntries - 1) \ b.bitmap
           h == [n \in 0 .. e - 1 |-> b.total_indexs[n]]
<1>1. /\ e \in Nat /\ e < MaxEntries /\ MaxEntries \in Nat
      /\ \A i : i \in b.bitmap <=> \E n \in 0 .. e - 1 : i = b.total_indexs[n]
  BY XGoodParts
<1>2. IsFiniteSet(b.bitmap) /\ Cardinality(b.bitmap) <= e
  <2>1. h \in Surjection(0 .. e - 1, b.bitmap)
    <3>1. h \in [0 .. e - 1 -> b.bitmap] /\ \A i \in b.bitmap : \E n \in 0 .. e - 1 : h[n] = i
      BY <1>1
    <3> HIDE DEF h
    <3>2. QED
      BY <3>1 DEF Surjection
  <2>2. IsFiniteSet(0 .. e - 1) /\ Cardinality(0 .. e - 1) = e
    BY <1>1, Count
  <2> HIDE DEF h, e
  <2>3. QED
    BY <2>1, <2>2, FS_Surjection
<1>3. T # {}
  <2>1. SUFFICES ASSUME T = {} PROVE FALSE
    OBVIOUS
  <2>2. 0 .. MaxEntries - 1 \subseteq b.bitmap
    BY <2>1
  <2>3. Cardinality(0 .. MaxEntries - 1) = MaxEntries /\ IsFiniteSet(0 .. MaxEntries - 1)
    BY <1>1, Count
  <2>4. Cardinality(0 .. MaxEntries - 1) <= Cardinality(b.bitmap)
    BY <1>2, <2>2, FS_Subset
  <2>5. Cardinality(b.bitmap) \in Nat
    BY <1>2, FS_CardinalityType
  <2>6. QED
    BY <1>1, <1>2, <2>3, <2>4, <2>5
<1>4. X!Min(X!Slots \ b.bitmap) = Min(T)
  BY DEF X!Min, Min, X!Slots
<1>5. T \in SUBSET Int /\ \A x \in T : 0 <= x
  OBVIOUS
<1>6. Min(T) \in T
  <2>1. 0 \in Int
    OBVIOUS
  <2> HIDE DEF T
  <2>2. QED
    BY <1>3, <1>5, <2>1, MinProperty
<1>7. QED
  BY <1>4, <1>6

(* Put of an absent key into a bucket that has room. *)
LEMMA XPutClean ==
  ASSUME NEW b, XGood(b), ~ (b.entries >= MaxEntries), NEW k \in Keys, NEW v \in Values,
         \A r \in XPairs(b) : r.key # k
  PROVE  LET c == X!Put(b, k, v).b
         IN  /\ XGood(c) /\ c.next = b.next /\ c.entries = b.entries + 1
             /\ XPairs(c) = XPairs(b) \union {[key |-> k, ptr |-> v]}
<1> DEFINE c == X!Put(b, k, v).b
           e == b.entries
           t == X!Find(b, k)
           p == t.pos
           slot == X!Min(X!Slots \ b.bitmap)
           x == [key |-> k, ptr |-> v]
           f == XList(b)
           B == [b.buf EXCEPT ![slot] = x]
           V(n) == CASE n = p -> slot
                     [] n > p /\ n <= e -> b.total_indexs[n - 1]
                     [] n < p \/ n > e -> b.total_indexs[n]
           T == [n \in 0 .. MaxEntries - 1 |-> V(n)]
           M == b.bitmap \union {slot}
           g == XList(c)
<1>1. /\ b \in XBuckets /\ e \in Nat /\ e < MaxEntries /\ MaxEntries \in Nat /\ b.next \in Nat /\ Row(f, e)
      /\ \A n \in 0 .. e - 1 : /\ n \in 0 .. MaxEntries - 1 /\ b.total_indexs[n] \in 0 .. MaxEntries - 1
                               /\ b.buf[b.total_indexs[n]] = f[n] /\ f[n] \in Pair
      /\ \A i : i \in b.bitmap <=> \E n \in 0 .. e - 1 : i = b.total_indexs[n]
  BY XGoodParts
<1>2. /\ b.buf \in [0 .. MaxEntries - 1 -> Record] /\ b.bitmap \in SUBSET (0 .. MaxEntries - 1)
      /\ b.total_indexs \in [0 .. MaxEntries - 1 -> 0 .. MaxEntries - 1]
  BY <1>1, XParts
<1>3. slot \in 0 .. MaxEntries - 1 /\ slot \notin b.bitmap
  BY XFreeSlot
<1>4. k \in Int /\ ~ t.find
  BY XFindPairs
<1>5. p \in 0 .. e /\ \A i \in 0 .. e - 1 : (i < p => f[i].key < k) /\ (i >= p => k < f[i].key)
  <2>1. ~ t.find => /\ p \in 0 .. e
                    /\ \A i \in 0 .. e - 1 : (i < p => f[i].key < k) /\ (i >= p => f[i].key > k)
    BY <1>4, XFindGood
  <2>2. \A i \in 0 .. e - 1 : f[i].key \in Int
    BY <1>1, PairParts
  <2> HIDE DEF t, f
  <2>3. QED
    BY <1>4, <2>1, <2>2
<1>6. x \in Pair /\ x \in Record /\ x.key = k
  BY PairIs, Sizes
<1>7. X!Put(b, k, v).b = [b EXCEPT !.buf = B, !.bitmap = M, !.total_indexs = T,
                                   !.entries = e + 1]
  BY <1>1, <1>4 DEF X!Put, X!Rec, X!Slots
<1> HIDE DEF c, slot, x, B, t, f, M
<1>8. XRow(c, B, M, T, e + 1, b.next)
  <2> HIDE DEF T
  <2>1. XRow(b, b.buf, b.bitmap, b.total_indexs, b.entries, b.next)
    BY <1>1, XParts
  <2>2. QED
    BY <1>7, <2>1 DEF XRow, c
<1> HIDE DEF p
<1>9. /\ T \in [0 .. MaxEntries - 1 -> 0 .. MaxEntries - 1]
      /\ \A n \in 0 .. e : T[n] = IF n < p THEN b.total_indexs[n] ELSE IF n = p THEN slot
                                  ELSE b.total_indexs[n - 1]
  <2>1. \A n \in 0 .. MaxEntries - 1 : n > p /\ n <= e => n - 1 \in 0 .. MaxEntries - 1
    BY <1>1, <1>5
  <2>2. ASSUME NEW n \in 0 .. MaxEntries - 1
        PROVE  /\ n = p => T[n] = slot
               /\ n > p /\ n <= e => T[n] = b.total_indexs[n - 1]
               /\ n < p \/ n > e => T[n] = b.total_indexs[n]
               /\ T[n] = V(n)
               /\ n = p \/ (n > p /\ n <= e) \/ (n < p \/ n > e)
    <3>1. ~ (n = p /\ (n > p /\ n <= e)) /\ ~ (n = p /\ (n < p \/ n > e))
          /\ ~ ((n > p /\ n <= e) /\ (n < p \/ n > e))
          /\ (n = p \/ (n > p /\ n <= e) \/ (n < p \/ n > e))
      BY <1>1, <1>5
    <3>2. QED
      BY <3>1
  <2>3. \A n \in 0 .. MaxEntries - 1 : V(n) \in 0 .. MaxEntries - 1
    <3> HIDE DEF T, V
    <3>1. QED
      BY <1>2, <1>3, <2>1, <2>2
  <2>4. T \in [0 .. MaxEntries - 1 -> 0 .. MaxEntries - 1]
    <3> HIDE DEF V
    <3>1. QED
      BY <2>3
  <2>5. \A n \in 0 .. e : n \in 0 .. MaxEntries - 1 /\ (n < p \/ n = p \/ (n > p /\ n <= e))
    BY <1>1, <1>5
  <2> HIDE DEF T
  <2>6. ASSUME NEW n \in 0 .. e
        PROVE  T[n] = IF n < p THEN b.total_indexs[n] ELSE IF n = p THEN slot ELSE b.total_indexs[n - 1]
    <3>1. n \in 0 .. MaxEntries - 1
      BY <2>5
    <3>2. CASE n < p
      BY <2>2, <3>1, <3>2
    <3>3. CASE n = p
      <4>1. ~ (n < p)
        BY <1>5, <3>3
      <4>2. QED
        BY <2>2, <3>1, <3>3, <4>1
    <3>4. CASE n > p /\ n <= e
      <4>1. ~ (n < p) /\ n # p
        BY <1>5, <3>4
      <4>2. QED
        BY <2>2, <3>1, <3>4, <4>1
    <3>5. QED
      BY <2>5, <3>2, <3>3, <3>4
  <2>7. QED
    BY <2>4, <2>6
<1> HIDE DEF T, V
<1>10. B \in [0 .. MaxEntries - 1 -> Record] /\ B[slot] = x /\ \A i \in b.bitmap : B[i] = b.buf[i]
  BY <1>2, <1>3, <1>6 DEF B
<1>11. /\ c.buf = B /\ c.bitmap = M /\ c.total_indexs = T /\ c.entries = e + 1
       /\ c.next = b.next /\ c \in XBuckets
  <2>1. M \in SUBSET (0 .. MaxEntries - 1) /\ e + 1 \in Nat
    <3>1. M \in SUBSET (0 .. MaxEntries - 1)
      BY <1>2, <1>3 DEF M
    <3>2. e + 1 \in Nat
      BY <1>1
    <3>3. QED
      BY <3>1, <3>2
  <2> DEFINE e1 == e + 1
  <2>2. XRow(c, B, M, T, e1, b.next)
    BY <1>8
  <2>3. e1 \in Nat /\ b.next \in Nat /\ T \in [0 .. MaxEntries - 1 -> 0 .. MaxEntries - 1]
        /\ B \in [0 .. MaxEntries - 1 -> Record]
    BY <1>1, <1>9, <1>10, <2>1
  <2> HIDE DEF e1
  <2>4. /\ c.buf = B /\ c.bitmap = M /\ c.total_indexs = T /\ c.entries = e1 /\ c.next = b.next
        /\ c \in XBuckets
    <3>1. /\ c.buf = B /\ c.bitmap = M /\ c.total_indexs = T /\ c.entries = e1 /\ c.next = b.next
          /\ c \in XBuckets <=> /\ B \in [0 .. MaxEntries - 1 -> Record]
                                /\ M \in SUBSET (0 .. MaxEntries - 1)
                                /\ T \in [0 .. MaxEntries - 1 -> 0 .. MaxEntries - 1]
                                /\ e1 \in Nat /\ b.next \in Nat
      BY <2>2, XRowParts, Zenon
    <3>2. QED
      BY <2>1, <2>3, <3>1, Zenon
  <2>5. QED
    BY <2>4 DEF e1
<1>12. \A n \in 0 .. e : n \in 0 .. MaxEntries - 1 /\ (n < p => n \in 0 .. e - 1) /\ (n > p => n - 1 \in 0 .. e - 1)
  BY <1>1, <1>5
<1>13. \A i \in 0 .. e - 1 : b.total_indexs[i] \in b.bitmap /\ B[b.total_indexs[i]] = f[i]
  BY <1>1, <1>10
<1>14. \A n \in 0 .. e : g[n] = IF n < p THEN f[n] ELSE IF n = p THEN x ELSE f[n - 1]
  <2>1. \A n \in 0 .. e : g[n] = B[T[n]]
    BY <1>11, <1>12 DEF XList
  <2> HIDE DEF g
  <2>2. ASSUME NEW n \in 0 .. e PROVE g[n] = IF n < p THEN f[n] ELSE IF n = p THEN x ELSE f[n - 1]
    <3>1. CASE n < p
      BY <1>9, <1>12, <1>13, <2>1, <3>1
    <3>2. CASE ~ (n < p) /\ n = p
      BY <1>9, <1>10, <2>1, <3>2
    <3>3. CASE ~ (n < p) /\ n # p
      <4>1. n > p
        BY <1>5, <3>3
      <4>2. QED
        BY <1>9, <1>12, <1>13, <2>1, <3>3, <4>1
    <3>4. QED
      BY <3>1, <3>2, <3>3
  <2>3. QED
    BY <2>2
<1> HIDE DEF g
<1>15. Row(g, e + 1) /\ RowSet(g, e + 1) = RowSet(f, e) \union {x}
  <2>1. \A i \in 0 .. e - 1 : (i < p => f[i].key < x.key) /\ (i >= p => x.key < f[i].key)
    BY <1>5, <1>6
  <2> HIDE DEF e
  <2>2. QED
    BY <1>1, <1>5, <1>6, <1>14, <2>1, RowInsert
<1>16. c.bitmap = {c.total_indexs[n] : n \in 0 .. c.entries - 1}
  <2>1. (e + 1) - 1 = e /\ p \in 0 .. e
    BY <1>1, <1>5
  <2>2. ASSUME NEW i \in M PROVE \E n \in 0 .. e : i = T[n]
    <3>1. CASE i = slot
      <4>1. T[p] = slot
        <5>1. ~ (p < p)
          BY <1>5
        <5>2. QED
          BY <1>9, <2>1, <5>1
      <4>2. QED
        BY <2>1, <3>1, <4>1
    <3>2. CASE i \in b.bitmap
      <4>1. PICK n \in 0 .. e - 1 : i = b.total_indexs[n]
        BY <1>1, <3>2
      <4>2. CASE n < p
        <5>1. n \in 0 .. e
          BY <1>1
        <5>2. QED
          BY <1>9, <4>1, <4>2, <5>1
      <4>3. CASE ~ (n < p)
        <5>1. n + 1 \in 0 .. e /\ ~ (n + 1 < p) /\ n + 1 # p /\ (n + 1) - 1 = n
          BY <1>1, <1>5, <4>3
        <5>2. QED
          BY <1>9, <4>1, <5>1
      <4>4. QED
        BY <4>2, <4>3
    <3>3. QED
      BY <3>1, <3>2 DEF M
  <2>3. ASSUME NEW n \in 0 .. e PROVE T[n] \in M
    <3>1. n < p \/ n = p \/ n > p
      BY <1>5
    <3>2. n > p => ~ (n < p) /\ n # p
      BY <1>5
    <3>3. QED
      BY <1>9, <1>12, <1>13, <3>1, <3>2 DEF M
  <2>4. c.entries - 1 = e
    BY <1>11, <2>1
  <2>5. QED
    BY <1>11, <2>2, <2>3, <2>4
<1>17. XGood(c)
  <2>1. e + 1 <= MaxEntries /\ Row(g, c.entries)
    BY <1>1, <1>11, <1>15
  <2>2. QED
    BY <1>11, <1>16, <2>1 DEF XGood, g
<1>18. XPairs(c) = XPairs(b) \union {x}
  BY <1>11, <1>15 DEF XPairs, g, f, e
<1>19. QED
  BY <1>11, <1>17, <1>18 DEF c, e, x

(* Get finds the pair of a key. *)
LEMMA XGet ==
  ASSUME NEW b, XGood(b), NEW k \in Keys
  PROVE  /\ \A r \in XPairs(b) : r.key = k => X!Get(b, k) = r.ptr
         /\ (\A r \in XPairs(b) : r.key # k) => X!Get(b, k) = 0
<1> DEFINE t == X!Find(b, k)
           f == XList(b)
           n == b.entries
<1>1. k \in Int /\ t.find \in BOOLEAN /\ (t.find <=> \E r \in XPairs(b) : r.key = k)
  BY XFindPairs
<1>2. t.find => t.pos \in 0 .. n - 1 /\ f[t.pos].key = k
  BY <1>1, XFindGood
<1>3. X!Get(b, k) = IF t.find THEN X!ValueAt(b, t.pos) ELSE 0
  BY DEF X!Get
<1>4. n \in Nat /\ Row(f, n) /\ \A i \in 0 .. n - 1 : X!ValueAt(b, i) = f[i].ptr
  BY XGoodParts
<1>5. \A r : r \in XPairs(b) <=> \E i \in 0 .. n - 1 : r = f[i]
  BY DEF XPairs, RowSet
<1> HIDE DEF t, f
<1>6. ASSUME NEW r \in XPairs(b), r.key = k PROVE X!Get(b, k) = r.ptr
  <2>1. t.find
    BY <1>1, <1>6
  <2>2. PICK i \in 0 .. n - 1 : r = f[i]
    BY <1>5
  <2>3. t.pos \in 0 .. n - 1 /\ f[t.pos].key = f[i].key
    BY <1>2, <1>6, <2>1, <2>2
  <2>4. t.pos = i
    BY <1>4, <2>3, RowKeys
  <2>5. QED
    BY <1>3, <1>4, <2>1, <2>2, <2>4
<1>7. ASSUME \A r \in XPairs(b) : r.key # k PROVE X!Get(b, k) = 0
  BY <1>1, <1>3, <1>7
<1>8. QED
  BY <1>6, <1>7

(* Update replaces the pair of the key. *)
LEMMA XUpdate ==
  ASSUME NEW b, XGood(b), NEW k \in Keys, NEW v \in Values
  PROVE  LET r == X!Update(b, k, v)
         IN  /\ r.status \in {"OK", "NoExist"} /\ (r.status = "NoExist" => r.b = b)
             /\ r.status = "OK" =>
                  /\ XGood(r.b) /\ r.b.next = b.next /\ r.b.entries = b.entries
                  /\ \E q \in XPairs(b) : q.key = k
                  /\ \A t : t \in XPairs(r.b) <=> \/ t \in XPairs(b) /\ t.key # k
                                                  \/ t = [key |-> k, ptr |-> v]
             /\ (\E q \in XPairs(b) : q.key = k) => r.status = "OK"
<1> DEFINE r == X!Update(b, k, v)
           t == X!Find(b, k)
           p == t.pos
           i == b.total_indexs[p]
           e == b.entries
           f == XList(b)
           y == [key |-> k, ptr |-> v]
           B == [b.buf EXCEPT ![i] = y]
           c == [b EXCEPT !.buf[i].ptr = v]
           g == XList(c)
<1>1. /\ b \in XBuckets /\ e \in Nat /\ e <= MaxEntries /\ MaxEntries \in Nat /\ b.next \in Nat /\ Row(f, e)
      /\ \A n \in 0 .. e - 1 : /\ n \in 0 .. MaxEntries - 1 /\ b.total_indexs[n] \in 0 .. MaxEntries - 1
                               /\ b.buf[b.total_indexs[n]] = f[n] /\ f[n] \in Pair
                               /\ X!ValueAt(b, n) = f[n].ptr
      /\ \A m, n \in 0 .. e - 1 : b.total_indexs[m] = b.total_indexs[n] => m = n
  BY XGoodParts
<1>2. /\ b.buf \in [0 .. MaxEntries - 1 -> Record] /\ b.bitmap \in SUBSET (0 .. MaxEntries - 1)
      /\ b.total_indexs \in [0 .. MaxEntries - 1 -> 0 .. MaxEntries - 1]
      /\ XRow(b, b.buf, b.bitmap, b.total_indexs, b.entries, b.next)
  BY <1>1, XParts
<1>3. k \in Int /\ t.find \in BOOLEAN /\ (t.find <=> \E q \in XPairs(b) : q.key = k)
  BY XFindPairs
<1>4. CASE ~ t.find
  <2>1. r.status = "NoExist" /\ r.b = b
    BY <1>4 DEF X!Update
  <2>2. QED
    BY <1>3, <1>4, <2>1
<1>5. CASE t.find
  <2>1. p \in 0 .. e - 1 /\ f[p].key = k
    BY <1>3, <1>5, XFindGood
  <2>2. X!ValueAt(b, p) # 0
    BY <1>1, <2>1, PairParts
  <2>3. r.status = "OK" /\ r.b = c
    BY <1>5, <2>2 DEF X!Update
  <2>4. y \in Pair /\ y \in Record /\ y.key = k
    BY PairIs, Sizes
  <2> HIDE DEF f, t, p
  <2>5. i \in 0 .. MaxEntries - 1 /\ b.buf[i] = f[p]
    BY <1>1, <2>1
  <2>6. [b.buf[i] EXCEPT !.ptr = v] = y
    <3>1. b.buf[i] = [key |-> k, ptr |-> b.buf[i].ptr]
      BY <1>1, <2>1, <2>5, PairParts
    <3>2. \A x, z : [([key |-> x, ptr |-> z]) EXCEPT !.ptr = v] = [key |-> x, ptr |-> v]
      OBVIOUS
    <3>3. QED
      BY <3>1, <3>2
  <2>7. XRow(c, B, b.bitmap, b.total_indexs, e, b.next)
    <3>1. c = [b EXCEPT !.buf = [b.buf EXCEPT ![i] = [b.buf[i] EXCEPT !.ptr = v]]]
      BY Zenon
    <3>2. c = [b EXCEPT !.buf = B]
      BY <2>6, <3>1, Zenon
    <3> HIDE DEF B, c
    <3>3. QED
      BY <1>2, <3>2 DEF XRow
  <2> HIDE DEF c, y
  <2>8. B \in [0 .. MaxEntries - 1 -> Record] /\ B[i] = y
        /\ \A j \in 0 .. MaxEntries - 1 : j # i => B[j] = b.buf[j]
    BY <1>2, <2>4, <2>5
  <2> HIDE DEF B
  <2>9. /\ c.buf = B /\ c.bitmap = b.bitmap /\ c.total_indexs = b.total_indexs /\ c.entries = e
        /\ c.next = b.next /\ c \in XBuckets
    <3>1. e \in Nat /\ b.next \in Nat
      BY <1>1
    <3> HIDE DEF e
    <3>2. QED
      BY <1>2, <2>7, <2>8, <3>1, XRowParts
  <2>10. \A n \in 0 .. e - 1 : g[n] = IF n = p THEN y ELSE f[n]
    <3>1. \A n \in 0 .. e - 1 : g[n] = B[b.total_indexs[n]]
      BY <1>1, <2>9 DEF XList
    <3>2. \A n \in 0 .. e - 1 : n # p => b.total_indexs[n] # i
      BY <1>1, <2>1
    <3> HIDE DEF g, e
    <3>3. QED
      BY <1>1, <2>1, <2>8, <3>1, <3>2
  <2>11. \A n \in 0 .. e - 1 : g[n] = IF n = p THEN [key |-> f[p].key, ptr |-> v] ELSE f[n]
    BY <2>1, <2>10 DEF y
  <2> HIDE DEF g, e
  <2>12. /\ Row(g, e)
         /\ \A q : q \in RowSet(g, e) <=> \/ q \in RowSet(f, e) /\ q.key # f[p].key
                                          \/ q = [key |-> f[p].key, ptr |-> v]
    BY <1>1, <2>1, <2>11, RowUpdate
  <2>13. XPairs(c) = RowSet(g, e) /\ XPairs(b) = RowSet(f, e)
    BY <2>9 DEF XPairs, g, f, e
  <2>14. c.bitmap = {c.total_indexs[n] : n \in 0 .. c.entries - 1}
    <3>1. b.bitmap = {b.total_indexs[n] : n \in 0 .. b.entries - 1}
      BY DEF XGood
    <3>2. QED
      BY <2>9, <3>1 DEF e
  <2>15. XGood(c)
    BY <1>1, <2>9, <2>12, <2>14 DEF XGood, g
  <2>16. \E q \in XPairs(b) : q.key = k
    BY <1>3, <1>5
  <2>17. QED
    BY <2>1, <2>3, <2>9, <2>12, <2>13, <2>15, <2>16 DEF e
<1>6. QED
  BY <1>3, <1>4, <1>5

(* Delete takes the rank and the bit of the key away. *)
LEMMA XDelete ==
  ASSUME NEW b, XGood(b), NEW k \in Keys
  PROVE  LET r == X!Delete(b, k)
         IN  /\ r.status \in {"OK", "NoExist"} /\ (r.status = "NoExist" => r.b = b)
             /\ r.status = "OK" =>
                  /\ XGood(r.b) /\ r.b.next = b.next
                  /\ \E q \in XPairs(b) : q.key = k
                  /\ \A t : t \in XPairs(r.b) <=> t \in XPairs(b) /\ t.key # k
             /\ (\E q \in XPairs(b) : q.key = k) => r.status = "OK"
<1> DEFINE r == X!Delete(b, k)
           t == X!Find(b, k)
           p == t.pos
           i == b.total_indexs[p]
           e == b.entries
           f == XList(b)
           M == b.bitmap \ {i}
           V(n) == IF n >= p /\ n < e - 1 THEN b.total_indexs[n + 1] ELSE b.total_indexs[n]
           T == [n \in 0 .. MaxEntries - 1 |-> V(n)]
           c == [b EXCEPT !.bitmap = M, !.total_indexs = T, !.entries = e - 1]
           g == XList(c)
<1>1. /\ b \in XBuckets /\ e \in Nat /\ e <= MaxEntries /\ MaxEntries \in Nat /\ b.next \in Nat /\ Row(f, e)
      /\ \A n \in 0 .. e - 1 : /\ n \in 0 .. MaxEntries - 1 /\ b.total_indexs[n] \in 0 .. MaxEntries - 1
                               /\ b.buf[b.total_indexs[n]] = f[n] /\ f[n] \in Pair
                               /\ X!ValueAt(b, n) = f[n].ptr
      /\ \A m, n \in 0 .. e - 1 : b.total_indexs[m] = b.total_indexs[n] => m = n
      /\ \A j : j \in b.bitmap <=> \E n \in 0 .. e - 1 : j = b.total_indexs[n]
  BY XGoodParts
<1>2. /\ b.buf \in [0 .. MaxEntries - 1 -> Record] /\ b.bitmap \in SUBSET (0 .. MaxEntries - 1)
      /\ b.total_indexs \in [0 .. MaxEntries - 1 -> 0 .. MaxEntries - 1]
      /\ XRow(b, b.buf, b.bitmap, b.total_indexs, b.entries, b.next)
  BY <1>1, XParts
<1>3. k \in Int /\ t.find \in BOOLEAN /\ (t.find <=> \E q \in XPairs(b) : q.key = k)
  BY XFindPairs
<1>4. CASE ~ t.find
  <2>1. r.status = "NoExist" /\ r.b = b
    BY <1>4 DEF X!Delete
  <2>2. QED
    BY <1>3, <1>4, <2>1
<1>5. CASE t.find
  <2>1. p \in 0 .. e - 1 /\ f[p].key = k
    BY <1>3, <1>5, XFindGood
  <2>2. X!ValueAt(b, p) # 0
    BY <1>1, <2>1, PairParts
  <2>3. r.status = "OK" /\ r.b = c
    BY <1>5, <2>2 DEF X!Delete, X!Slots
  <2> HIDE DEF f, t, p
  <2> DEFINE e1 == e - 1
  <2>4. e1 \in Nat /\ e1 <= MaxEntries /\ e1 = e - 1 /\ e - 2 = e1 - 1 /\ e1 < e
    BY <1>1, <2>1
  <2>5. \A n \in 0 .. MaxEntries - 1 : V(n) \in 0 .. MaxEntries - 1
    <3>1. \A n \in 0 .. MaxEntries - 1 : n >= p /\ n < e - 1 => n + 1 \in 0 .. MaxEntries - 1
      BY <1>1, <2>1
    <3>2. QED
      BY <1>2, <3>1
  <2>6. \A n \in 0 .. e1 - 1 : T[n] = IF n < p THEN b.total_indexs[n] ELSE b.total_indexs[n + 1]
    <3>1. \A n \in 0 .. e1 - 1 : n \in 0 .. MaxEntries - 1 /\ (~ (n < p) <=> n >= p /\ n < e - 1)
      BY <1>1, <2>1, <2>4
    <3> HIDE DEF e1
    <3>2. QED
      BY <3>1
  <2>7. T \in [0 .. MaxEntries - 1 -> 0 .. MaxEntries - 1]
    <3> HIDE DEF V
    <3>1. QED
      BY <2>5
  <2> HIDE DEF T, V
  <2>8. XRow(c, b.buf, M, T, e1, b.next)
    <3> HIDE DEF M
    <3>1. XRow(b, b.buf, b.bitmap, b.total_indexs, b.entries, b.next)
      BY <1>2
    <3>2. c = [b EXCEPT !.bitmap = M, !.total_indexs = T, !.entries = e1]
      OBVIOUS
    <3> HIDE DEF c, e1, e
    <3>3. QED
      BY <3>1, <3>2 DEF XRow
  <2> HIDE DEF c, e1
  <2>9. /\ c.buf = b.buf /\ c.bitmap = M /\ c.total_indexs = T /\ c.entries = e1 /\ c.next = b.next
        /\ c \in XBuckets
    <3>1. M \in SUBSET (0 .. MaxEntries - 1)
      BY <1>2
    <3> HIDE DEF M
    <3>2. /\ c.buf = b.buf /\ c.bitmap = M /\ c.total_indexs = T /\ c.entries = e1 /\ c.next = b.next
          /\ c \in XBuckets <=> /\ b.buf \in [0 .. MaxEntries - 1 -> Record]
                                /\ M \in SUBSET (0 .. MaxEntries - 1)
                                /\ T \in [0 .. MaxEntries - 1 -> 0 .. MaxEntries - 1]
                                /\ e1 \in Nat /\ b.next \in Nat
      BY <2>8, XRowParts, Zenon
    <3>3. QED
      BY <1>1, <1>2, <2>4, <2>7, <3>1, <3>2, Zenon
  <2>10. \A n \in 0 .. e1 - 1 : /\ n \in 0 .. e - 1 /\ n + 1 \in 0 .. e - 1 /\ n \in 0 .. MaxEntries - 1
    BY <1>1, <2>4
  <2>11. \A n \in 0 .. e - 2 : g[n] = IF n < p THEN f[n] ELSE f[n + 1]
    <3>1. \A n \in 0 .. e1 - 1 : g[n] = b.buf[T[n]]
      BY <2>9, <2>10 DEF XList
    <3> HIDE DEF g, e
    <3>2. QED
      BY <1>1, <2>4, <2>6, <2>10, <3>1
  <2> HIDE DEF g, e
  <2>12. /\ Row(g, e - 1)
         /\ \A q : q \in RowSet(g, e - 1) <=> q \in RowSet(f, e) /\ q.key # f[p].key
    BY <1>1, <2>1, <2>11, RowRemove
  <2>13. XPairs(c) = RowSet(g, e - 1) /\ XPairs(b) = RowSet(f, e)
    BY <2>4, <2>9 DEF XPairs, g, f, e
  <2>14. M = {T[n] : n \in 0 .. e1 - 1}
    <3>1. ASSUME NEW j \in M PROVE \E n \in 0 .. e1 - 1 : j = T[n]
      <4>1. PICK n \in 0 .. e - 1 : j = b.total_indexs[n] /\ n # p
        BY <1>1
      <4>2. CASE n < p
        <5>1. n \in 0 .. e1 - 1
          BY <1>1, <2>1, <2>4, <4>2
        <5>2. QED
          BY <2>6, <4>1, <4>2, <5>1
      <4>3. CASE ~ (n < p)
        <5>1. n - 1 \in 0 .. e1 - 1 /\ ~ (n - 1 < p) /\ (n - 1) + 1 = n
          BY <1>1, <2>1, <2>4, <4>1, <4>3
        <5>2. QED
          BY <2>6, <4>1, <5>1
      <4>4. QED
        BY <4>2, <4>3
    <3>2. ASSUME NEW n \in 0 .. e1 - 1 PROVE T[n] \in M
      <4>1. n < p => n # p
        BY <2>1
      <4>2. ~ (n < p) => n + 1 # p
        BY <1>1, <2>1
      <4>3. PICK m \in 0 .. e - 1 : T[n] = b.total_indexs[m] /\ m # p
        BY <2>6, <2>10, <4>1, <4>2
      <4>4. b.total_indexs[m] # b.total_indexs[p] /\ b.total_indexs[m] \in b.bitmap
        BY <1>1, <2>1, <4>3
      <4>5. QED
        BY <4>3, <4>4
    <3>3. QED
      BY <3>1, <3>2
  <2> HIDE DEF M
  <2>15. XGood(c)
    <3>1. Row(g, c.entries) /\ c.entries <= MaxEntries
      BY <2>4, <2>9, <2>12
    <3>2. c.bitmap = {c.total_indexs[n] : n \in 0 .. c.entries - 1}
      BY <2>9, <2>14
    <3>3. QED
      BY <2>9, <3>1, <3>2 DEF XGood, g
  <2>16. \E q \in XPairs(b) : q.key = k
    BY <1>3, <1>5
  <2>17. QED
    BY <2>1, <2>3, <2>9, <2>12, <2>13, <2>15, <2>16
<1>6. QED
  BY <1>3, <1>4, <1>5

(* The least key, or any when there is no pair. *)
LEMMA XMinKeys ==
  ASSUME NEW b, XGood(b), NEW any
  PROVE  \/ X!MinKeys(b, any) = any
         \/ \E q \in XPairs(b) : X!MinKeys(b, any) = {q.key} /\ \A t \in XPairs(b) : q.key <= t.key
<1> DEFINE f == XList(b)
           n == b.entries
<1>1. CASE n = 0
  BY <1>1 DEF X!MinKeys
<1>2. CASE n # 0
  <2>1. n \in Nat /\ Row(f, n) /\ \A i \in 0 .. n - 1 : X!KeyAt(b, i) = f[i].key /\ f[i] \in Pair
    BY XGoodParts
  <2>2. 0 \in 0 .. n - 1
    BY <1>2, <2>1
  <2>3. X!MinKeys(b, any) = {f[0].key}
    BY <1>2, <2>1, <2>2 DEF X!MinKeys
  <2>4. XPairs(b) = RowSet(f, n)
    BY DEF XPairs
  <2> HIDE DEF f
  <2>5. ASSUME NEW i \in 0 .. n - 1 PROVE f[0].key <= f[i].key
    <3>1. i = 0 \/ f[0].key < f[i].key
      BY <2>1, <2>2 DEF Row
    <3>2. f[0].key \in Int /\ f[i].key \in Int
      BY <2>1, <2>2, RowKeys
    <3>3. QED
      BY <3>1, <3>2
  <2>6. QED
    BY <2>2, <2>3, <2>4, <2>5 DEF RowSet
<1>3. QED
  BY <1>1, <1>2

(* The iterator yields every pair in key order. *)
LEMMA XIterIs ==
  ASSUME NEW b, XGood(b)
  PROVE  /\ X!Iter(b) \in [1 .. b.entries -> Pair]
         /\ \A i \in 1 .. b.entries : X!Iter(b)[i] = XList(b)[i - 1]
         /\ Ascends(X!Iter(b), XPairs(b))
<1> DEFINE n == b.entries
           s == X!Iter(b)
           f == XList(b)
<1>1. n \in Nat /\ Row(f, n) /\ XPairs(b) = RowSet(f, n)
      /\ \A i \in 0 .. n - 1 : b.buf[b.total_indexs[i]] = f[i] /\ f[i] \in Pair
  BY XGoodParts DEF XPairs
<1>2. s = [i \in 1 .. n |-> b.buf[b.total_indexs[i - 1]]]
  BY DEF X!Iter
<1> HIDE DEF f, n, s
<1>3. \A i \in 1 .. n : i - 1 \in 0 .. n - 1
  BY <1>1
<1>4. \A i \in 1 .. n : s[i] = f[i - 1] /\ s[i] \in Pair
  BY <1>1, <1>2, <1>3
<1>5. s \in [1 .. n -> Pair]
  BY <1>2, <1>4
<1>6. Ascends(s, RowSet(f, n))
  BY <1>1, <1>4, <1>5, RowAll
<1>7. QED
  BY <1>1, <1>4, <1>5, <1>6 DEF s, n, f

(* And from a key, the pairs from there on. *)
LEMMA XIterFrom ==
  ASSUME NEW b, XGood(b), NEW k \in Keys, NEW p, NEW R,
         \A r : r \in R <=> r \in XPairs(b) /\ r.key >= k
  PROVE  /\ k <= p => Ascends(X!IterFrom(b, k, p), XPairs(b))
         /\ ~ (k <= p) => Ascends(X!IterFrom(b, k, p), R)
<1> DEFINE n == b.entries
           t == X!Find(b, k)
           s == X!Iter(b)
           f == XList(b)
           u == SubSeq(s, t.pos + 1, n)
<1>1. n \in Nat /\ Row(f, n) /\ XPairs(b) = RowSet(f, n) /\ k \in Int
  BY XGoodParts, XFindPairs DEF XPairs
<1>2. s \in [1 .. n -> Pair] /\ \A i \in 1 .. n : s[i] = f[i - 1]
  BY XIterIs
<1>3. CASE k <= p
  <2>1. X!IterFrom(b, k, p) = X!Iter(b)
    BY <1>3 DEF X!IterFrom
  <2>2. QED
    BY <1>3, <2>1, XIterIs
<1>4. CASE ~ (k <= p)
  <2>1. X!IterFrom(b, k, p) = u
    BY <1>4 DEF X!IterFrom
  <2>2. \A i \in 0 .. n - 1 : f[i].key \in Int
    BY <1>1, PairParts DEF Row
  <2>3. t.pos \in 0 .. n /\ \A i \in 0 .. n - 1 : /\ i < t.pos => ~ (f[i].key >= k)
                                                  /\ i >= t.pos => f[i].key >= k
    <3>1. /\ t.find \in BOOLEAN
          /\ t.find => t.pos \in 0 .. n - 1 /\ f[t.pos].key = k
          /\ ~ t.find => /\ t.pos \in 0 .. n
                         /\ \A i \in 0 .. n - 1 : /\ i < t.pos => f[i].key < k
                                                  /\ i >= t.pos => f[i].key > k
      BY <1>1, XFindGood
    <3> HIDE DEF t, f, n
    <3>2. CASE t.find
      <4>1. t.pos \in 0 .. n - 1 /\ f[t.pos].key = k /\ t.pos \in 0 .. n
        BY <1>1, <3>1, <3>2
      <4>2. ASSUME NEW i \in 0 .. n - 1
            PROVE  (i < t.pos => ~ (f[i].key >= k)) /\ (i >= t.pos => f[i].key >= k)
        <5>1. (i < t.pos => f[i].key < f[t.pos].key) /\ (i > t.pos => f[t.pos].key < f[i].key)
          BY <1>1, <4>1 DEF Row
        <5>2. i > t.pos \/ i = t.pos \/ i < t.pos
          BY <4>1
        <5>3. QED
          BY <1>1, <2>2, <4>1, <5>1, <5>2
      <4>3. QED
        BY <4>1, <4>2
    <3>3. CASE ~ t.find
      <4>1. t.pos \in 0 .. n
        BY <3>1, <3>3
      <4>2. ASSUME NEW i \in 0 .. n - 1
            PROVE  (i < t.pos => ~ (f[i].key >= k)) /\ (i >= t.pos => f[i].key >= k)
        <5>1. (i < t.pos => f[i].key < k) /\ (i >= t.pos => f[i].key > k)
          BY <3>1, <3>3
        <5>2. QED
          BY <1>1, <2>2, <5>1
      <4>3. QED
        BY <4>1, <4>2
    <3>4. QED
      BY <3>1, <3>2, <3>3
  <2> DEFINE q == t.pos
  <2>4. q \in 0 .. n /\ u = SubSeq(s, q + 1, n)
        /\ \A i \in 0 .. n - 1 : (i < q => ~ (f[i].key >= k)) /\ (i >= q => f[i].key >= k)
    BY <2>3
  <2> HIDE DEF s, f, n, q, t, u
  <2>5. u \in [1 .. n - q -> Pair] /\ \A i \in 1 .. n - q : u[i] = f[q + i - 1]
    <3>1. s \in Seq(Pair) /\ Len(s) = n
      BY <1>1, <1>2, FunctionSeq
    <3>2. Len(u) = n - q /\ u \in Seq(Pair) /\ \A i \in 1 .. n - q : u[i] = s[q + i] /\ q + i \in 1 .. n
      BY <1>1, <2>4, <3>1
    <3>3. ASSUME NEW i \in 1 .. n - q PROVE u[i] = f[q + i - 1]
      <4>1. u[i] = s[q + i] /\ q + i \in 1 .. n
        BY <3>2
      <4>2. s[q + i] = f[(q + i) - 1]
        BY <1>2, <4>1
      <4>3. (q + i) - 1 = q + i - 1
        BY <1>1, <2>4
      <4>4. QED
        BY <4>1, <4>2, <4>3
    <3>4. QED
      BY <3>2, <3>3
  <2>6. \A r : r \in R <=> r \in RowSet(f, n) /\ r.key >= k
    BY <1>1
  <2>7. Ascends(u, R)
    BY <1>1, <2>4, <2>5, <2>6, RowFrom
  <2>8. QED
    BY <1>4, <2>1, <2>7
<1>5. QED
  BY <1>3, <1>4

(* Another successor changes nothing else. *)
LEMMA XNext ==
  ASSUME NEW b, XGood(b), NEW x \in Nat
  PROVE  LET c == [b EXCEPT !.next = x]
         IN  XGood(c) /\ c.next = x /\ c.entries = b.entries /\ XPairs(c) = XPairs(b)
<1> DEFINE c == [b EXCEPT !.next = x]
<1>1. /\ b.buf \in [0 .. MaxEntries - 1 -> Record] /\ b.bitmap \in SUBSET (0 .. MaxEntries - 1)
      /\ b.total_indexs \in [0 .. MaxEntries - 1 -> 0 .. MaxEntries - 1] /\ b.entries \in Nat
  BY XParts DEF XGood
<1>2. XRow(c, b.buf, b.bitmap, b.total_indexs, b.entries, x)
  <2>1. XRow(b, b.buf, b.bitmap, b.total_indexs, b.entries, b.next)
    BY XParts DEF XGood
  <2>2. QED
    BY <2>1 DEF XRow
<1> HIDE DEF c
<1>3. /\ c.buf = b.buf /\ c.bitmap = b.bitmap /\ c.total_indexs = b.total_indexs
      /\ c.entries = b.entries /\ c.next = x /\ c \in XBuckets
  BY <1>1, <1>2, XRowParts
<1>4. XList(c) = XList(b)
  BY <1>3 DEF XList
<1>5. XGood(c)
  <2>1. b.entries <= MaxEntries /\ Row(XList(b), b.entries) /\ b.bitmap = {b.total_indexs[n] : n \in 0 .. b.entries - 1}
    BY DEF XGood
  <2>2. QED
    BY <1>3, <1>4, <2>1 DEF XGood
<1>6. QED
  BY <1>3, <1>4, <1>5 DEF c, XPairs

(* The right half of a split. *)
XUpper(b) ==
  LET half == b.entries \div 2
      next[n \in half .. b.entries] ==
        IF n = half THEN X!Empty ELSE X!Put(next[n - 1], X!KeyAt(b, n - 1), X!ValueAt(b, n - 1)).b
  IN  next[b.entries]

(* The new bucket of a split has the upper ranks. *)
LEMMA XUpperIs ==
  ASSUME NEW b, XGood(b), b.entries # 0
  PROVE  LET c == XUpper(b)
             half == b.entries \div 2
         IN  /\ XGood(c) /\ c.entries = b.entries - half
             /\ \A r : r \in XPairs(c) <=> \E i \in half .. b.entries - 1 : r = XList(b)[i]
<1> DEFINE e == b.entries
           m == e \div 2
           f == XList(b)
           B == {c \in XBuckets : XGood(c)}
           Turn(c, j) == X!Put(c, X!KeyAt(b, j - 1), X!ValueAt(b, j - 1)).b
           P(g) == g = [j \in m .. e |-> IF j = m THEN X!Empty ELSE Turn(g[j - 1], j)]
           F == [t \in B \X (m + 1 .. e) |-> Turn(t[1], t[2])]
<1>1. /\ e \in Nat /\ e <= MaxEntries /\ MaxEntries \in Nat /\ Row(f, e) /\ e # 0
      /\ \A n \in 0 .. e - 1 : X!KeyAt(b, n) = f[n].key /\ X!ValueAt(b, n) = f[n].ptr /\ f[n] \in Pair
  BY XGoodParts
<1>2. XUpper(b) = (CHOOSE g : P(g))[e]
  BY DEF XUpper
<1> HIDE DEF e, f
<1>3. m \in Nat /\ m < e /\ m \in Int /\ e \in Int
  BY <1>1
<1> HIDE DEF m
<1>4. \A j \in m + 1 .. e : /\ j - 1 \in m .. e /\ j - 1 \in 0 .. e - 1
                            /\ X!KeyAt(b, j - 1) = f[j - 1].key /\ X!ValueAt(b, j - 1) = f[j - 1].ptr
                            /\ f[j - 1].key \in Keys /\ f[j - 1].ptr \in Values
                            /\ f[j - 1] = [key |-> f[j - 1].key, ptr |-> f[j - 1].ptr]
  <2>1. \A j \in m + 1 .. e : j - 1 \in m .. e /\ j - 1 \in 0 .. e - 1
    BY <1>1, <1>3
  <2>2. QED
    BY <1>1, <2>1, PairParts
<1>5. \A c, j : j \in m + 1 .. e => Turn(c, j) = X!Put(c, f[j - 1].key, f[j - 1].ptr).b
  BY <1>4
<1>6. ASSUME NEW c \in B, NEW j \in m + 1 .. e PROVE Turn(c, j) \in B
  <2> DEFINE k == f[j - 1].key
             v == f[j - 1].ptr
             d == X!Put(c, k, v).b
  <2>1. XGood(c) /\ k \in Keys /\ v \in Values /\ Turn(c, j) = d
    BY <1>4, <1>5
  <2> HIDE DEF Turn, k, v
  <2>2. XGood(d)
    <3>1. CASE \E r \in XPairs(c) : r.key = k
      <4>1. X!Put(c, k, v) = [status |-> "Exist", b |-> c]
        BY <2>1, <3>1, XPutFull
      <4>2. QED
        BY <2>1, <4>1
    <3>2. CASE (\A r \in XPairs(c) : r.key # k) /\ c.entries >= MaxEntries
      <4>1. X!Put(c, k, v) = [status |-> "Full", b |-> c]
        BY <2>1, <3>2, XPutFull
      <4>2. QED
        BY <2>1, <4>1
    <3>3. CASE (\A r \in XPairs(c) : r.key # k) /\ ~ (c.entries >= MaxEntries)
      BY <2>1, <3>3, XPutClean
    <3>4. QED
      BY <3>1, <3>2, <3>3
  <2>3. d \in XBuckets
    BY <2>2 DEF XGood
  <2> HIDE DEF d
  <2>4. QED
    BY <2>1, <2>2, <2>3
<1> HIDE DEF Turn
<1>7. F \in [B \X (m + 1 .. e) -> B]
  <2> HIDE DEF B
  <2>1. QED
    BY <1>6
<1>8. X!Empty \in B /\ XGood(X!Empty) /\ XPairs(X!Empty) = {} /\ X!Empty.entries = 0
  BY XEmptyIs DEF XGood
<1> HIDE DEF F, B
<1>9. PICK g : Steps(g, m, e, B, X!Empty, F)
  <2>1. m \in Int /\ e \in Int /\ m <= e
    BY <1>3
  <2>2. QED
    BY <1>7, <1>8, <2>1, StepsExist
<1>10. P(g)
  <2>1. ASSUME NEW j \in m .. e
        PROVE  (IF j = m THEN X!Empty ELSE F[<<g[j - 1], j>>]) = IF j = m THEN X!Empty ELSE Turn(g[j - 1], j)
    <3>1. CASE j = m
      BY <3>1
    <3>2. CASE j # m
      <4>1. j \in m + 1 .. e
        BY <1>3, <3>2
      <4>2. j - 1 \in m .. e
        BY <1>3, <4>1
      <4>3. g[j - 1] \in B
        BY <1>9, <4>2 DEF Steps
      <4> DEFINE t == <<g[j - 1], j>>
      <4>4. t \in B \X (m + 1 .. e) /\ t[1] = g[j - 1] /\ t[2] = j
        BY <4>1, <4>3
      <4>5. F[t] = Turn(t[1], t[2])
        BY <4>4 DEF F
      <4>6. QED
        BY <3>2, <4>4, <4>5
    <3>3. QED
      BY <3>1, <3>2
  <2>2. g = [j \in m .. e |-> IF j = m THEN X!Empty ELSE F[<<g[j - 1], j>>]]
    BY <1>9 DEF Steps
  <2>3. QED
    BY <2>1, <2>2
<1>11. P(CHOOSE h : P(h))
  <2> HIDE DEF P
  <2>1. QED
    BY <1>10
<1> DEFINE h == CHOOSE d : P(d)
<1>12. P(h) /\ XUpper(b) = h[e]
  BY <1>2, <1>11
<1> HIDE DEF h
<1>13. h[m] = X!Empty /\ \A j \in m + 1 .. e : h[j] = Turn(h[j - 1], j)
  <2>1. h = [j \in m .. e |-> IF j = m THEN X!Empty ELSE Turn(h[j - 1], j)]
    BY <1>12
  <2>2. m \in m .. e /\ \A j \in m + 1 .. e : j \in m .. e /\ j # m
    BY <1>3
  <2>3. QED
    BY <2>1, <2>2
<1> HIDE DEF P
<1> DEFINE Q(j) == /\ XGood(h[j]) /\ h[j].entries = j - m
                   /\ \A r : r \in XPairs(h[j]) <=> \E i \in m .. j - 1 : r = f[i]
           G == {j \in m .. e : Q(j)}
<1>14. m \in G
  <2>1. m - m = 0 /\ m .. m - 1 = {} /\ m \in m .. e
    BY <1>3
  <2>2. QED
    BY <1>8, <1>13, <2>1
<1>15. ASSUME NEW j \in m .. e - 1, j \in G PROVE j + 1 \in G
  <2>1. /\ j \in m .. e /\ j + 1 \in m + 1 .. e /\ j + 1 \in m .. e /\ (j + 1) - 1 = j /\ j - m \in Nat
        /\ j - m < MaxEntries /\ (j + 1) - m = (j - m) + 1 /\ j \in 0 .. e - 1
        /\ \A i : i \in m .. (j + 1) - 1 <=> i \in m .. j - 1 \/ i = j
        /\ \A i \in m .. j - 1 : i \in 0 .. e - 1 /\ i < j
    BY <1>1, <1>3
  <2>2. Q(j)
    BY <1>15
  <2> DEFINE k == f[j].key
             v == f[j].ptr
             c == X!Put(h[j], k, v).b
  <2>3. h[j + 1] = c
    BY <1>5, <1>13, <2>1
  <2>4. k \in Keys /\ v \in Values /\ f[j] = [key |-> k, ptr |-> v]
    BY <1>4, <2>1
  <2>5. ASSUME NEW r \in XPairs(h[j]) PROVE r.key # k
    <3>1. PICK i \in m .. j - 1 : r = f[i]
      BY <2>2
    <3>2. i \in 0 .. e - 1 /\ i < j
      BY <2>1
    <3>3. i # j
      BY <2>1, <3>2
    <3>4. f[i].key = f[j].key => i = j
      <4>1. e \in Nat /\ Row(f, e) /\ i \in 0 .. e - 1 /\ j \in 0 .. e - 1
        BY <1>1, <2>1, <3>2
      <4>2. QED
        BY <4>1, RowKeys
    <3>5. QED
      BY <3>1, <3>3, <3>4
  <2> HIDE DEF k, v
  <2>6. ~ (h[j].entries >= MaxEntries)
    BY <1>1, <2>1, <2>2
  <2>7. XGood(c) /\ c.entries = h[j].entries + 1 /\ XPairs(c) = XPairs(h[j]) \union {[key |-> k, ptr |-> v]}
    BY <2>2, <2>4, <2>5, <2>6, XPutClean
  <2> HIDE DEF c
  <2>8. \A r : r \in XPairs(c) <=> r \in XPairs(h[j]) \/ r = f[j]
    BY <2>4, <2>7
  <2>9. \A r : r \in XPairs(c) <=> \E i \in m .. (j + 1) - 1 : r = f[i]
    BY <2>1, <2>2, <2>8
  <2>10. Q(j + 1)
    BY <2>1, <2>2, <2>3, <2>7, <2>9
  <2> HIDE DEF Q
  <2>11. QED
    BY <2>1, <2>10
<1> HIDE DEF G
<1>16. e \in G
  <2>1. e \in m .. e /\ m <= e
    BY <1>3
  <2>2. QED
    BY <1>3, <1>14, <1>15, <2>1, InductFrom
<1>17. Q(e)
  BY <1>16 DEF G
<1>18. QED
  BY <1>12, <1>17 DEF e, m, f

(* The old one after its ranks were cut. *)
LEMMA XCutRow ==
  ASSUME NEW b, NEW B, NEW M, NEW T, NEW e, NEW x, XRow(b, B, M, T, e, x), NEW M1, NEW e1, NEW x1
  PROVE  XRow([b EXCEPT !.bitmap = M1, !.entries = e1, !.next = x1], B, M1, T, e1, x1)
<1> DEFINE c == [b EXCEPT !.bitmap = M1]
           d == [c EXCEPT !.entries = e1]
<1>1. [b EXCEPT !.bitmap = M1, !.entries = e1, !.next = x1] = [d EXCEPT !.next = x1]
  BY Zenon
<1>2. XRow(c, B, M1, T, e, x)
  BY DEF XRow
<1> HIDE DEF c
<1>3. XRow(d, B, M1, T, e1, x)
  BY <1>2 DEF XRow
<1> HIDE DEF d
<1>4. XRow([d EXCEPT !.next = x1], B, M1, T, e1, x1)
  BY <1>3 DEF XRow
<1>5. QED
  BY <1>1, <1>4

(* A split parts the pairs at split_key. *)
LEMMA XExpand ==
  ASSUME NEW b, XGood(b), b.entries >= MaxEntries, NEW nid \in Nat
  PROVE  LET x == X!Expand(b, nid)
         IN  /\ XGood(x.left) /\ XGood(x.right)
             /\ x.left.next = nid /\ x.right.next = b.next
             /\ x.left.entries < MaxEntries /\ x.right.entries < MaxEntries
             /\ \E q \in XPairs(b) : q.key = x.split_key
             /\ \E q \in XPairs(b) : q.key < x.split_key
             /\ \A r : /\ r \in XPairs(x.left) <=> r \in XPairs(b) /\ r.key < x.split_key
                       /\ r \in XPairs(x.right) <=> r \in XPairs(b) /\ r.key >= x.split_key
<1> DEFINE x == X!Expand(b, nid)
           e == b.entries
           half == e \div 2
           c == XUpper(b)
           f == XList(b)
           M == b.bitmap \ {b.total_indexs[n] : n \in half .. e - 1}
           l == [b EXCEPT !.bitmap = M, !.entries = half, !.next = nid]
<1>1. /\ b \in XBuckets /\ e \in Nat /\ e = MaxEntries /\ e >= 2 /\ MaxEntries \in Nat /\ b.next \in Nat
      /\ Row(f, e) /\ XPairs(b) = RowSet(f, e)
      /\ \A n \in 0 .. e - 1 : X!KeyAt(b, n) = f[n].key
      /\ \A m, n \in 0 .. e - 1 : b.total_indexs[m] = b.total_indexs[n] => m = n
      /\ \A i : i \in b.bitmap <=> \E n \in 0 .. e - 1 : i = b.total_indexs[n]
  BY XGoodParts DEF XPairs
<1>2. /\ XGood(c) /\ c.entries = e - half
      /\ \A r : r \in XPairs(c) <=> \E i \in half .. e - 1 : r = f[i]
  BY <1>1, XUpperIs
<1>3. x.split_key = X!KeyAt(b, half) /\ x.left = l
  BY DEF X!Expand
<1>4. x.right = [c EXCEPT !.next = b.next]
  BY DEF X!Expand, XUpper
<1> HIDE DEF x, c, f
<1>5. /\ half \in Nat /\ half < e /\ half >= 1 /\ half \in 0 .. e - 1 /\ 0 \in 0 .. e - 1
      /\ \A n \in 0 .. half - 1 : n \in 0 .. e - 1 /\ n \notin half .. e - 1
      /\ \A n \in 0 .. e - 1 : n \in 0 .. half - 1 \/ n \in half .. e - 1
      /\ \A n \in half .. e - 1 : n \in 0 .. e - 1
  <2> HIDE DEF e
  <2>1. half \in Nat /\ half < e /\ half >= 1
    BY <1>1
  <2> HIDE DEF half
  <2>2. QED
    BY <1>1, <2>1
<1> HIDE DEF half
<1>6. XGood(x.right) /\ x.right.next = b.next /\ x.right.entries = e - half /\ XPairs(x.right) = XPairs(c)
  BY <1>1, <1>2, <1>4, XNext
<1>7. /\ l.buf = b.buf /\ l.bitmap = M /\ l.total_indexs = b.total_indexs /\ l.entries = half /\ l.next = nid
      /\ l \in XBuckets
  <2>1. /\ b.buf \in [0 .. MaxEntries - 1 -> Record] /\ b.bitmap \in SUBSET (0 .. MaxEntries - 1)
        /\ b.total_indexs \in [0 .. MaxEntries - 1 -> 0 .. MaxEntries - 1]
    BY <1>1, XParts
  <2>2. M \in SUBSET (0 .. MaxEntries - 1)
    BY <2>1
  <2> HIDE DEF M
  <2>3. XRow(l, b.buf, M, b.total_indexs, half, nid)
    <3>1. XRow(b, b.buf, b.bitmap, b.total_indexs, b.entries, b.next)
      BY <1>1, XParts
    <3>2. QED
      BY <3>1, XCutRow
  <2> HIDE DEF l
  <2>4. /\ l.buf = b.buf /\ l.bitmap = M /\ l.total_indexs = b.total_indexs /\ l.entries = half /\ l.next = nid
        /\ l \in XBuckets <=> /\ b.buf \in [0 .. MaxEntries - 1 -> Record]
                              /\ M \in SUBSET (0 .. MaxEntries - 1)
                              /\ b.total_indexs \in [0 .. MaxEntries - 1 -> 0 .. MaxEntries - 1]
                              /\ half \in Nat /\ nid \in Nat
    BY <2>3, XRowParts, Zenon
  <2>5. QED
    BY <1>5, <2>1, <2>2, <2>4, Zenon
<1> HIDE DEF l
<1>8. M = {b.total_indexs[n] : n \in 0 .. half - 1}
  <2>1. ASSUME NEW i \in M PROVE \E n \in 0 .. half - 1 : i = b.total_indexs[n]
    <3>1. PICK n \in 0 .. e - 1 : i = b.total_indexs[n] /\ n \notin half .. e - 1
      BY <1>1
    <3>2. QED
      BY <1>5, <3>1
  <2>2. ASSUME NEW n \in 0 .. half - 1 PROVE b.total_indexs[n] \in M
    <3>1. n \in 0 .. e - 1 /\ n \notin half .. e - 1
      BY <1>5
    <3>2. b.total_indexs[n] \in b.bitmap
      BY <1>1, <3>1
    <3>3. ASSUME NEW m \in half .. e - 1, b.total_indexs[m] = b.total_indexs[n] PROVE FALSE
      BY <1>1, <1>5, <3>1, <3>3
    <3>4. QED
      BY <3>2, <3>3
  <2>3. QED
    BY <2>1, <2>2
<1> HIDE DEF M
<1>9. XList(l) = f
  BY <1>7 DEF XList, f
<1> DEFINE g == [i \in 0 .. e - half - 1 |-> f[half + i]]
<1>10. /\ Row(f, half)
       /\ \A r : /\ r \in RowSet(f, half) <=> r \in RowSet(f, e) /\ r.key < f[half].key
                 /\ r \in RowSet(g, e - half) <=> r \in RowSet(f, e) /\ r.key >= f[half].key
  <2>1. \A i \in 0 .. e - half - 1 : g[i] = f[half + i]
    OBVIOUS
  <2> HIDE DEF g, e
  <2>2. /\ Row(f, half) /\ Row(g, e - half)
        /\ \A r : /\ r \in RowSet(f, half) <=> r \in RowSet(f, e) /\ r.key < f[half].key
                  /\ r \in RowSet(g, e - half) <=> r \in RowSet(f, e) /\ r.key >= f[half].key
    BY <1>1, <1>5, <2>1, RowCut
  <2>3. QED
    BY <2>2
<1>11. \A r : r \in XPairs(c) <=> r \in RowSet(g, e - half)
  <2>1. \A r : r \in RowSet(g, e - half) <=> \E i \in 0 .. e - half - 1 : r = f[half + i]
    BY DEF RowSet
  <2>2. \A i \in half .. e - 1 : i - half \in 0 .. e - half - 1 /\ half + (i - half) = i
    BY <1>1, <1>5
  <2>3. \A i \in 0 .. e - half - 1 : half + i \in half .. e - 1
    BY <1>1, <1>5
  <2> HIDE DEF g
  <2>4. QED
    BY <1>2, <2>1, <2>2, <2>3
<1> HIDE DEF g, e
<1>12. XGood(l) /\ XPairs(l) = RowSet(f, half)
  <2>1. half <= MaxEntries /\ l.bitmap = {l.total_indexs[n] : n \in 0 .. l.entries - 1} /\ Row(XList(l), l.entries)
    BY <1>1, <1>5, <1>7, <1>8, <1>9, <1>10
  <2>2. QED
    BY <1>7, <1>9, <2>1 DEF XGood, XPairs
<1>13. x.split_key = f[half].key
  BY <1>1, <1>3, <1>5
<1>14. f[half] \in XPairs(b) /\ f[0] \in XPairs(b) /\ f[0].key < f[half].key
  BY <1>1, <1>5 DEF Row, RowSet
<1>15. half < MaxEntries /\ e - half < MaxEntries
  BY <1>1, <1>5
<1>16. \A r : /\ r \in XPairs(x.left) <=> r \in XPairs(b) /\ r.key < x.split_key
              /\ r \in XPairs(x.right) <=> r \in XPairs(b) /\ r.key >= x.split_key
  BY <1>1, <1>3, <1>6, <1>10, <1>11, <1>12, <1>13
<1>17. QED
  BY <1>3, <1>6, <1>7, <1>12, <1>13, <1>14, <1>15, <1>16 DEF x

-----------------------------------------------------------------------------
(* A bucket of the kind the entry was compiled with *)

ThreeKinds == {"sort", "unsort", "index"}

(* What holds of a bucket in any case, *)
KTyped(kd, b) ==
  \/ kd = "sort" /\ b \in SBuckets /\ b.entries <= MaxEntries
  \/ kd = "unsort" /\ UGood(b)
  \/ kd = "index" /\ XGood(b)

(* until a Put meets a hole, *)
KGood(kd, b) ==
  \/ kd = "sort" /\ SGood(b)
  \/ kd = "unsort" /\ UGood(b)
  \/ kd = "index" /\ XGood(b)

(* and until there are holes. *)
KClean(kd, b) ==
  \/ kd = "sort" /\ SClean(b)
  \/ kd = "unsort" /\ UGood(b)
  \/ kd = "index" /\ XGood(b)

KPairs(kd, b) ==
  IF kd = "sort" THEN SPairs(b) ELSE IF kd = "unsort" THEN UPairs(b) ELSE XPairs(b)

(* What the four mean for each class. *)
LEMMA KCases ==
  ASSUME NEW kd, NEW b
  PROVE  /\ kd = "sort" => /\ KTyped(kd, b) <=> b \in SBuckets /\ b.entries <= MaxEntries
                           /\ KGood(kd, b) <=> SGood(b)
                           /\ KClean(kd, b) <=> SClean(b)
                           /\ KPairs(kd, b) = SPairs(b)
         /\ kd = "unsort" => /\ KTyped(kd, b) <=> UGood(b)
                             /\ KGood(kd, b) <=> UGood(b)
                             /\ KClean(kd, b) <=> UGood(b)
                             /\ KPairs(kd, b) = UPairs(b)
         /\ kd = "index" => /\ KTyped(kd, b) <=> XGood(b)
                            /\ KGood(kd, b) <=> XGood(b)
                            /\ KClean(kd, b) <=> XGood(b)
                            /\ KPairs(kd, b) = XPairs(b)
         /\ KGood(kd, b) => kd \in ThreeKinds
         /\ KTyped(kd, b) => kd \in ThreeKinds
         /\ KClean(kd, b) => kd \in ThreeKinds
BY DEF KTyped, KGood, KClean, KPairs, ThreeKinds

(* The operation of the class of this entry. *)
LEMMA Picks ==
  ASSUME NEW s, NEW u, NEW x
  PROVE  /\ kind = "sort" => Pick(s, u, x) = s
         /\ kind = "unsort" => Pick(s, u, x) = u
         /\ kind = "index" => Pick(s, u, x) = x
BY DEF Pick

(* Each says more than the one before, and a full bucket has no holes. *)
LEMMA KStrength ==
  ASSUME NEW kd, NEW b
  PROVE  /\ KClean(kd, b) => KGood(kd, b)
         /\ KGood(kd, b) => KTyped(kd, b)
         /\ KGood(kd, b) /\ kd # "sort" => KClean(kd, b)
         /\ KGood(kd, b) /\ b.entries >= MaxEntries => KClean(kd, b)
<1>1. SClean(b) => SGood(b)
  BY SCleanGood
<1>2. SGood(b) => b \in SBuckets /\ b.entries <= MaxEntries
  <2>1. SGood(b) => b \in SBuckets /\ b.entries \in 0 .. MaxEntries
    BY SCount, SGoodParts
  <2>2. QED
    BY <2>1, Sizes
<1>3. SGood(b) /\ b.entries >= MaxEntries => SClean(b)
  <2>1. ASSUME SGood(b), b.entries >= MaxEntries PROVE b.entries = b.last_pos
    <3>1. b.last_pos \in Nat /\ b.last_pos <= MaxEntries /\ b.entries \in Nat /\ b.entries <= b.last_pos
      BY <2>1, SGoodParts
    <3>2. QED
      BY <2>1, <3>1, Sizes
  <2>2. QED
    BY <2>1, SGoodClean
<1>4. QED
  BY <1>1, <1>2, <1>3 DEF KTyped, KGood, KClean

(* entries counts the pairs, and no key is there twice. *)
LEMMA KCount ==
  ASSUME NEW kd, NEW b, KGood(kd, b)
  PROVE  /\ b.entries = Cardinality(KPairs(kd, b)) /\ KPairs(kd, b) \subseteq Pair
         /\ b.entries \in 0 .. MaxEntries /\ b.next \in Nat
         /\ \A r, t \in KPairs(kd, b) : r.key = t.key => r = t
<1>1. CASE kd = "sort"
  <2>1. SGood(b) /\ KPairs(kd, b) = SPairs(b)
    BY <1>1, KCases
  <2>2. QED
    BY <2>1, SCount
<1>2. CASE kd = "unsort"
  <2>1. UGood(b) /\ KPairs(kd, b) = UPairs(b)
    BY <1>2, KCases
  <2>2. QED
    BY <2>1, UCount
<1>3. CASE kd = "index"
  <2>1. XGood(b) /\ KPairs(kd, b) = XPairs(b)
    BY <1>3, KCases
  <2>2. QED
    BY <2>1, XCount
<1>4. QED
  BY <1>1, <1>2, <1>3, KCases DEF ThreeKinds

(* The counters of a bucket in any state. *)
LEMMA KTypedIs ==
  ASSUME NEW kd, NEW b, KTyped(kd, b)
  PROVE  b.entries \in 0 .. MaxEntries /\ b.next \in Nat
<1>1. CASE kd = "sort"
  <2>1. b \in SBuckets /\ b.entries <= MaxEntries
    BY <1>1, KCases
  <2>2. QED
    BY <2>1, SParts, Sizes
<1>2. CASE kd = "unsort"
  BY <1>2, KCases, UCount
<1>3. CASE kd = "index"
  BY <1>3, KCases, XCount
<1>4. QED
  BY <1>1, <1>2, <1>3, KCases DEF ThreeKinds

(* A new bucket. *)
LEMMA BEmptyIs ==
  ASSUME kind \in ThreeKinds
  PROVE  KClean(kind, BEmpty) /\ KPairs(kind, BEmpty) = {} /\ BEmpty.next = 0 /\ BEmpty.entries = 0
<1>1. CASE kind = "sort"
  BY <1>1, KCases, Picks, SEmptyIs DEF BEmpty
<1>2. CASE kind = "unsort"
  BY <1>2, KCases, Picks, UEmptyIs DEF BEmpty
<1>3. CASE kind = "index"
  BY <1>3, KCases, Picks, XEmptyIs DEF BEmpty
<1>4. QED
  BY <1>1, <1>2, <1>3 DEF ThreeKinds

(* Put of an absent key says Full exactly when the bucket is full. *)
LEMMA BPutFull ==
  ASSUME NEW b, KGood(kind, b), NEW k \in Keys, NEW v, \A r \in KPairs(kind, b) : r.key # k
  PROVE  /\ b.entries >= MaxEntries => BPut(b, k, v) = [status |-> "Full", b |-> b]
         /\ ~ (b.entries >= MaxEntries) => BPut(b, k, v).status = "OK"
<1>1. b.entries \in Nat
  BY KCount
<1>2. CASE kind = "sort"
  <2>1. BPut(b, k, v) = S!Put(b, k, v)
    BY <1>2, Picks DEF BPut
  <2>2. QED
    BY <1>1, <2>1, SPutFull
<1>3. CASE kind = "unsort"
  <2>1. BPut(b, k, v) = U!Put(b, k, v)
    BY <1>3, Picks DEF BPut
  <2>2. QED
    BY <1>1, <2>1, UPutFull
<1>4. CASE kind = "index"
  <2>1. BPut(b, k, v) = X!Put(b, k, v) /\ XGood(b) /\ KPairs(kind, b) = XPairs(b)
    BY <1>4, Picks, KCases DEF BPut
  <2>2. QED
    BY <2>1, XPutFull
<1>5. QED
  BY <1>2, <1>3, <1>4, KCases DEF ThreeKinds

(* Put of an absent key into a bucket that has room and no holes. *)
LEMMA BPutClean ==
  ASSUME NEW b, KClean(kind, b), ~ (b.entries >= MaxEntries), NEW k \in Keys, NEW v \in Values,
         \A r \in KPairs(kind, b) : r.key # k
  PROVE  LET c == BPut(b, k, v).b
         IN  /\ KClean(kind, c) /\ c.next = b.next /\ c.entries = b.entries + 1
             /\ KPairs(kind, c) = KPairs(kind, b) \union {[key |-> k, ptr |-> v]}
<1>1. b.entries \in Nat
  BY KCount, KStrength
<1>2. CASE kind = "sort"
  <2> DEFINE c == S!Counted(S!PutBufKV(b, k, v))
  <2>1. BPut(b, k, v) = S!Put(b, k, v) /\ SClean(b) /\ KPairs(kind, b) = SPairs(b)
    BY <1>2, Picks, KCases DEF BPut
  <2>2. S!Put(b, k, v).b = c
    BY <1>1, SPutFull
  <2>3. /\ SClean(c) /\ c.next = b.next /\ c.entries = b.entries + 1
        /\ SPairs(c) = SPairs(b) \union {[key |-> k, ptr |-> v]}
    BY <2>1, SPutClean
  <2> HIDE DEF c
  <2>4. KClean(kind, c) /\ KPairs(kind, c) = SPairs(c)
    BY <1>2, <2>3, KCases
  <2>5. QED
    BY <2>1, <2>2, <2>3, <2>4
<1>3. CASE kind = "unsort"
  <2> DEFINE c == U!Put(b, k, v).b
  <2>1. BPut(b, k, v).b = c /\ UGood(b) /\ KPairs(kind, b) = UPairs(b)
    BY <1>3, Picks, KCases DEF BPut
  <2>2. /\ UGood(c) /\ c.next = b.next /\ c.entries = b.entries + 1
        /\ UPairs(c) = UPairs(b) \union {[key |-> k, ptr |-> v]}
    BY <2>1, UPutClean
  <2> HIDE DEF c
  <2>3. KClean(kind, c) /\ KPairs(kind, c) = UPairs(c)
    BY <1>3, <2>2, KCases
  <2>4. QED
    BY <2>1, <2>2, <2>3
<1>4. CASE kind = "index"
  <2> DEFINE c == X!Put(b, k, v).b
  <2>1. BPut(b, k, v).b = c /\ XGood(b) /\ KPairs(kind, b) = XPairs(b)
    BY <1>4, Picks, KCases DEF BPut
  <2>2. /\ XGood(c) /\ c.next = b.next /\ c.entries = b.entries + 1
        /\ XPairs(c) = XPairs(b) \union {[key |-> k, ptr |-> v]}
    BY <2>1, XPutClean
  <2> HIDE DEF c
  <2>3. KClean(kind, c) /\ KPairs(kind, c) = XPairs(c)
    BY <1>4, <2>2, KCases
  <2>4. QED
    BY <2>1, <2>2, <2>3
<1>5. QED
  BY <1>2, <1>3, <1>4, KCases DEF ThreeKinds

(* Among holes a Put keeps to the types. *)
LEMMA BPutHoled ==
  ASSUME kind = "sort", NEW b, KGood(kind, b), ~ (b.entries >= MaxEntries), NEW k \in Keys, NEW v \in Values
  PROVE  LET c == BPut(b, k, v).b IN KTyped(kind, c) /\ c.next = b.next
<1> DEFINE c == S!Counted(S!PutBufKV(b, k, v))
<1>1. BPut(b, k, v) = S!Put(b, k, v) /\ SGood(b) /\ b \in SBuckets /\ b.entries \in 0 .. MaxEntries
  BY Picks, KCases, KCount, SGoodParts DEF BPut
<1>2. S!Put(b, k, v).b = c
  BY <1>1, SPutFull
<1>3. c \in SBuckets /\ c.entries = b.entries + 1 /\ c.next = b.next
  BY <1>1, SPutAny
<1> HIDE DEF c
<1>4. c.entries <= MaxEntries
  BY <1>1, <1>3, Sizes
<1>5. QED
  BY <1>1, <1>2, <1>3, <1>4, KCases

(* Get finds what is there. *)
LEMMA BGetIs ==
  ASSUME NEW b, KGood(kind, b), NEW k \in Keys
  PROVE  /\ \A r \in KPairs(kind, b) : r.key = k => BGet(b, k) = r.ptr
         /\ (\A r \in KPairs(kind, b) : r.key # k) => BGet(b, k) = 0
<1>1. CASE kind = "sort"
  <2>1. BGet(b, k) = S!Get(b, k) /\ SGood(b) /\ KPairs(kind, b) = SPairs(b)
    BY <1>1, Picks, KCases DEF BGet
  <2>2. QED
    BY <2>1, SGet
<1>2. CASE kind = "unsort"
  <2>1. BGet(b, k) = U!Get(b, k) /\ UGood(b) /\ KPairs(kind, b) = UPairs(b)
    BY <1>2, Picks, KCases DEF BGet
  <2>2. QED
    BY <2>1, UGet
<1>3. CASE kind = "index"
  <2>1. BGet(b, k) = X!Get(b, k) /\ XGood(b) /\ KPairs(kind, b) = XPairs(b)
    BY <1>3, Picks, KCases DEF BGet
  <2>2. QED
    BY <2>1, XGet
<1>4. QED
  BY <1>1, <1>2, <1>3, KCases DEF ThreeKinds

(* Update; with holes it may miss a key that is there. *)
LEMMA BUpdateIs ==
  ASSUME NEW b, KGood(kind, b), NEW k \in Keys, NEW v \in Values
  PROVE  LET r == BUpdate(b, k, v)
         IN  /\ r.status \in {"OK", "NoExist"} /\ (r.status = "NoExist" => r.b = b)
             /\ r.status = "OK" =>
                  /\ KGood(kind, r.b) /\ r.b.next = b.next
                  /\ \E q \in KPairs(kind, b) : q.key = k
                  /\ \A t : t \in KPairs(kind, r.b) <=> \/ t \in KPairs(kind, b) /\ t.key # k
                                                        \/ t = [key |-> k, ptr |-> v]
             /\ KClean(kind, b) => KClean(kind, r.b)
             /\ KClean(kind, b) /\ (\E q \in KPairs(kind, b) : q.key = k) => r.status = "OK"
<1>1. CASE kind = "sort"
  <2> DEFINE r == S!Update(b, k, v)
  <2>1. BUpdate(b, k, v) = r /\ SGood(b) /\ KPairs(kind, b) = SPairs(b) /\ (KClean(kind, b) <=> SClean(b))
    BY <1>1, Picks, KCases DEF BUpdate
  <2>2. /\ r.status \in {"OK", "NoExist"} /\ (r.status = "NoExist" => r.b = b)
        /\ r.status = "OK" =>
             /\ SGood(r.b) /\ r.b.next = b.next
             /\ \E q \in SPairs(b) : q.key = k
             /\ \A t : t \in SPairs(r.b) <=> \/ t \in SPairs(b) /\ t.key # k
                                             \/ t = [key |-> k, ptr |-> v]
        /\ SClean(b) => SClean(r.b)
        /\ SClean(b) /\ (\E q \in SPairs(b) : q.key = k) => r.status = "OK"
    BY <2>1, SUpdate
  <2> HIDE DEF r
  <2>3. (KGood(kind, r.b) <=> SGood(r.b)) /\ (KClean(kind, r.b) <=> SClean(r.b)) /\ KPairs(kind, r.b) = SPairs(r.b)
    BY <1>1, KCases
  <2>4. QED
    BY <2>1, <2>2, <2>3
<1>2. CASE kind = "unsort"
  <2> DEFINE r == U!Update(b, k, v)
  <2>1. BUpdate(b, k, v) = r /\ UGood(b) /\ KPairs(kind, b) = UPairs(b)
    BY <1>2, Picks, KCases DEF BUpdate
  <2>2. /\ r.status \in {"OK", "NoExist"} /\ (r.status = "NoExist" => r.b = b)
        /\ r.status = "OK" =>
             /\ UGood(r.b) /\ r.b.next = b.next
             /\ \E q \in UPairs(b) : q.key = k
             /\ \A t : t \in UPairs(r.b) <=> \/ t \in UPairs(b) /\ t.key # k
                                             \/ t = [key |-> k, ptr |-> v]
        /\ (\E q \in UPairs(b) : q.key = k) => r.status = "OK"
    BY <2>1, UUpdate
  <2> HIDE DEF r
  <2>3. (KGood(kind, r.b) <=> UGood(r.b)) /\ (KClean(kind, r.b) <=> UGood(r.b)) /\ KPairs(kind, r.b) = UPairs(r.b)
    BY <1>2, KCases
  <2>4. QED
    BY <2>1, <2>2, <2>3
<1>3. CASE kind = "index"
  <2> DEFINE r == X!Update(b, k, v)
  <2>1. BUpdate(b, k, v) = r /\ XGood(b) /\ KPairs(kind, b) = XPairs(b)
    BY <1>3, Picks, KCases DEF BUpdate
  <2>2. /\ r.status \in {"OK", "NoExist"} /\ (r.status = "NoExist" => r.b = b)
        /\ r.status = "OK" =>
             /\ XGood(r.b) /\ r.b.next = b.next
             /\ \E q \in XPairs(b) : q.key = k
             /\ \A t : t \in XPairs(r.b) <=> \/ t \in XPairs(b) /\ t.key # k
                                             \/ t = [key |-> k, ptr |-> v]
        /\ (\E q \in XPairs(b) : q.key = k) => r.status = "OK"
    BY <2>1, XUpdate
  <2> HIDE DEF r
  <2>3. (KGood(kind, r.b) <=> XGood(r.b)) /\ (KClean(kind, r.b) <=> XGood(r.b)) /\ KPairs(kind, r.b) = XPairs(r.b)
    BY <1>3, KCases
  <2>4. QED
    BY <2>1, <2>2, <2>3
<1>4. QED
  BY <1>1, <1>2, <1>3, KCases DEF ThreeKinds

(* Delete; with holes it may miss a key that is there. *)
LEMMA BDeleteIs ==
  ASSUME NEW b, KGood(kind, b), NEW k \in Keys
  PROVE  LET r == BDelete(b, k)
         IN  /\ r.status \in {"OK", "NoExist"} /\ (r.status = "NoExist" => r.b = b)
             /\ r.status = "OK" =>
                  /\ KGood(kind, r.b) /\ r.b.next = b.next
                  /\ \E q \in KPairs(kind, b) : q.key = k
                  /\ \A t : t \in KPairs(kind, r.b) <=> t \in KPairs(kind, b) /\ t.key # k
             /\ KClean(kind, b) /\ (\E q \in KPairs(kind, b) : q.key = k) => r.status = "OK"
<1>1. CASE kind = "sort"
  <2> DEFINE r == S!Delete(b, k)
  <2>1. BDelete(b, k) = r /\ SGood(b) /\ KPairs(kind, b) = SPairs(b) /\ (KClean(kind, b) <=> SClean(b))
    BY <1>1, Picks, KCases DEF BDelete
  <2>2. /\ r.status \in {"OK", "NoExist"} /\ (r.status = "NoExist" => r.b = b)
        /\ r.status = "OK" =>
             /\ SGood(r.b) /\ r.b.next = b.next
             /\ \E q \in SPairs(b) : q.key = k
             /\ \A t : t \in SPairs(r.b) <=> t \in SPairs(b) /\ t.key # k
        /\ SClean(b) /\ (\E q \in SPairs(b) : q.key = k) => r.status = "OK"
    BY <2>1, SDelete
  <2> HIDE DEF r
  <2>3. (KGood(kind, r.b) <=> SGood(r.b)) /\ KPairs(kind, r.b) = SPairs(r.b)
    BY <1>1, KCases
  <2>4. QED
    BY <2>1, <2>2, <2>3
<1>2. CASE kind = "unsort"
  <2> DEFINE r == U!Delete(b, k)
  <2>1. BDelete(b, k) = r /\ UGood(b) /\ KPairs(kind, b) = UPairs(b)
    BY <1>2, Picks, KCases DEF BDelete
  <2>2. /\ r.status \in {"OK", "NoExist"} /\ (r.status = "NoExist" => r.b = b)
        /\ r.status = "OK" =>
             /\ UGood(r.b) /\ r.b.next = b.next
             /\ \E q \in UPairs(b) : q.key = k
             /\ \A t : t \in UPairs(r.b) <=> t \in UPairs(b) /\ t.key # k
        /\ (\E q \in UPairs(b) : q.key = k) => r.status = "OK"
    BY <2>1, UDelete
  <2> HIDE DEF r
  <2>3. (KGood(kind, r.b) <=> UGood(r.b)) /\ KPairs(kind, r.b) = UPairs(r.b)
    BY <1>2, KCases
  <2>4. QED
    BY <2>1, <2>2, <2>3
<1>3. CASE kind = "index"
  <2> DEFINE r == X!Delete(b, k)
  <2>1. BDelete(b, k) = r /\ XGood(b) /\ KPairs(kind, b) = XPairs(b)
    BY <1>3, Picks, KCases DEF BDelete
  <2>2. /\ r.status \in {"OK", "NoExist"} /\ (r.status = "NoExist" => r.b = b)
        /\ r.status = "OK" =>
             /\ XGood(r.b) /\ r.b.next = b.next
             /\ \E q \in XPairs(b) : q.key = k
             /\ \A t : t \in XPairs(r.b) <=> t \in XPairs(b) /\ t.key # k
        /\ (\E q \in XPairs(b) : q.key = k) => r.status = "OK"
    BY <2>1, XDelete
  <2> HIDE DEF r
  <2>3. (KGood(kind, r.b) <=> XGood(r.b)) /\ KPairs(kind, r.b) = XPairs(r.b)
    BY <1>3, KCases
  <2>4. QED
    BY <2>1, <2>2, <2>3
<1>4. QED
  BY <1>1, <1>2, <1>3, KCases DEF ThreeKinds

(* A split: the keys below split_key stay. *)
LEMMA BExpandIs ==
  ASSUME NEW b, KClean(kind, b), b.entries >= MaxEntries, NEW nid \in Nat
  PROVE  LET x == BExpand(b, nid)
         IN  /\ KClean(kind, x.left) /\ KClean(kind, x.right)
             /\ x.left.next = nid /\ x.right.next = b.next
             /\ x.left.entries < MaxEntries /\ x.right.entries < MaxEntries
             /\ \E q \in KPairs(kind, b) : q.key = x.split_key
             /\ \E q \in KPairs(kind, b) : q.key < x.split_key
             /\ \A r : /\ r \in KPairs(kind, x.left) <=> r \in KPairs(kind, b) /\ r.key < x.split_key
                       /\ r \in KPairs(kind, x.right) <=> r \in KPairs(kind, b) /\ r.key >= x.split_key
<1>1. CASE kind = "sort"
  <2> DEFINE x == S!Expand(b, nid)
  <2>1. BExpand(b, nid) = x /\ SClean(b) /\ KPairs(kind, b) = SPairs(b)
    BY <1>1, Picks, KCases DEF BExpand
  <2>2. /\ SClean(x.left) /\ SClean(x.right)
        /\ x.left.next = nid /\ x.right.next = b.next
        /\ x.left.entries < MaxEntries /\ x.right.entries < MaxEntries
        /\ \E q \in SPairs(b) : q.key = x.split_key
        /\ \E q \in SPairs(b) : q.key < x.split_key
        /\ \A r : /\ r \in SPairs(x.left) <=> r \in SPairs(b) /\ r.key < x.split_key
                  /\ r \in SPairs(x.right) <=> r \in SPairs(b) /\ r.key >= x.split_key
    BY <2>1, SExpand
  <2> HIDE DEF x
  <2>3. /\ KClean(kind, x.left) /\ KPairs(kind, x.left) = SPairs(x.left)
        /\ KClean(kind, x.right) /\ KPairs(kind, x.right) = SPairs(x.right)
    BY <1>1, <2>2, KCases
  <2>4. QED
    BY <2>1, <2>2, <2>3
<1>2. CASE kind = "unsort"
  <2> DEFINE x == U!Expand(b, nid)
  <2>1. BExpand(b, nid) = x /\ UGood(b) /\ KPairs(kind, b) = UPairs(b)
    BY <1>2, Picks, KCases DEF BExpand
  <2>2. /\ UGood(x.left) /\ UGood(x.right)
        /\ x.left.next = nid /\ x.right.next = b.next
        /\ x.left.entries < MaxEntries /\ x.right.entries < MaxEntries
        /\ \E q \in UPairs(b) : q.key = x.split_key
        /\ \E q \in UPairs(b) : q.key < x.split_key
        /\ \A r : /\ r \in UPairs(x.left) <=> r \in UPairs(b) /\ r.key < x.split_key
                  /\ r \in UPairs(x.right) <=> r \in UPairs(b) /\ r.key >= x.split_key
    BY <2>1, UExpand
  <2> HIDE DEF x
  <2>3. /\ KClean(kind, x.left) /\ KPairs(kind, x.left) = UPairs(x.left)
        /\ KClean(kind, x.right) /\ KPairs(kind, x.right) = UPairs(x.right)
    BY <1>2, <2>2, KCases
  <2>4. QED
    BY <2>1, <2>2, <2>3
<1>3. CASE kind = "index"
  <2> DEFINE x == X!Expand(b, nid)
  <2>1. BExpand(b, nid) = x /\ XGood(b) /\ KPairs(kind, b) = XPairs(b)
    BY <1>3, Picks, KCases DEF BExpand
  <2>2. /\ XGood(x.left) /\ XGood(x.right)
        /\ x.left.next = nid /\ x.right.next = b.next
        /\ x.left.entries < MaxEntries /\ x.right.entries < MaxEntries
        /\ \E q \in XPairs(b) : q.key = x.split_key
        /\ \E q \in XPairs(b) : q.key < x.split_key
        /\ \A r : /\ r \in XPairs(x.left) <=> r \in XPairs(b) /\ r.key < x.split_key
                  /\ r \in XPairs(x.right) <=> r \in XPairs(b) /\ r.key >= x.split_key
    BY <2>1, XExpand
  <2> HIDE DEF x
  <2>3. /\ KClean(kind, x.left) /\ KPairs(kind, x.left) = XPairs(x.left)
        /\ KClean(kind, x.right) /\ KPairs(kind, x.right) = XPairs(x.right)
    BY <1>3, <2>2, KCases
  <2>4. QED
    BY <2>1, <2>2, <2>3
<1>4. QED
  BY <1>1, <1>2, <1>3, KCases DEF ThreeKinds

(* min_key: one key, or whatever is there. *)
LEMMA BMinKeysIs ==
  ASSUME NEW b, KTyped(kind, b)
  PROVE  /\ \/ BMinKeys(b) = 0 .. MaxKey
            \/ \E m \in 0 .. MaxKey : BMinKeys(b) = {m}
         /\ KGood(kind, b) => \/ BMinKeys(b) = 0 .. MaxKey
                              \/ \E q \in KPairs(kind, b) : /\ BMinKeys(b) = {q.key}
                                                            /\ \A t \in KPairs(kind, b) : q.key <= t.key
<1> DEFINE any == 0 .. MaxKey
<1>1. \A q \in Pair : q.key \in any
  BY PairParts, Sizes
<1> HIDE DEF any
<1>2. CASE kind = "sort"
  <2>1. BMinKeys(b) = S!MinKeys(b, any) /\ b \in SBuckets /\ (KGood(kind, b) <=> SGood(b)) /\ KPairs(kind, b) = SPairs(b)
    BY <1>2, Picks, KCases DEF BMinKeys, any
  <2>2. S!MinKeys(b, any) = any \/ \E m \in 0 .. MaxKey : S!MinKeys(b, any) = {m}
    BY <2>1, SMinKeys
  <2>3. SGood(b) => \/ S!MinKeys(b, any) = any
                    \/ \E q \in SPairs(b) : /\ S!MinKeys(b, any) = {q.key}
                                            /\ \A t \in SPairs(b) : q.key <= t.key
    BY SMinKeys
  <2>4. QED
    BY <2>1, <2>2, <2>3 DEF any
<1>3. CASE kind = "unsort"
  <2>1. BMinKeys(b) = U!MinKeys(b, any) /\ UGood(b) /\ KPairs(kind, b) = UPairs(b)
    BY <1>3, Picks, KCases DEF BMinKeys, any
  <2>2. \/ U!MinKeys(b, any) = any
        \/ \E q \in UPairs(b) : U!MinKeys(b, any) = {q.key} /\ \A t \in UPairs(b) : q.key <= t.key
    BY <2>1, UMinKeys
  <2>3. \A q \in UPairs(b) : q.key \in 0 .. MaxKey
    BY <1>1, <2>1, UCount DEF any
  <2>4. QED
    BY <2>1, <2>2, <2>3 DEF any
<1>4. CASE kind = "index"
  <2>1. BMinKeys(b) = X!MinKeys(b, any) /\ XGood(b) /\ KPairs(kind, b) = XPairs(b)
    BY <1>4, Picks, KCases DEF BMinKeys, any
  <2>2. \/ X!MinKeys(b, any) = any
        \/ \E q \in XPairs(b) : X!MinKeys(b, any) = {q.key} /\ \A t \in XPairs(b) : q.key <= t.key
    BY <2>1, XMinKeys
  <2>3. \A q \in XPairs(b) : q.key \in 0 .. MaxKey
    BY <1>1, <2>1, XCount DEF any
  <2>4. QED
    BY <2>1, <2>2, <2>3 DEF any
<1>5. QED
  BY <1>2, <1>3, <1>4, KCases DEF ThreeKinds

(* The iterators. *)
LEMMA BIterIs ==
  ASSUME NEW b, KClean(kind, b)
  PROVE  Ascends(BIter(b), KPairs(kind, b))
<1>1. CASE kind = "sort"
  BY <1>1, Picks, KCases, SIterClean DEF BIter
<1>2. CASE kind = "unsort"
  BY <1>2, Picks, KCases, UIterIs DEF BIter
<1>3. CASE kind = "index"
  BY <1>3, Picks, KCases, XIterIs DEF BIter
<1>4. QED
  BY <1>1, <1>2, <1>3, KCases DEF ThreeKinds

(* And from a key beyond the prefix, the pairs from there on. *)
LEMMA BIterFromIs ==
  ASSUME NEW b, KClean(kind, b), NEW k \in Keys, NEW p, ~ (k <= p), NEW R,
         \A r : r \in R <=> r \in KPairs(kind, b) /\ r.key >= k
  PROVE  Ascends(BIterFrom(b, k, p), R)
<1>1. CASE kind = "sort"
  <2>1. BIterFrom(b, k, p) = S!IterFrom(b, k, p) /\ SClean(b) /\ KPairs(kind, b) = SPairs(b)
    BY <1>1, Picks, KCases DEF BIterFrom
  <2>2. QED
    BY <2>1, SIterFromClean
<1>2. CASE kind = "unsort"
  <2>1. BIterFrom(b, k, p) = U!IterFrom(b, k, p) /\ UGood(b) /\ KPairs(kind, b) = UPairs(b)
    BY <1>2, Picks, KCases DEF BIterFrom
  <2>2. QED
    BY <2>1, UIterFrom
<1>3. CASE kind = "index"
  <2>1. BIterFrom(b, k, p) = X!IterFrom(b, k, p) /\ XGood(b) /\ KPairs(kind, b) = XPairs(b)
    BY <1>3, Picks, KCases DEF BIterFrom
  <2>2. QED
    BY <2>1, XIterFrom
<1>4. QED
  BY <1>1, <1>2, <1>3, KCases DEF ThreeKinds

(* What an iterator meets that has a key: the pairs. *)
LEMMA PairsAre ==
  ASSUME NEW b, KGood(kind, b)
  PROVE  Pairs(b) = KPairs(kind, b)
<1>1. \A r : r \in Range(BIter(b)) /\ r.key # 0 <=> r \in KPairs(kind, b)
  <2>1. CASE kind = "sort"
    <3>1. BIter(b) = S!Iter(b) /\ SGood(b) /\ KPairs(kind, b) = SPairs(b)
      BY <2>1, Picks, KCases DEF BIter
    <3>2. \A r : r \in Range(S!Iter(b)) /\ r.key # 0 <=> r \in SPairs(b)
      BY <3>1, SLiveRange
    <3>3. QED
      BY <3>1, <3>2
  <2>2. CASE kind # "sort"
    <3>1. KClean(kind, b)
      BY <2>2, KStrength
    <3>2. Range(BIter(b)) = KPairs(kind, b)
      BY <3>1, BIterIs DEF Ascends
    <3>3. \A r \in KPairs(kind, b) : r.key # 0
      BY KCount, PairParts
    <3>4. QED
      BY <3>2, <3>3
  <2>3. QED
    BY <2>1, <2>2
<1>2. QED
  BY <1>1 DEF Pairs

-----------------------------------------------------------------------------
(* The pointers and the buckets they lead to *)

AllBuckets == SBuckets \union UBuckets \union XBuckets
Entry == [entry_key : 0 .. MaxKey, ptr : Nat]

(* The pairs of the bucket of entry i. *)
Held(kd, hp, es, i) == KPairs(kd, hp[es[i].ptr])

(* As many buckets as entries, one behind each, chained in their order. *)
Shape(hp, es) ==
  /\ hp \in Seq(AllBuckets) /\ es \in Seq(Entry)
  /\ Len(es) \in 1 .. EntryCount /\ Len(hp) = Len(es)
  /\ \A i \in 1 .. Len(es) : es[i].ptr \in 1 .. Len(hp)
  /\ \A i, j \in 1 .. Len(es) : es[i].ptr = es[j].ptr => i = j
  /\ \A i \in 1 .. Len(es) : hp[es[i].ptr].next = IF i = Len(es) THEN 0 ELSE es[i + 1].ptr

(* The entries ascend and the keys of a bucket are between its entry and   *)
(* the next; the first entry too is not above its keys.                    *)
Between(kd, hp, es) ==
  /\ \A i, j \in 1 .. Len(es) : i < j => es[i].entry_key < es[j].entry_key
  /\ \A i \in 1 .. Len(es) : \A r \in Held(kd, hp, es, i) :
       /\ es[i].entry_key <= r.key
       /\ i < Len(es) => r.key < es[i + 1].entry_key

(* The buckets hold what a map would. *)
Agrees(kd, hp, es, st) ==
  /\ \A i \in 1 .. Len(es) : \A r \in Held(kd, hp, es, i) : st[r.key] = r.ptr
  /\ \A x \in Keys : st[x] # 0 =>
       \E i \in 1 .. Len(es) : [key |-> x, ptr |-> st[x]] \in Held(kd, hp, es, i)

AllTyped(kd, hp) == \A i \in 1 .. Len(hp) : KTyped(kd, hp[i])
AllGood(kd, hp) == \A i \in 1 .. Len(hp) : KGood(kd, hp[i])
AllClean(kd, hp) == \A i \in 1 .. Len(hp) : KClean(kd, hp[i])

Scalars ==
  /\ kind \in Kinds /\ prefix \in {0, InitPrefix}
  /\ store \in [Keys -> 0 .. 2]
  /\ holed \in BOOLEAN /\ dirty \in BOOLEAN /\ changes \in 0 .. MaxChanges
  /\ last.had \in BOOLEAN /\ last.status \in Statuses

(* The inductive invariant. *)
IInv ==
  /\ Scalars
  /\ Shape(heap, ents) /\ AllTyped(kind, heap)
  /\ ~dirty => /\ AllGood(kind, heap) /\ Between(kind, heap, ents)
               /\ Agrees(kind, heap, ents, store)
  /\ ~dirty /\ ~holed => AllClean(kind, heap)

(* The fields of an entry. *)
LEMMA EntryParts ==
  ASSUME NEW es \in Seq(Entry), NEW i \in 1 .. Len(es)
  PROVE  /\ es[i] \in Entry /\ es[i].entry_key \in 0 .. MaxKey /\ es[i].entry_key \in Int /\ es[i].ptr \in Nat
         /\ es[i] = [entry_key |-> es[i].entry_key, ptr |-> es[i].ptr]
<1>1. es[i] \in Entry
  OBVIOUS
<1>2. QED
  BY <1>1, Sizes DEF Entry

(* Find_pos: the entry that begins at or below the key and whose successor *)
(* begins above it, or the first one.                                      *)
LEMMA FindPosIs ==
  ASSUME NEW es \in Seq(Entry), Len(es) >= 1, NEW k \in Int,
         \A i, j \in 1 .. Len(es) : i < j => es[i].entry_key < es[j].entry_key
  PROVE  LET p == FindPos(es, k)
         IN  /\ p \in 1 .. Len(es)
             /\ p > 1 => es[p].entry_key <= k
             /\ p < Len(es) => k < es[p + 1].entry_key
<1> DEFINE n == Len(es)
           above == {i \in 1 .. n : es[i].entry_key > k}
           T == above \union {n + 1}
           m == Min(T)
           p == Max({1, m - 1})
<1>1. n \in Nat /\ n >= 1
  OBVIOUS
<1>2. \A i \in 1 .. n : es[i].entry_key \in Int
  BY EntryParts
<1> HIDE DEF n
<1>3. m \in T /\ \A y \in T : m <= y
  <2>1. T \in SUBSET Int /\ T # {} /\ \A x \in T : 1 <= x
    BY <1>1
  <2> HIDE DEF T
  <2>2. QED
    BY <2>1, MinProperty
<1>4. m \in 1 .. n + 1 /\ (m = n + 1 \/ (m \in 1 .. n /\ es[m].entry_key > k))
  <2> HIDE DEF m
  <2>1. QED
    BY <1>1, <1>3
<1>5. \A i \in 1 .. n : i < m => es[i].entry_key <= k
  <2> SUFFICES ASSUME NEW i \in 1 .. n, i < m PROVE es[i].entry_key <= k
    OBVIOUS
  <2>1. i \notin T
    <3> HIDE DEF m, T
    <3>1. i \in T => m <= i
      BY <1>3
    <3>2. m \in Int /\ i \in Int
      BY <1>1, <1>4
    <3>3. QED
      BY <3>1, <3>2
  <2>2. ~ (es[i].entry_key > k)
    BY <2>1
  <2>3. es[i].entry_key \in Int
    BY <1>2
  <2> HIDE DEF m, T
  <2>4. QED
    BY <2>2, <2>3
<1> HIDE DEF m, T, above
<1>6. p = IF m = 1 THEN 1 ELSE m - 1
  <2>1. CASE m = 1
    <3>1. 1 \in {1, m - 1} /\ {1, m - 1} \in SUBSET Int /\ \A y \in {1, m - 1} : y <= 1
      BY <2>1
    <3>2. QED
      BY <2>1, <3>1, MaxIs
  <2>2. CASE m # 1
    <3>1. m - 1 \in {1, m - 1} /\ {1, m - 1} \in SUBSET Int /\ \A y \in {1, m - 1} : y <= m - 1
      BY <1>1, <1>4, <2>2
    <3>2. Max({1, m - 1}) = m - 1
      BY <3>1, MaxIs
    <3>3. QED
      BY <2>2, <3>2
  <2>3. QED
    BY <2>1, <2>2
<1>7. p = FindPos(es, k)
  BY DEF FindPos, m, T, above, n
<1> HIDE DEF p
<1>8. p \in 1 .. n /\ (p > 1 => p < m) /\ (p < n => p + 1 = m \/ (p = 1 /\ m = 1))
  BY <1>1, <1>4, <1>6
<1>9. p > 1 => es[p].entry_key <= k
  BY <1>5, <1>8
<1>10. ASSUME p < n PROVE k < es[p + 1].entry_key
  <2>1. p + 1 \in 1 .. n /\ 1 \in 1 .. n
    BY <1>1, <1>8, <1>10
  <2>2. m \in 1 .. n /\ es[m].entry_key > k /\ (m = p + 1 \/ (p = 1 /\ m = 1))
    BY <1>1, <1>4, <1>8, <1>10, <2>1
  <2>3. es[m].entry_key \in Int /\ es[p + 1].entry_key \in Int
    BY <1>2, <2>1, <2>2
  <2>4. m < p + 1 => es[m].entry_key < es[p + 1].entry_key
    BY <2>1, <2>2 DEF n
  <2>5. CASE m = p + 1
    BY <2>2, <2>3, <2>5
  <2>6. CASE p = 1 /\ m = 1
    BY <2>2, <2>3, <2>4, <2>6
  <2>7. QED
    BY <2>2, <2>5, <2>6
<1>11. QED
  BY <1>7, <1>8, <1>9, <1>10 DEF n

(* No other entry is like that. *)
LEMMA FindPosOnly ==
  ASSUME NEW es \in Seq(Entry), Len(es) >= 1, NEW k \in Int,
         \A i, j \in 1 .. Len(es) : i < j => es[i].entry_key < es[j].entry_key,
         NEW q \in 1 .. Len(es), q > 1 => es[q].entry_key <= k, q < Len(es) => k < es[q + 1].entry_key
  PROVE  FindPos(es, k) = q
<1> DEFINE n == Len(es)
           p == FindPos(es, k)
<1>1. n \in Nat /\ n >= 1
  OBVIOUS
<1>6. \A i \in 1 .. n : es[i].entry_key \in Int
  BY EntryParts
<1>2. p \in 1 .. n /\ (p > 1 => es[p].entry_key <= k) /\ (p < n => k < es[p + 1].entry_key)
  BY FindPosIs
<1> HIDE DEF p
<1>3. ASSUME NEW i \in 1 .. n, NEW j \in 1 .. n, i < j, i < n => k < es[i + 1].entry_key, j > 1 => es[j].entry_key <= k
      PROVE  FALSE
  <2>1. i + 1 \in 1 .. n /\ i + 1 <= j /\ i < n /\ j > 1
    BY <1>1, <1>3
  <2>2. k < es[i + 1].entry_key /\ es[j].entry_key <= k
    BY <1>3, <2>1
  <2>3. i + 1 = j \/ es[i + 1].entry_key < es[j].entry_key
    BY <2>1
  <2>4. es[i + 1].entry_key \in Int /\ es[j].entry_key \in Int
    BY <1>6, <2>1
  <2>5. QED
    BY <2>2, <2>3, <2>4
<1>4. ~ (p < q) /\ ~ (q < p)
  BY <1>2, <1>3
<1> HIDE DEF n
<1>5. p \in Int /\ q \in Int
  BY <1>1, <1>2 DEF n
<1>7. p = q
  BY <1>4, <1>5
<1>8. QED
  BY <1>7 DEF p

(* r is s with e at place i. *)
Inserts(T, s, i, e, r) ==
  /\ r \in Seq(T) /\ Len(r) = Len(s) + 1
  /\ \A j \in 1 .. Len(s) + 1 : r[j] = IF j < i THEN s[j] ELSE IF j = i THEN e ELSE s[j - 1]

(* InsertAt, as SequencesExt has it. *)
LEMMA InsertAtIs ==
  ASSUME NEW T, NEW s \in Seq(T), NEW i \in 1 .. Len(s) + 1, NEW e \in T
  PROVE  Inserts(T, s, i, e, InsertAt(s, i, e))
<1> DEFINE n == Len(s)
           x == SubSeq(s, 1, i - 1)
           y == SubSeq(s, i, n)
           z == x \o <<e>>
<1>1. n \in Nat /\ i \in Int
  OBVIOUS
<1>2. x \in Seq(T) /\ Len(x) = i - 1 /\ \A j \in 1 .. i - 1 : x[j] = s[j]
  OBVIOUS
<1>3. y \in Seq(T) /\ Len(y) = n - i + 1 /\ \A j \in 1 .. n - i + 1 : y[j] = s[i + j - 1]
  OBVIOUS
<1>4. InsertAt(s, i, e) = z \o y
  BY DEF InsertAt
<1> HIDE DEF x, y, n
<1>5. z \in Seq(T) /\ Len(z) = i /\ z[i] = e /\ \A j \in 1 .. i - 1 : z[j] = s[j]
  BY <1>1, <1>2
<1> HIDE DEF z
<1>6. z \o y \in Seq(T) /\ Len(z \o y) = n + 1
  <2>1. z \o y \in Seq(T) /\ Len(z \o y) = Len(z) + Len(y)
    BY <1>3, <1>5, ConcatProperties
  <2>2. QED
    BY <1>1, <1>3, <1>5, <2>1
<1>7. ASSUME NEW j \in 1 .. n + 1 PROVE (z \o y)[j] = IF j < i THEN s[j] ELSE IF j = i THEN e ELSE s[j - 1]
  <2>1. CASE j <= i
    BY <1>1, <1>3, <1>5, <2>1
  <2>2. CASE ~ (j <= i)
    <3>1. j - i \in 1 .. n - i + 1 /\ i + (j - i) - 1 = j - 1
      BY <1>1, <2>2
    <3>2. (z \o y)[j] = y[j - i]
      BY <1>1, <1>3, <1>5, <2>2, <3>1
    <3>3. QED
      BY <1>1, <1>3, <2>2, <3>1, <3>2
  <2>3. QED
    BY <2>1, <2>2
<1>8. QED
  BY <1>4, <1>6, <1>7 DEF n, Inserts

-----------------------------------------------------------------------------
(* A split in the array of entries *)

(* What Shape says of the entries and the lengths. *)
LEMMA ShapeParts ==
  ASSUME NEW hp, NEW es, Shape(hp, es)
  PROVE  /\ hp \in Seq(AllBuckets) /\ es \in Seq(Entry) /\ Len(es) \in Nat /\ Len(es) >= 1
         /\ Len(es) <= EntryCount /\ Len(hp) = Len(es)
         /\ \A i \in 1 .. Len(es) : es[i] \in Entry /\ es[i].entry_key \in Int /\ es[i].entry_key \in 0 .. MaxKey
                                    /\ es[i].ptr \in 1 .. Len(es)
<1>1. hp \in Seq(AllBuckets) /\ es \in Seq(Entry) /\ Len(es) \in 1 .. EntryCount /\ Len(hp) = Len(es)
      /\ \A i \in 1 .. Len(es) : es[i].ptr \in 1 .. Len(hp)
  BY DEF Shape
<1>2. \A i \in 1 .. Len(es) : es[i] \in Entry /\ es[i].entry_key \in Int /\ es[i].entry_key \in 0 .. MaxKey
  BY <1>1, EntryParts
<1>3. QED
  BY <1>1, <1>2, Sizes

(* A new entry of that key behind entry pos: what entries and buckets are  *)
(* then, left and right being the two halves of the bucket of pos.         *)
SplitRows(hp, es, pos, left, right, key, hq, eq) ==
  /\ Shape(hq, eq) /\ Len(eq) = Len(es) + 1
  /\ \A j \in 1 .. Len(es) + 1 :
       /\ j <= pos => eq[j].entry_key = es[j].entry_key
       /\ j = pos + 1 => eq[j].entry_key = key
       /\ j > pos + 1 => eq[j].entry_key = es[j - 1].entry_key
       /\ j < pos => hq[eq[j].ptr] = hp[es[j].ptr]
       /\ j = pos => hq[eq[j].ptr] = left
       /\ j = pos + 1 => hq[eq[j].ptr] = right
       /\ j > pos + 1 => hq[eq[j].ptr] = hp[es[j - 1].ptr]
  /\ \A m \in 1 .. Len(es) + 1 :
       hq[m] = left \/ hq[m] = right \/ (m \in 1 .. Len(es) /\ hq[m] = hp[m])

(* A split keeps the entries and the chain in step. *)
LEMMA SplitShape ==
  ASSUME NEW hp, NEW es, Shape(hp, es), Len(es) < EntryCount, NEW pos \in 1 .. Len(es),
         NEW left \in AllBuckets, NEW right \in AllBuckets, NEW key \in 0 .. MaxKey,
         left.next = Len(hp) + 1, right.next = hp[es[pos].ptr].next
  PROVE  SplitRows(hp, es, pos, left, right, key,
                   Append([hp EXCEPT ![es[pos].ptr] = left], right),
                   InsertAt(es, pos + 1, [entry_key |-> key, ptr |-> Len(hp) + 1]))
<1> DEFINE n == Len(es)
           at == es[pos].ptr
           new == [entry_key |-> key, ptr |-> Len(hp) + 1]
           hl == [hp EXCEPT ![at] = left]
           hq == Append(hl, right)
           eq == InsertAt(es, pos + 1, new)
<1>1. /\ hp \in Seq(AllBuckets) /\ es \in Seq(Entry) /\ n \in Nat /\ n >= 1 /\ n < EntryCount /\ Len(hp) = n
      /\ \A i \in 1 .. n : es[i] \in Entry /\ es[i].ptr \in 1 .. n /\ es[i].ptr \in Int
      /\ pos \in 1 .. n /\ pos \in Int /\ at \in 1 .. n
  BY ShapeParts
<1>2. /\ \A i, j \in 1 .. n : es[i].ptr = es[j].ptr => i = j
      /\ \A i \in 1 .. n : hp[es[i].ptr].next = IF i = n THEN 0 ELSE es[i + 1].ptr
  BY DEF Shape
<1>3. new \in Entry /\ new.entry_key = key /\ new.ptr = n + 1
  BY <1>1 DEF Entry
<1>4. pos + 1 \in 1 .. n + 1
  BY <1>1
<1>5. /\ eq \in Seq(Entry) /\ Len(eq) = n + 1
      /\ \A j \in 1 .. n + 1 : eq[j] = IF j < pos + 1 THEN es[j] ELSE IF j = pos + 1 THEN new ELSE es[j - 1]
  <2> DEFINE q == pos + 1
             r == InsertAt(es, q, new)
  <2>1. es \in Seq(Entry) /\ q \in 1 .. Len(es) + 1 /\ new \in Entry
    BY <1>1, <1>3, <1>4
  <2> HIDE DEF new, q
  <2>2. Inserts(Entry, es, q, new, r)
    BY <2>1, InsertAtIs
  <2> HIDE DEF r
  <2>3. eq = r
    BY DEF r, q
  <2> HIDE DEF eq
  <2>4. QED
    BY <2>2, <2>3 DEF q, Inserts
<1>6. hl \in Seq(AllBuckets) /\ Len(hl) = n /\ \A m \in 1 .. n : hl[m] = IF m = at THEN left ELSE hp[m]
  BY <1>1, ExceptSeq
<1> HIDE DEF hl, eq, at, n
<1>7. hq \in Seq(AllBuckets) /\ Len(hq) = n + 1 /\ \A m \in 1 .. n + 1 : hq[m] = IF m = n + 1 THEN right ELSE hl[m]
  BY <1>1, <1>6, AppendProperties
<1> HIDE DEF hq, new
<1>8. ASSUME NEW m \in 1 .. n + 1
      PROVE  /\ m = at => hq[m] = left
             /\ m = n + 1 => hq[m] = right
             /\ m # at /\ m # n + 1 => m \in 1 .. n /\ hq[m] = hp[m]
  <2>1. m # n + 1 => m \in 1 .. n
    BY <1>1
  <2>2. at # n + 1
    BY <1>1
  <2>3. QED
    BY <1>6, <1>7, <2>1, <2>2
<1>9. ASSUME NEW j \in 1 .. n + 1
      PROVE  /\ j <= pos => j \in 1 .. n /\ eq[j] = es[j]
             /\ j = pos + 1 => eq[j] = new
             /\ j > pos + 1 => j - 1 \in 1 .. n /\ j - 1 # pos /\ eq[j] = es[j - 1]
             /\ j <= pos \/ j = pos + 1 \/ j > pos + 1
  <2>1. /\ j <= pos => j \in 1 .. n /\ j < pos + 1
        /\ j = pos + 1 => ~ (j < pos + 1)
        /\ j > pos + 1 => j - 1 \in 1 .. n /\ j - 1 # pos /\ ~ (j < pos + 1) /\ j # pos + 1
        /\ j <= pos \/ j = pos + 1 \/ j > pos + 1
    BY <1>1
  <2>2. QED
    BY <1>5, <2>1
<1>10. \A i \in 1 .. n : i # pos => es[i].ptr # at /\ es[i].ptr # n + 1 /\ es[i].ptr \in 1 .. n + 1
  <2>1. \A i \in 1 .. n : es[i].ptr # n + 1 /\ es[i].ptr \in 1 .. n + 1
    BY <1>1
  <2>2. QED
    BY <1>1, <1>2, <2>1 DEF at
<1>11. ASSUME NEW j \in 1 .. n + 1
       PROVE  /\ j < pos => hq[eq[j].ptr] = hp[es[j].ptr]
              /\ j = pos => hq[eq[j].ptr] = left /\ eq[j].ptr = at
              /\ j = pos + 1 => hq[eq[j].ptr] = right /\ eq[j].ptr = n + 1
              /\ j > pos + 1 => hq[eq[j].ptr] = hp[es[j - 1].ptr]
  <2>1. CASE j < pos
    <3>1. j \in 1 .. n /\ eq[j] = es[j] /\ j # pos /\ ~ (j = pos + 1) /\ ~ (j > pos + 1)
      BY <1>1, <1>9, <2>1
    <3>2. QED
      BY <1>8, <1>10, <2>1, <3>1
  <2>2. CASE j = pos
    <3>1. eq[j] = es[j] /\ ~ (j < pos) /\ ~ (j = pos + 1) /\ ~ (j > pos + 1) /\ at \in 1 .. n + 1
      BY <1>1, <1>9, <2>2
    <3>2. QED
      BY <1>8, <2>2, <3>1 DEF at
  <2>3. CASE j = pos + 1
    <3>1. eq[j] = new /\ ~ (j < pos) /\ ~ (j = pos) /\ ~ (j > pos + 1) /\ n + 1 \in 1 .. n + 1
      BY <1>1, <1>9, <2>3
    <3>2. QED
      BY <1>3, <1>8, <3>1
  <2>4. CASE j > pos + 1
    <3>1. j - 1 \in 1 .. n /\ eq[j] = es[j - 1] /\ j - 1 # pos /\ ~ (j < pos) /\ ~ (j = pos) /\ ~ (j = pos + 1)
      BY <1>1, <1>9, <2>4
    <3>2. QED
      BY <1>8, <1>10, <3>1
  <2>5. QED
    BY <1>1, <2>1, <2>2, <2>3, <2>4
<1>12. \A j \in 1 .. n + 1 :
         /\ j <= pos => eq[j].entry_key = es[j].entry_key
         /\ j = pos + 1 => eq[j].entry_key = key
         /\ j > pos + 1 => eq[j].entry_key = es[j - 1].entry_key
  BY <1>3, <1>9
<1>13. \A j \in 1 .. n + 1 : eq[j].ptr \in 1 .. n + 1
  <2>1. \A i \in 1 .. n : es[i].ptr \in 1 .. n + 1
    BY <1>1
  <2>2. n + 1 \in 1 .. n + 1
    BY <1>1
  <2>3. QED
    BY <1>3, <1>9, <2>1, <2>2
<1>14. ASSUME NEW i \in 1 .. n + 1, NEW j \in 1 .. n + 1, eq[i].ptr = eq[j].ptr PROVE i = j
  <2> DEFINE Was(x) == IF x <= pos THEN x ELSE x - 1
  <2>1. \A x \in 1 .. n + 1 : /\ x # pos + 1 => Was(x) \in 1 .. n /\ eq[x] = es[Was(x)]
                              /\ x # pos + 1 => eq[x].ptr # n + 1
                              /\ x = pos + 1 => eq[x].ptr = n + 1
    <3>1. \A m \in 1 .. n : es[m].ptr # n + 1
      BY <1>1
    <3>2. ASSUME NEW x \in 1 .. n + 1, x # pos + 1 PROVE Was(x) \in 1 .. n /\ eq[x] = es[Was(x)]
      <4>1. x \in Int
        BY <1>1
      <4>2. CASE x <= pos
        BY <1>9, <4>2
      <4>3. CASE x > pos + 1
        <5>1. ~ (x <= pos)
          BY <1>1, <4>1, <4>3
        <5>2. QED
          BY <1>9, <4>3, <5>1
      <4>4. QED
        BY <1>9, <3>2, <4>2, <4>3
    <3> HIDE DEF Was
    <3>3. QED
      BY <1>3, <1>9, <3>1, <3>2
  <2>2. CASE i = pos + 1 \/ j = pos + 1
    BY <1>14, <2>1, <2>2
  <2>3. CASE i # pos + 1 /\ j # pos + 1
    <3>1. Was(i) \in 1 .. n /\ Was(j) \in 1 .. n /\ es[Was(i)].ptr = es[Was(j)].ptr
      <4> HIDE DEF Was
      <4>1. QED
        BY <1>14, <2>1, <2>3
    <3>2. Was(i) = Was(j)
      <4> HIDE DEF Was
      <4>1. QED
        BY <1>2, <3>1
    <3>3. i \in Int /\ j \in Int
      BY <1>1
    <3>4. QED
      BY <1>1, <2>3, <3>2, <3>3
  <2>4. QED
    BY <2>2, <2>3
<1>15. ASSUME NEW j \in 1 .. n + 1
       PROVE  hq[eq[j].ptr].next = IF j = n + 1 THEN 0 ELSE eq[j + 1].ptr
  <2>1. CASE j < pos
    <3>1. j \in 1 .. n /\ j # n /\ j # n + 1 /\ j + 1 \in 1 .. n + 1 /\ j + 1 <= pos
      BY <1>1, <2>1
    <3>2. hq[eq[j].ptr].next = es[j + 1].ptr
      BY <1>2, <1>11, <2>1, <3>1
    <3>3. eq[j + 1] = es[j + 1]
      BY <1>9, <3>1
    <3>4. QED
      BY <3>1, <3>2, <3>3
  <2>2. CASE j = pos
    <3>1. j # n + 1 /\ j + 1 \in 1 .. n + 1
      BY <1>1, <2>2
    <3>2. eq[j + 1].ptr = n + 1 /\ hq[eq[j].ptr] = left
      BY <1>11, <2>2, <3>1
    <3>3. QED
      BY <1>1, <3>1, <3>2
  <2>3. CASE j = pos + 1
    <3>1. hq[eq[j].ptr].next = hp[at].next
      BY <1>11, <2>3 DEF at
    <3>2. hp[at].next = IF pos = n THEN 0 ELSE es[pos + 1].ptr
      BY <1>1, <1>2 DEF at
    <3>3. CASE pos = n
      BY <2>3, <3>1, <3>2, <3>3
    <3>4. CASE pos # n
      <4>1. j # n + 1 /\ j + 1 \in 1 .. n + 1 /\ j + 1 > pos + 1 /\ (j + 1) - 1 = pos + 1
        BY <1>1, <2>3, <3>4
      <4>2. eq[j + 1] = es[pos + 1]
        BY <1>9, <4>1
      <4>3. QED
        BY <3>1, <3>2, <3>4, <4>1, <4>2
    <3>5. QED
      BY <3>3, <3>4
  <2>4. CASE j > pos + 1
    <3>1. j - 1 \in 1 .. n
      BY <1>1, <2>4
    <3>2. hq[eq[j].ptr].next = IF j - 1 = n THEN 0 ELSE es[(j - 1) + 1].ptr
      BY <1>2, <1>11, <2>4, <3>1
    <3>3. CASE j = n + 1
      <4>1. j - 1 = n
        BY <1>1, <3>3
      <4>2. QED
        BY <3>2, <3>3, <4>1
    <3>4. CASE j # n + 1
      <4>1. j + 1 \in 1 .. n + 1 /\ j + 1 > pos + 1 /\ (j + 1) - 1 = j /\ (j - 1) + 1 = j /\ j - 1 # n
        BY <1>1, <2>4, <3>4
      <4>2. eq[j + 1] = es[j]
        BY <1>9, <4>1
      <4>3. QED
        BY <3>2, <3>4, <4>1, <4>2
    <3>5. QED
      BY <3>3, <3>4
  <2>5. QED
    BY <1>1, <2>1, <2>2, <2>3, <2>4
<1>16. n + 1 \in 1 .. EntryCount
  BY <1>1, Sizes
<1>17. Shape(hq, eq)
  BY <1>5, <1>7, <1>13, <1>14, <1>15, <1>16 DEF Shape
<1>18. \A m \in 1 .. n + 1 : hq[m] = left \/ hq[m] = right \/ (m \in 1 .. n /\ hq[m] = hp[m])
  BY <1>8
<1>19. hq = Append([hp EXCEPT ![es[pos].ptr] = left], right)
       /\ eq = InsertAt(es, pos + 1, [entry_key |-> key, ptr |-> Len(hp) + 1])
  BY DEF hq, hl, eq, at, new
<1>20. \A j \in 1 .. n + 1 :
         /\ j < pos => hq[eq[j].ptr] = hp[es[j].ptr]
         /\ j = pos => hq[eq[j].ptr] = left
         /\ j = pos + 1 => hq[eq[j].ptr] = right
         /\ j > pos + 1 => hq[eq[j].ptr] = hp[es[j - 1].ptr]
  BY <1>11
<1>21. Len(eq) = n + 1
  BY <1>5
<1>22. QED
  BY <1>12, <1>17, <1>18, <1>19, <1>20, <1>21 DEF n, SplitRows

(* Whatever its state, a bucket is a bucket. *)
LEMMA KMember ==
  ASSUME NEW kd, NEW b, KTyped(kd, b)
  PROVE  b \in AllBuckets
BY KCases DEF AllBuckets, ThreeKinds, UGood, XGood

(* What an entry holds are pairs. *)
LEMMA HeldParts ==
  ASSUME NEW hp, NEW es, Shape(hp, es), NEW kd, AllGood(kd, hp), NEW i \in 1 .. Len(es)
  PROVE  /\ KGood(kd, hp[es[i].ptr]) /\ KTyped(kd, hp[es[i].ptr])
         /\ \A r \in Held(kd, hp, es, i) : r \in Pair /\ r.key \in Keys /\ r.key \in Int /\ r.ptr \in 1 .. 2
<1>1. KGood(kd, hp[es[i].ptr])
  BY DEF Shape, AllGood
<1>2. KTyped(kd, hp[es[i].ptr])
  BY <1>1, KStrength
<1>3. Held(kd, hp, es, i) \subseteq Pair
  BY <1>1, KCount DEF Held
<1>4. QED
  BY <1>1, <1>2, <1>3, PairParts DEF Values

(* The bucket that is split is parted at its split_key: the map is still   *)
(* there, and the bucket of the key has room.                              *)
LEMMA SplitGood ==
  ASSUME NEW hp, NEW es, Shape(hp, es), AllGood(kind, hp), Between(kind, hp, es), Len(es) < EntryCount,
         NEW pos \in 1 .. Len(es), hp[es[pos].ptr].entries >= MaxEntries
  PROVE  LET t == Split([heap |-> hp, ents |-> es], pos)
         IN  /\ t = [heap |-> t.heap, ents |-> t.ents]
             /\ Shape(t.heap, t.ents) /\ Len(t.ents) = Len(es) + 1
             /\ AllGood(kind, t.heap) /\ Between(kind, t.heap, t.ents)
             /\ AllClean(kind, hp) => AllClean(kind, t.heap)
             /\ \A st : Agrees(kind, hp, es, st) => Agrees(kind, t.heap, t.ents, st)
             /\ \A k \in Keys : FindPos(es, k) = pos =>
                  ~ (t.heap[t.ents[FindPos(t.ents, k)].ptr].entries >= MaxEntries)
<1> DEFINE n == Len(es)
           b == hp[es[pos].ptr]
           x == BExpand(b, Len(hp) + 1)
           s == x.split_key
           hq == Append([hp EXCEPT ![es[pos].ptr] = x.left], x.right)
           eq == InsertAt(es, pos + 1, [entry_key |-> s, ptr |-> Len(hp) + 1])
           t == Split([heap |-> hp, ents |-> es], pos)
           Old(i) == Held(kind, hp, es, i)
           New(j) == Held(kind, hq, eq, j)
<1>1. /\ es \in Seq(Entry) /\ n \in Nat /\ n >= 1 /\ Len(hp) = n /\ pos \in Int /\ pos >= 1 /\ pos <= n
      /\ \A i \in 1 .. n : es[i].entry_key \in Int
  BY ShapeParts
<1>2. t = [heap |-> hq, ents |-> eq] /\ t.heap = hq /\ t.ents = eq
  BY DEF Split
<1> HIDE DEF t
<1>3. KGood(kind, b) /\ KClean(kind, b)
  BY HeldParts, KStrength
<1> HIDE DEF b
<1>4. n + 1 \in Nat
  BY <1>1
<1>5. /\ KClean(kind, x.left) /\ KClean(kind, x.right)
      /\ x.left.next = n + 1 /\ x.right.next = b.next
      /\ x.left.entries < MaxEntries /\ x.right.entries < MaxEntries
      /\ \E q \in KPairs(kind, b) : q.key = s
      /\ \E q \in KPairs(kind, b) : q.key < s
      /\ \A r : /\ r \in KPairs(kind, x.left) <=> r \in KPairs(kind, b) /\ r.key < s
                /\ r \in KPairs(kind, x.right) <=> r \in KPairs(kind, b) /\ r.key >= s
  BY <1>1, <1>3, <1>4, BExpandIs DEF b
<1> HIDE DEF x, s
<1>6. s \in Keys /\ s \in 0 .. MaxKey /\ s \in Int
  <2>1. \A q \in KPairs(kind, b) : q.key \in Keys
    BY <1>3, KCount, PairParts
  <2>2. QED
    BY <1>5, <2>1, Sizes
<1>7. /\ x.left \in AllBuckets /\ KGood(kind, x.left) /\ ~ (x.left.entries >= MaxEntries)
      /\ x.right \in AllBuckets /\ KGood(kind, x.right) /\ ~ (x.right.entries >= MaxEntries)
  <2>1. KGood(kind, x.left) /\ KGood(kind, x.right) /\ KTyped(kind, x.left) /\ KTyped(kind, x.right)
    BY <1>5, KStrength
  <2>2. x.left.entries \in Int /\ x.right.entries \in Int
    BY <2>1, KTypedIs
  <2>3. QED
    BY <1>5, <2>1, <2>2, KMember, Sizes
<1>8. /\ Shape(hq, eq) /\ Len(eq) = n + 1
      /\ \A j \in 1 .. n + 1 :
           /\ j <= pos => eq[j].entry_key = es[j].entry_key
           /\ j = pos + 1 => eq[j].entry_key = s
           /\ j > pos + 1 => eq[j].entry_key = es[j - 1].entry_key
           /\ j < pos => hq[eq[j].ptr] = hp[es[j].ptr]
           /\ j = pos => hq[eq[j].ptr] = x.left
           /\ j = pos + 1 => hq[eq[j].ptr] = x.right
           /\ j > pos + 1 => hq[eq[j].ptr] = hp[es[j - 1].ptr]
      /\ \A m \in 1 .. n + 1 :
           hq[m] = x.left \/ hq[m] = x.right \/ (m \in 1 .. n /\ hq[m] = hp[m])
  <2>1. x.left.next = Len(hp) + 1 /\ x.right.next = hp[es[pos].ptr].next
    BY <1>1, <1>5 DEF b
  <2>2. SplitRows(hp, es, pos, x.left, x.right, s, hq, eq)
    BY <1>6, <1>7, <2>1, SplitShape
  <2> HIDE DEF hq, eq
  <2>3. QED
    BY <2>2 DEF SplitRows
<1> HIDE DEF hq, eq
<1>9. Len(hq) = n + 1
  BY <1>8, ShapeParts
<1>10. AllGood(kind, hq) /\ (AllClean(kind, hp) => AllClean(kind, hq))
  BY <1>1, <1>5, <1>7, <1>8, <1>9 DEF AllGood, AllClean
<1>11. \A j \in 1 .. n + 1 :
         /\ j < pos => New(j) = Old(j)
         /\ j = pos => \A r : r \in New(j) <=> r \in Old(pos) /\ r.key < s
         /\ j = pos + 1 => \A r : r \in New(j) <=> r \in Old(pos) /\ r.key >= s
         /\ j > pos + 1 => New(j) = Old(j - 1)
  BY <1>5, <1>8 DEF Held, b
<1>12. /\ \A i, j \in 1 .. n : i < j => es[i].entry_key < es[j].entry_key
       /\ \A i \in 1 .. n : \A r \in Old(i) : /\ es[i].entry_key <= r.key
                                              /\ i < n => r.key < es[i + 1].entry_key
  BY DEF Between
<1>13. \A i \in 1 .. n : \A r \in Old(i) : r.key \in Int
  BY HeldParts
<1>14. (\E q \in Old(pos) : q.key = s) /\ (\E q \in Old(pos) : q.key < s)
  BY <1>5 DEF Held, b
<1> HIDE DEF Old, New
<1>15. es[pos].entry_key < s /\ (pos < n => s < es[pos + 1].entry_key)
  <2>1. PICK q \in Old(pos) : q.key = s
    BY <1>14
  <2>2. PICK p \in Old(pos) : p.key < s
    BY <1>14
  <2>3. es[pos].entry_key <= p.key /\ p.key \in Int /\ es[pos].entry_key \in Int
    BY <1>1, <1>12, <1>13
  <2>4. QED
    BY <1>6, <1>12, <2>1, <2>2, <2>3
<1>16. \A j \in 1 .. n + 1 : j \in Int /\ eq[j].entry_key \in Int
  <2>1. Shape(hq, eq) /\ Len(eq) = n + 1
    BY <1>8
  <2>2. \A j \in 1 .. Len(eq) : eq[j].entry_key \in Int
    BY <2>1, ShapeParts
  <2>3. QED
    BY <1>1, <2>1, <2>2
<1>17. ASSUME NEW i \in 1 .. n + 1, NEW j \in 1 .. n + 1, i < j PROVE eq[i].entry_key < eq[j].entry_key
  <2>1. i \in Int /\ j \in Int
    BY <1>1
  <2>2. CASE j <= pos
    <3>1. i <= pos /\ i \in 1 .. n /\ j \in 1 .. n
      BY <1>1, <1>17, <2>1, <2>2
    <3>2. QED
      BY <1>8, <1>12, <1>17, <2>2, <3>1
  <2>3. CASE i <= pos /\ j = pos + 1
    <3>1. i \in 1 .. n /\ (i = pos \/ i < pos)
      BY <1>1, <2>1, <2>3
    <3>2. es[i].entry_key <= es[pos].entry_key /\ es[i].entry_key \in Int /\ es[pos].entry_key \in Int
      BY <1>1, <1>12, <3>1
    <3>3. eq[i].entry_key = es[i].entry_key /\ eq[j].entry_key = s
      BY <1>8, <2>3
    <3>4. QED
      BY <1>6, <1>15, <3>2, <3>3
  <2>4. CASE i <= pos /\ j > pos + 1
    <3>1. i \in 1 .. n /\ j - 1 \in 1 .. n /\ i < j - 1
      BY <1>1, <2>1, <2>4
    <3>2. QED
      BY <1>8, <1>12, <2>4, <3>1
  <2>5. CASE i = pos + 1
    <3>1. j > pos + 1 /\ j - 1 \in 1 .. n /\ pos + 1 \in 1 .. n /\ pos < n /\ (j - 1 = pos + 1 \/ pos + 1 < j - 1)
      BY <1>1, <1>17, <2>1, <2>5
    <3>2. es[pos + 1].entry_key <= es[j - 1].entry_key /\ es[pos + 1].entry_key \in Int /\ es[j - 1].entry_key \in Int
      BY <1>1, <1>12, <3>1
    <3>3. eq[i].entry_key = s /\ eq[j].entry_key = es[j - 1].entry_key
      BY <1>8, <2>5, <3>1
    <3>4. QED
      BY <1>6, <1>15, <3>1, <3>2, <3>3
  <2>6. CASE i > pos + 1
    <3>1. j > pos + 1 /\ i - 1 \in 1 .. n /\ j - 1 \in 1 .. n /\ i - 1 < j - 1
      BY <1>1, <1>17, <2>1, <2>6
    <3>2. QED
      BY <1>8, <1>12, <2>6, <3>1
  <2>7. QED
    BY <1>1, <1>17, <2>1, <2>2, <2>3, <2>4, <2>5, <2>6
<1>18. ASSUME NEW j \in 1 .. n + 1, NEW r \in New(j)
       PROVE  /\ eq[j].entry_key <= r.key
              /\ j < n + 1 => r.key < eq[j + 1].entry_key
              /\ \E i \in 1 .. n : r \in Old(i)
  <2>0. j \in Int /\ pos \in 1 .. n
    BY <1>1
  <2>1. CASE j < pos
    <3>1. j \in 1 .. n /\ j < n /\ j <= pos /\ j + 1 \in 1 .. n + 1 /\ j + 1 <= pos /\ r \in Old(j)
      BY <1>1, <1>11, <2>0, <2>1
    <3>2. eq[j].entry_key = es[j].entry_key /\ eq[j + 1].entry_key = es[j + 1].entry_key
      BY <1>8, <3>1
    <3>3. QED
      BY <1>12, <3>1, <3>2
  <2>2. CASE j = pos
    <3>1. j + 1 \in 1 .. n + 1 /\ r \in Old(pos) /\ r.key < s
      BY <1>1, <1>11, <2>2
    <3>2. eq[j].entry_key = es[j].entry_key /\ eq[j + 1].entry_key = s
      <4>1. j <= pos /\ j + 1 = pos + 1
        BY <2>0, <2>2
      <4>2. QED
        BY <1>8, <3>1, <4>1
    <3>3. QED
      BY <1>12, <2>0, <2>2, <3>1, <3>2
  <2>3. CASE j = pos + 1
    <3>1. r \in Old(pos) /\ r.key >= s /\ r.key \in Int
      BY <1>11, <1>13, <2>0, <2>3
    <3>2. eq[j].entry_key = s /\ s <= r.key
      BY <1>6, <1>8, <2>3, <3>1
    <3>3. ASSUME j < n + 1 PROVE r.key < eq[j + 1].entry_key
      <4>1. pos < n /\ j + 1 \in 1 .. n + 1 /\ j + 1 > pos + 1 /\ (j + 1) - 1 = pos + 1
        BY <1>1, <2>3, <3>3
      <4>2. eq[j + 1].entry_key = es[pos + 1].entry_key
        BY <1>8, <4>1
      <4>3. QED
        BY <1>12, <2>0, <3>1, <4>1, <4>2
    <3>4. QED
      BY <2>0, <3>1, <3>2, <3>3
  <2>4. CASE j > pos + 1
    <3>1. j - 1 \in 1 .. n /\ r \in Old(j - 1) /\ eq[j].entry_key = es[j - 1].entry_key
      BY <1>1, <1>8, <1>11, <2>4
    <3>2. ASSUME j < n + 1 PROVE r.key < eq[j + 1].entry_key
      <4>1. j - 1 < n /\ j + 1 \in 1 .. n + 1 /\ j + 1 > pos + 1 /\ (j + 1) - 1 = j /\ (j - 1) + 1 = j
        BY <1>1, <2>0, <2>4, <3>2
      <4>2. eq[j + 1].entry_key = es[j].entry_key
        BY <1>8, <4>1
      <4>3. r.key < es[(j - 1) + 1].entry_key
        BY <1>12, <3>1, <4>1
      <4>4. QED
        BY <4>1, <4>2, <4>3
    <3>3. es[j - 1].entry_key <= r.key
      BY <1>12, <3>1
    <3>4. QED
      BY <3>1, <3>2, <3>3
  <2>5. QED
    BY <1>1, <2>0, <2>1, <2>2, <2>3, <2>4
<1>19. ASSUME NEW i \in 1 .. n, NEW r \in Old(i) PROVE \E j \in 1 .. n + 1 : r \in New(j)
  <2>1. i \in Int /\ r.key \in Int
    BY <1>1, <1>13
  <2>2. CASE i < pos
    <3>1. i \in 1 .. n + 1
      BY <1>1
    <3>2. QED
      BY <1>11, <2>2, <3>1
  <2>3. CASE i = pos
    <3>1. pos \in 1 .. n + 1 /\ pos + 1 \in 1 .. n + 1 /\ (r.key < s \/ r.key >= s)
      BY <1>1, <1>6, <2>1
    <3>2. QED
      BY <1>11, <2>3, <3>1
  <2>4. CASE i > pos
    <3>1. i + 1 \in 1 .. n + 1 /\ i + 1 > pos + 1 /\ (i + 1) - 1 = i
      BY <1>1, <2>1, <2>4
    <3>2. New(i + 1) = Old(i)
      BY <1>11, <3>1
    <3>3. QED
      BY <3>1, <3>2
  <2>5. QED
    BY <1>1, <2>1, <2>2, <2>3, <2>4
<1>20. Between(kind, hq, eq)
  <2>1. \A i, j \in 1 .. Len(eq) : i < j => eq[i].entry_key < eq[j].entry_key
    BY <1>8, <1>17
  <2>2. \A i \in 1 .. Len(eq) : \A r \in New(i) : /\ eq[i].entry_key <= r.key
                                                  /\ i < Len(eq) => r.key < eq[i + 1].entry_key
    BY <1>8, <1>18
  <2>3. QED
    BY <2>1, <2>2 DEF Between, New
<1>21. ASSUME NEW st, Agrees(kind, hp, es, st) PROVE Agrees(kind, hq, eq, st)
  <2>1. /\ \A i \in 1 .. n : \A r \in Old(i) : st[r.key] = r.ptr
        /\ \A y \in Keys : st[y] # 0 => \E i \in 1 .. n : [key |-> y, ptr |-> st[y]] \in Old(i)
    BY <1>21 DEF Agrees, Old
  <2>2. \A j \in 1 .. n + 1 : \A r \in New(j) : st[r.key] = r.ptr
    BY <1>18, <2>1
  <2>3. \A y \in Keys : st[y] # 0 => \E j \in 1 .. n + 1 : [key |-> y, ptr |-> st[y]] \in New(j)
    BY <1>19, <2>1
  <2>4. QED
    BY <1>8, <2>2, <2>3 DEF Agrees, New
<1>22. ASSUME NEW k \in Keys, FindPos(es, k) = pos
       PROVE  ~ (hq[eq[FindPos(eq, k)].ptr].entries >= MaxEntries)
  <2>1. k \in Int
    BY Sizes
  <2>2. (pos > 1 => es[pos].entry_key <= k) /\ (pos < n => k < es[pos + 1].entry_key)
    BY <1>1, <1>12, <1>22, <2>1, FindPosIs
  <2>3. /\ eq \in Seq(Entry) /\ Len(eq) >= 1
        /\ \A i, j \in 1 .. Len(eq) : i < j => eq[i].entry_key < eq[j].entry_key
    BY <1>1, <1>8, <1>17, ShapeParts
  <2>4. pos \in 1 .. n + 1 /\ pos + 1 \in 1 .. n + 1 /\ pos <= pos /\ ~ (pos + 1 <= pos)
    BY <1>1
  <2>5. eq[pos].entry_key = es[pos].entry_key /\ eq[pos + 1].entry_key = s
    BY <1>8, <2>4
  <2>6. CASE k < s
    <3>1. pos \in 1 .. Len(eq) /\ (pos > 1 => eq[pos].entry_key <= k) /\ (pos < Len(eq) => k < eq[pos + 1].entry_key)
      BY <1>8, <2>2, <2>4, <2>5, <2>6
    <3>2. FindPos(eq, k) = pos
      BY <2>1, <2>3, <3>1, FindPosOnly
    <3>3. hq[eq[pos].ptr] = x.left
      BY <1>8, <2>4
    <3>4. QED
      BY <1>7, <3>2, <3>3
  <2>7. CASE ~ (k < s)
    <3> DEFINE q == pos + 1
    <3>1. q < Len(eq) => k < eq[q + 1].entry_key
      <4>1. SUFFICES ASSUME q < n + 1 PROVE k < eq[q + 1].entry_key
        BY <1>8
      <4>2. pos < n /\ q + 1 \in 1 .. n + 1 /\ q + 1 > pos + 1 /\ (q + 1) - 1 = pos + 1
        BY <1>1, <4>1
      <4>3. eq[q + 1].entry_key = es[pos + 1].entry_key
        <5> HIDE DEF q
        <5>1. QED
          BY <1>8, <4>2
      <4>4. QED
        BY <2>2, <4>2, <4>3
    <3>2. q \in 1 .. Len(eq) /\ (q > 1 => eq[q].entry_key <= k) /\ q = pos + 1
      BY <1>6, <1>8, <2>1, <2>4, <2>5, <2>7
    <3> HIDE DEF q
    <3>3. FindPos(eq, k) = q
      BY <2>1, <2>3, <3>1, <3>2, FindPosOnly
    <3>4. hq[eq[q].ptr] = x.right
      BY <1>8, <2>4, <3>2
    <3>5. QED
      BY <1>7, <3>3, <3>4
  <2>8. QED
    BY <2>6, <2>7
<1>23. QED
  BY <1>2, <1>8, <1>10, <1>20, <1>21, <1>22 DEF n, t

-----------------------------------------------------------------------------
(* The turns of Put *)

RetryTurn(t, k) ==
  IF BPut(t.heap[t.ents[FindPos(t.ents, k)].ptr], k, 0).status = "Full"
  THEN Split(t, FindPos(t.ents, k)) ELSE t

(* When the second turn has nothing to do, nor have the others. *)
LEMMA RetriedIs ==
  ASSUME NEW s, NEW k, Len(s.ents) \in Nat, Len(s.ents) <= EntryCount,
         Len(s.ents) < EntryCount => RetryTurn(RetryTurn(s, k), k) = RetryTurn(s, k)
  PROVE  Retried(s, k) = IF Len(s.ents) = EntryCount THEN s ELSE RetryTurn(s, k)
<1> DEFINE n == Len(s.ents)
           P(g) == g = [j \in n .. EntryCount |-> IF j = n THEN s ELSE RetryTurn(g[j - 1], k)]
           u == RetryTurn(s, k)
           h == [j \in n .. EntryCount |-> IF j = n THEN s ELSE u]
           c == CHOOSE g : P(g)
<1>1. n \in Nat /\ n \in Int /\ EntryCount \in Int /\ n <= EntryCount
  BY Sizes
<1>2. Retried(s, k) = c[EntryCount]
  BY DEF Retried, RetryTurn
<1>3. n < EntryCount => RetryTurn(u, k) = u
  OBVIOUS
<1> HIDE DEF u, n
<1>4. \A j \in n .. EntryCount : j # n => j - 1 \in n .. EntryCount /\ n < EntryCount
  BY <1>1
<1>5. ASSUME NEW j \in n .. EntryCount PROVE h[j] = IF j = n THEN s ELSE RetryTurn(h[j - 1], k)
  <2>1. CASE j = n
    BY <2>1
  <2>2. CASE j # n
    <3>1. j - 1 \in n .. EntryCount /\ n < EntryCount /\ h[j] = u
      BY <1>4, <2>2
    <3>2. h[j - 1] = s \/ h[j - 1] = u
      BY <3>1
    <3> HIDE DEF h
    <3>3. RetryTurn(h[j - 1], k) = u
      BY <1>3, <3>1, <3>2 DEF u
    <3>4. QED
      BY <2>2, <3>1, <3>3
  <2>3. QED
    BY <2>1, <2>2
<1>6. h = [j \in n .. EntryCount |-> h[j]]
  OBVIOUS
<1> HIDE DEF h
<1>7. P(h)
  BY <1>5, <1>6
<1> HIDE DEF P
<1>8. P(c)
  BY <1>7
<1>9. \A j \in n .. EntryCount : c[j] = IF j = n THEN s ELSE RetryTurn(c[j - 1], k)
  <2> HIDE DEF c
  <2>1. c = [j \in n .. EntryCount |-> IF j = n THEN s ELSE RetryTurn(c[j - 1], k)]
    BY <1>8 DEF P
  <2>2. QED
    BY <2>1
<1> HIDE DEF c
<1>10. c[n] = s
  BY <1>1, <1>9
<1>11. CASE n = EntryCount
  BY <1>2, <1>10, <1>11 DEF n
<1>12. CASE n # EntryCount
  <2> DEFINE G == {j \in n + 1 .. EntryCount : c[j] = u}
  <2>1. n + 1 \in Int /\ n + 1 <= EntryCount /\ n + 1 \in n .. EntryCount /\ n + 1 # n /\ (n + 1) - 1 = n /\ n < EntryCount
    BY <1>1, <1>12
  <2>2. n + 1 \in G
    <3>1. c[n + 1] = RetryTurn(c[n], k)
      BY <1>9, <2>1
    <3>2. c[n + 1] = u
      BY <1>10, <3>1 DEF u
    <3>3. n + 1 \in n + 1 .. EntryCount
      BY <1>1, <2>1
    <3>4. QED
      BY <3>2, <3>3
  <2>3. ASSUME NEW j \in n + 1 .. EntryCount - 1, j \in G PROVE j + 1 \in G
    <3>1. j + 1 \in n .. EntryCount /\ j + 1 # n /\ (j + 1) - 1 = j /\ j + 1 \in n + 1 .. EntryCount
      BY <1>1
    <3>2. c[j + 1] = RetryTurn(c[j], k) /\ c[j] = u
      BY <1>9, <2>3, <3>1
    <3>3. c[j + 1] = u
      BY <1>3, <2>1, <3>2
    <3>4. QED
      BY <3>1, <3>3
  <2> HIDE DEF G
  <2>4. \A j \in n + 1 .. EntryCount : j \in G
    BY <1>1, <2>1, <2>2, <2>3, InductFrom
  <2>5. c[EntryCount] = u
    <3>1. EntryCount \in n + 1 .. EntryCount
      BY <1>1, <2>1
    <3>2. QED
      BY <2>4, <3>1 DEF G
  <2>6. QED
    BY <1>2, <1>12, <2>5 DEF n, u
<1>13. QED
  BY <1>11, <1>12

(* A key that the map does not have is in no bucket. *)
LEMMA Absent ==
  ASSUME NEW kd, NEW hp, NEW es, Shape(hp, es), AllGood(kd, hp), NEW st, Agrees(kd, hp, es, st),
         NEW k, st[k] = 0, NEW i \in 1 .. Len(es)
  PROVE  \A r \in Held(kd, hp, es, i) : r.key # k
<1>1. \A r \in Held(kd, hp, es, i) : st[r.key] = r.ptr
  BY DEF Agrees
<1>2. \A r \in Held(kd, hp, es, i) : r.ptr \in 1 .. 2
  BY HeldParts
<1>3. QED
  BY <1>1, <1>2

(* Whether a turn splits, for such a key. *)
LEMMA TurnIs ==
  ASSUME NEW hp, NEW es, Shape(hp, es), AllGood(kind, hp), Between(kind, hp, es),
         NEW st, Agrees(kind, hp, es, st), NEW k \in Keys, st[k] = 0
  PROVE  LET pos == FindPos(es, k)
             b == hp[es[pos].ptr]
             s == [heap |-> hp, ents |-> es]
         IN  /\ pos \in 1 .. Len(es) /\ KGood(kind, b) /\ \A r \in KPairs(kind, b) : r.key # k
             /\ b.entries >= MaxEntries => RetryTurn(s, k) = Split(s, pos)
             /\ ~ (b.entries >= MaxEntries) => RetryTurn(s, k) = s
<1> DEFINE pos == FindPos(es, k)
           b == hp[es[pos].ptr]
           s == [heap |-> hp, ents |-> es]
<1>1. pos \in 1 .. Len(es)
  <2>1. es \in Seq(Entry) /\ Len(es) >= 1 /\ k \in Int
    BY ShapeParts, Sizes
  <2>2. \A i, j \in 1 .. Len(es) : i < j => es[i].entry_key < es[j].entry_key
    BY DEF Between
  <2>3. QED
    BY <2>1, <2>2, FindPosIs
<1> HIDE DEF pos
<1>2. KGood(kind, b)
  BY <1>1, HeldParts
<1>3. \A r \in KPairs(kind, b) : r.key # k
  BY <1>1, Absent DEF Held
<1>4. s.heap[s.ents[FindPos(s.ents, k)].ptr] = b /\ FindPos(s.ents, k) = pos
  BY DEF pos
<1> HIDE DEF b, s
<1>5. /\ b.entries >= MaxEntries => BPut(b, k, 0).status = "Full"
      /\ ~ (b.entries >= MaxEntries) => BPut(b, k, 0).status # "Full"
  <2>1. /\ b.entries >= MaxEntries => BPut(b, k, 0) = [status |-> "Full", b |-> b]
        /\ ~ (b.entries >= MaxEntries) => BPut(b, k, 0).status = "OK"
    BY <1>2, <1>3, BPutFull
  <2>2. QED
    BY <2>1
<1>6. RetryTurn(s, k) = IF BPut(b, k, 0).status = "Full" THEN Split(s, pos) ELSE s
  BY <1>4 DEF RetryTurn
<1>7. QED
  BY <1>1, <1>2, <1>3, <1>5, <1>6 DEF b, s, pos

(* What the turns leave: either there is room for the key or every pointer *)
(* is in use and nothing has changed.                                      *)
LEMMA RetriedGood ==
  ASSUME NEW hp, NEW es, Shape(hp, es), AllGood(kind, hp), Between(kind, hp, es),
         NEW st, Agrees(kind, hp, es, st), NEW k \in Keys, st[k] = 0
  PROVE  LET t == Retried([heap |-> hp, ents |-> es], k)
         IN  /\ Shape(t.heap, t.ents) /\ Len(t.ents) <= Len(es) + 1
             /\ AllGood(kind, t.heap) /\ Between(kind, t.heap, t.ents)
             /\ AllClean(kind, hp) => AllClean(kind, t.heap)
             /\ Agrees(kind, t.heap, t.ents, st)
             /\ t.heap[t.ents[FindPos(t.ents, k)].ptr].entries >= MaxEntries =>
                  t.heap = hp /\ t.ents = es /\ Len(es) = EntryCount
<1> DEFINE s == [heap |-> hp, ents |-> es]
           pos == FindPos(es, k)
           b == hp[es[pos].ptr]
           t == Retried(s, k)
           u == RetryTurn(s, k)
           w == Split(s, pos)
<1>1. Len(es) \in Nat /\ Len(es) <= EntryCount /\ EntryCount \in Nat
  BY ShapeParts, Sizes
<1>2. s.ents = es /\ s.heap = hp
  OBVIOUS
<1>3. /\ pos \in 1 .. Len(es)
      /\ b.entries >= MaxEntries => u = w
      /\ ~ (b.entries >= MaxEntries) => u = s
  BY TurnIs
<1>4. CASE ~ (b.entries >= MaxEntries)
  <2> HIDE DEF s, u, t
  <2>1. u = s
    BY <1>3, <1>4
  <2>2. RetryTurn(RetryTurn(s, k), k) = RetryTurn(s, k)
    BY <2>1 DEF u
  <2>3. t = IF Len(s.ents) = EntryCount THEN s ELSE RetryTurn(s, k)
    BY <1>1, <1>2, <2>2, RetriedIs DEF t
  <2>4. t = s
    BY <2>1, <2>3 DEF u
  <2>5. t.heap = hp /\ t.ents = es
    BY <1>2, <2>4
  <2>6. QED
    BY <1>1, <1>4, <2>5 DEF t, s
<1>5. CASE b.entries >= MaxEntries /\ Len(es) = EntryCount
  <2> HIDE DEF s, u, t
  <2>1. t = IF Len(s.ents) = EntryCount THEN s ELSE RetryTurn(s, k)
    BY <1>1, <1>2, <1>5, RetriedIs DEF t
  <2>2. t.heap = hp /\ t.ents = es
    BY <1>2, <1>5, <2>1
  <2>3. QED
    BY <1>1, <1>5, <2>2 DEF t, s
<1>6. CASE b.entries >= MaxEntries /\ Len(es) # EntryCount
  <2>0. Len(es) < EntryCount
    BY <1>1, <1>6
  <2> HIDE DEF pos
  <2>1. /\ w = [heap |-> w.heap, ents |-> w.ents]
        /\ Shape(w.heap, w.ents) /\ Len(w.ents) = Len(es) + 1
        /\ AllGood(kind, w.heap) /\ Between(kind, w.heap, w.ents)
        /\ AllClean(kind, hp) => AllClean(kind, w.heap)
        /\ \A z : Agrees(kind, hp, es, z) => Agrees(kind, w.heap, w.ents, z)
        /\ \A x \in Keys : FindPos(es, x) = pos =>
             ~ (w.heap[w.ents[FindPos(w.ents, x)].ptr].entries >= MaxEntries)
    BY <1>3, <1>6, <2>0, SplitGood
  <2> HIDE DEF w, s, u, t
  <2>2. Agrees(kind, w.heap, w.ents, st)
    BY <2>1
  <2>3. ~ (w.heap[w.ents[FindPos(w.ents, k)].ptr].entries >= MaxEntries)
    BY <2>1 DEF pos
  <2>4. RetryTurn([heap |-> w.heap, ents |-> w.ents], k) = [heap |-> w.heap, ents |-> w.ents]
    BY <2>1, <2>2, <2>3, TurnIs
  <2>5. RetryTurn(w, k) = w
    BY <2>1, <2>4
  <2>6. u = w
    BY <1>3, <1>6
  <2>7. RetryTurn(RetryTurn(s, k), k) = RetryTurn(s, k)
    BY <2>5, <2>6 DEF u
  <2>8. t = IF Len(s.ents) = EntryCount THEN s ELSE RetryTurn(s, k)
    BY <1>1, <1>2, <2>7, RetriedIs DEF t
  <2>9. t = w
    BY <1>2, <1>6, <2>6, <2>8 DEF u
  <2>10. QED
    BY <1>1, <2>1, <2>2, <2>3, <2>9 DEF t, s
<1>7. QED
  BY <1>4, <1>5, <1>6

-----------------------------------------------------------------------------
(* One bucket changes, or the first entry_key *)

Replaced(hp, es, pos, c, hq) ==
  /\ Shape(hq, es) /\ Len(hq) = Len(hp)
  /\ \A j \in 1 .. Len(es) : hq[es[j].ptr] = IF j = pos THEN c ELSE hp[es[j].ptr]
  /\ \A m \in 1 .. Len(hp) : hq[m] = c \/ hq[m] = hp[m]

(* Another bucket in place of one with the same successor. *)
LEMMA ReplaceBucket ==
  ASSUME NEW hp, NEW es, Shape(hp, es), NEW pos \in 1 .. Len(es),
         NEW c \in AllBuckets, c.next = hp[es[pos].ptr].next
  PROVE  Replaced(hp, es, pos, c, [hp EXCEPT ![es[pos].ptr] = c])
<1> DEFINE at == es[pos].ptr
           hq == [hp EXCEPT ![at] = c]
<1>1. hp \in Seq(AllBuckets) /\ at \in 1 .. Len(hp)
  BY DEF Shape
<1>2. hq \in Seq(AllBuckets) /\ Len(hq) = Len(hp) /\ \A m \in 1 .. Len(hp) : hq[m] = IF m = at THEN c ELSE hp[m]
  BY <1>1, ExceptSeq
<1> HIDE DEF hq
<1>3. \A j \in 1 .. Len(es) : es[j].ptr \in 1 .. Len(hp) /\ (es[j].ptr = at <=> j = pos)
  BY DEF Shape
<1>4. \A j \in 1 .. Len(es) : hq[es[j].ptr] = IF j = pos THEN c ELSE hp[es[j].ptr]
  BY <1>2, <1>3
<1>5. \A j \in 1 .. Len(es) : hq[es[j].ptr].next = hp[es[j].ptr].next
  BY <1>4
<1>6. Shape(hq, es)
  BY <1>2, <1>5 DEF Shape
<1>7. Replaced(hp, es, pos, c, hq)
  BY <1>2, <1>4, <1>6 DEF Replaced
<1>8. QED
  BY <1>7 DEF hq, at

ReKeyed(hp, es, key, eq) ==
  /\ Shape(hp, eq) /\ Len(eq) = Len(es)
  /\ \A j \in 1 .. Len(es) : /\ eq[j].ptr = es[j].ptr
                             /\ eq[j].entry_key = IF j = 1 THEN key ELSE es[j].entry_key

(* Another key for the first entry. *)
LEMMA ReKey ==
  ASSUME NEW hp, NEW es, Shape(hp, es), NEW key \in 0 .. MaxKey
  PROVE  ReKeyed(hp, es, key, [es EXCEPT ![1].entry_key = key])
<1> DEFINE new == [es[1] EXCEPT !.entry_key = key]
           eq == [es EXCEPT ![1] = new]
<1>1. es \in Seq(Entry) /\ Len(es) \in Nat /\ Len(es) >= 1 /\ 1 \in 1 .. Len(es)
  BY ShapeParts
<1>2. new \in Entry /\ new.entry_key = key /\ new.ptr = es[1].ptr
  <2>1. es[1] = [entry_key |-> es[1].entry_key, ptr |-> es[1].ptr] /\ es[1].ptr \in Nat
    BY <1>1, EntryParts
  <2>2. \A y, z : [([entry_key |-> y, ptr |-> z]) EXCEPT !.entry_key = key] = [entry_key |-> key, ptr |-> z]
    OBVIOUS
  <2>3. new = [entry_key |-> key, ptr |-> es[1].ptr]
    BY <2>1, <2>2, Zenon
  <2> HIDE DEF new
  <2>4. QED
    BY <2>1, <2>3 DEF Entry
<1>3. [es EXCEPT ![1].entry_key = key] = eq
  BY Zenon
<1> HIDE DEF new
<1>4. eq \in Seq(Entry) /\ Len(eq) = Len(es) /\ \A j \in 1 .. Len(es) : eq[j] = IF j = 1 THEN new ELSE es[j]
  BY <1>1, <1>2, ExceptSeq
<1> HIDE DEF eq
<1>5. \A j \in 1 .. Len(es) : /\ eq[j].ptr = es[j].ptr
                              /\ eq[j].entry_key = IF j = 1 THEN key ELSE es[j].entry_key
  BY <1>2, <1>4
<1>6. Shape(hp, eq)
  <2> DEFINE n == Len(es)
  <2>1. /\ hp \in Seq(AllBuckets) /\ n \in 1 .. EntryCount /\ Len(hp) = n
        /\ \A i \in 1 .. n : es[i].ptr \in 1 .. n
        /\ \A i, j \in 1 .. n : es[i].ptr = es[j].ptr => i = j
        /\ \A i \in 1 .. n : hp[es[i].ptr].next = IF i = n THEN 0 ELSE es[i + 1].ptr
    BY DEF Shape
  <2>2. \A i \in 1 .. n : i = n \/ i + 1 \in 1 .. n
    BY <1>1
  <2>3. Len(eq) = n /\ eq \in Seq(Entry) /\ \A j \in 1 .. n : eq[j].ptr = es[j].ptr
    BY <1>4, <1>5
  <2> HIDE DEF n
  <2>4. \A i \in 1 .. n : hp[eq[i].ptr].next = IF i = n THEN 0 ELSE eq[i + 1].ptr
    BY <2>1, <2>2, <2>3
  <2>5. QED
    BY <2>1, <2>3, <2>4 DEF Shape
<1>7. ReKeyed(hp, es, key, eq)
  BY <1>4, <1>5, <1>6 DEF ReKeyed
<1>8. QED
  BY <1>3, <1>7

(* What the bucket that Find_pos names is to the others. *)
LEMMA PlaceIs ==
  ASSUME NEW kd, NEW hp, NEW es, Shape(hp, es), AllGood(kd, hp), Between(kd, hp, es), NEW k \in Keys
  PROVE  LET p == FindPos(es, k)
         IN  /\ p \in 1 .. Len(es) /\ KGood(kd, hp[es[p].ptr])
             /\ p > 1 => es[p].entry_key <= k
             /\ p < Len(es) => k < es[p + 1].entry_key
             /\ \A i \in 1 .. Len(es) : \A r \in Held(kd, hp, es, i) : r.key = k => i = p
<1> DEFINE p == FindPos(es, k)
<1>1. /\ es \in Seq(Entry) /\ Len(es) \in Nat /\ Len(es) >= 1 /\ k \in Int
      /\ \A i \in 1 .. Len(es) : es[i].entry_key \in Int
  BY ShapeParts, Sizes
<1>2. /\ \A i, j \in 1 .. Len(es) : i < j => es[i].entry_key < es[j].entry_key
      /\ \A i \in 1 .. Len(es) : \A r \in Held(kd, hp, es, i) :
           /\ es[i].entry_key <= r.key
           /\ i < Len(es) => r.key < es[i + 1].entry_key
  BY DEF Between
<1>3. /\ p \in 1 .. Len(es)
      /\ p > 1 => es[p].entry_key <= k
      /\ p < Len(es) => k < es[p + 1].entry_key
  BY <1>1, <1>2, FindPosIs
<1>4. ASSUME NEW i \in 1 .. Len(es), NEW r \in Held(kd, hp, es, i), r.key = k PROVE i = p
  BY <1>1, <1>2, <1>4, FindPosOnly
<1> HIDE DEF p
<1>5. KGood(kd, hp[es[p].ptr])
  BY <1>3, HeldParts
<1>6. QED
  BY <1>3, <1>4, <1>5 DEF p

-----------------------------------------------------------------------------
(* The turn that puts the pair *)

(* One pair more in the bucket of its key, and perhaps a lower first key.  *)
LEMMA Inserted ==
  ASSUME NEW kd, NEW hp, NEW es, Shape(hp, es), AllGood(kd, hp), Between(kd, hp, es),
         NEW st \in [Keys -> 0 .. 2], Agrees(kd, hp, es, st), NEW k \in Keys, st[k] = 0,
         NEW c, KGood(kd, c),
         KPairs(kd, c) = KPairs(kd, hp[es[FindPos(es, k)].ptr]) \union {[key |-> k, ptr |-> 1]},
         NEW hq, Replaced(hp, es, FindPos(es, k), c, hq),
         NEW eq, IF es[1].entry_key > k THEN ReKeyed(hq, es, k, eq) ELSE eq = es
  PROVE  /\ Shape(hq, eq) /\ AllGood(kd, hq) /\ Between(kd, hq, eq)
         /\ Agrees(kd, hq, eq, [st EXCEPT ![k] = 1])
<1> DEFINE n == Len(es)
           p == FindPos(es, k)
           y == [key |-> k, ptr |-> 1]
           su == [st EXCEPT ![k] = 1]
           Old(i) == Held(kd, hp, es, i)
           New(i) == Held(kd, hq, eq, i)
<1>1. /\ n \in Nat /\ n >= 1 /\ Len(hp) = n /\ k \in Int
      /\ \A i \in 1 .. n : es[i].entry_key \in Int
  BY ShapeParts, Sizes
<1>2. /\ p \in 1 .. n
      /\ p > 1 => es[p].entry_key <= k
      /\ p < n => k < es[p + 1].entry_key
  BY PlaceIs
<1>3. /\ Shape(hq, es) /\ Len(hq) = n
      /\ \A j \in 1 .. n : hq[es[j].ptr] = IF j = p THEN c ELSE hp[es[j].ptr]
      /\ \A m \in 1 .. n : hq[m] = c \/ hq[m] = hp[m]
  BY <1>1 DEF Replaced
<1>4. KPairs(kd, c) = Old(p) \union {y}
  BY DEF Held
<1>5. /\ \A i, j \in 1 .. n : i < j => es[i].entry_key < es[j].entry_key
      /\ \A i \in 1 .. n : \A r \in Old(i) : /\ es[i].entry_key <= r.key
                                             /\ i < n => r.key < es[i + 1].entry_key
  BY DEF Between
<1>6. y.key = k /\ y.ptr = 1
  OBVIOUS
<1>7. \A i \in 1 .. n : \A r \in Old(i) : r.key # k /\ r.key \in Keys /\ r.key \in Int
  BY Absent, HeldParts
<1> HIDE DEF p, y
<1>8. /\ Len(eq) = n /\ Shape(hq, eq)
      /\ \A j \in 1 .. n : /\ eq[j].ptr = es[j].ptr
                           /\ eq[j].entry_key = IF j = 1 /\ es[1].entry_key > k THEN k ELSE es[j].entry_key
  <2>1. CASE es[1].entry_key > k
    <3>1. ReKeyed(hq, es, k, eq)
      BY <2>1
    <3>2. QED
      BY <2>1, <3>1 DEF ReKeyed
  <2>2. CASE ~ (es[1].entry_key > k)
    BY <1>3, <2>2
  <2>3. QED
    BY <2>1, <2>2
<1>9. AllGood(kd, hq)
  BY <1>1, <1>3 DEF AllGood
<1>10. \A i \in 1 .. n : /\ i # p => New(i) = Old(i)
                         /\ i = p => New(i) = Old(i) \union {y}
  BY <1>3, <1>4, <1>8 DEF Held
<1> HIDE DEF Old, New
<1>11. \A j \in 1 .. n : /\ eq[j].entry_key \in Int /\ eq[j].entry_key <= es[j].entry_key
                         /\ j > 1 => eq[j].entry_key = es[j].entry_key
                         /\ j = 1 => eq[j].entry_key <= k \/ eq[j].entry_key = es[j].entry_key
  BY <1>1, <1>8
<1>12. eq[p].entry_key <= k
  <2>1. CASE p = 1
    BY <1>1, <1>2, <1>8, <2>1
  <2>2. CASE p # 1
    <3>1. p > 1
      BY <1>1, <1>2, <2>2
    <3>2. QED
      BY <1>2, <1>11, <3>1
  <2>3. QED
    BY <2>1, <2>2
<1>13. ASSUME NEW i \in 1 .. n, NEW j \in 1 .. n, i < j PROVE eq[i].entry_key < eq[j].entry_key
  <2>1. j > 1
    BY <1>1, <1>13
  <2>2. eq[i].entry_key <= es[i].entry_key /\ es[i].entry_key < es[j].entry_key /\ eq[j].entry_key = es[j].entry_key
    BY <1>5, <1>11, <1>13, <2>1
  <2>3. eq[i].entry_key \in Int /\ es[i].entry_key \in Int /\ es[j].entry_key \in Int
    BY <1>1, <1>11
  <2>4. QED
    BY <2>2, <2>3
<1>14. ASSUME NEW i \in 1 .. n, NEW r \in New(i)
       PROVE  /\ eq[i].entry_key <= r.key
              /\ i < n => r.key < eq[i + 1].entry_key
  <2>0. i < n => i + 1 \in 1 .. n /\ i + 1 > 1 /\ eq[i + 1].entry_key = es[i + 1].entry_key
    <3>1. i < n => i + 1 \in 1 .. n /\ i + 1 > 1
      BY <1>1
    <3>2. QED
      BY <1>11, <3>1
  <2>1. CASE r \in Old(i)
    <3>1. es[i].entry_key <= r.key /\ (i < n => r.key < es[i + 1].entry_key) /\ r.key \in Int
      BY <1>5, <1>7, <2>1
    <3>2. eq[i].entry_key <= es[i].entry_key /\ eq[i].entry_key \in Int /\ es[i].entry_key \in Int
      BY <1>1, <1>11
    <3>3. QED
      BY <2>0, <3>1, <3>2
  <2>2. CASE r \notin Old(i)
    <3>1. i = p /\ r = y
      BY <1>10, <2>2
    <3>2. QED
      BY <1>2, <1>6, <1>12, <2>0, <3>1
  <2>3. QED
    BY <2>1, <2>2
<1>15. Between(kd, hq, eq)
  <2>1. \A i, j \in 1 .. Len(eq) : i < j => eq[i].entry_key < eq[j].entry_key
    BY <1>8, <1>13
  <2>2. \A i \in 1 .. Len(eq) : \A r \in New(i) : /\ eq[i].entry_key <= r.key
                                                  /\ i < Len(eq) => r.key < eq[i + 1].entry_key
    BY <1>8, <1>14
  <2>3. QED
    BY <2>1, <2>2 DEF Between, New
<1>16. /\ \A i \in 1 .. n : \A r \in Old(i) : st[r.key] = r.ptr
       /\ \A x \in Keys : st[x] # 0 => \E i \in 1 .. n : [key |-> x, ptr |-> st[x]] \in Old(i)
  BY DEF Agrees, Old
<1>17. su[k] = 1 /\ \A x \in Keys : x # k => su[x] = st[x]
  OBVIOUS
<1> HIDE DEF su
<1>18. \A i \in 1 .. n : \A r \in New(i) : su[r.key] = r.ptr
  <2>1. ASSUME NEW i \in 1 .. n, NEW r \in New(i) PROVE su[r.key] = r.ptr
    <3>1. CASE r \in Old(i)
      BY <1>7, <1>16, <1>17, <3>1
    <3>2. CASE r \notin Old(i)
      BY <1>6, <1>10, <1>17, <3>2
    <3>3. QED
      BY <3>1, <3>2
  <2>2. QED
    BY <2>1
<1>19. ASSUME NEW x \in Keys, su[x] # 0 PROVE \E i \in 1 .. n : [key |-> x, ptr |-> su[x]] \in New(i)
  <2>1. CASE x = k
    <3>1. [key |-> x, ptr |-> su[x]] = y
      BY <1>17, <2>1 DEF y
    <3>2. QED
      BY <1>2, <1>10, <3>1
  <2>2. CASE x # k
    <3>1. PICK i \in 1 .. n : [key |-> x, ptr |-> st[x]] \in Old(i)
      BY <1>16, <1>17, <1>19, <2>2
    <3>2. [key |-> x, ptr |-> st[x]] \in New(i)
      BY <1>10, <3>1
    <3>3. QED
      BY <1>17, <2>2, <3>2
  <2>3. QED
    BY <2>1, <2>2
<1>20. Agrees(kd, hq, eq, su)
  BY <1>8, <1>18, <1>19 DEF Agrees, New
<1>21. QED
  BY <1>8, <1>9, <1>15, <1>20 DEF su

(* A Put of an absent key after its splits, in every case. *)
LEMMA PutGood ==
  ASSUME NEW s, Shape(s.heap, s.ents), AllGood(kind, s.heap), Between(kind, s.heap, s.ents),
         NEW st \in [Keys -> 0 .. 2], Agrees(kind, s.heap, s.ents, st), NEW k \in Keys, st[k] = 0
  PROVE  LET r == PutFrom(s, k, 1)
             full == s.heap[s.ents[FindPos(s.ents, k)].ptr].entries >= MaxEntries
         IN  /\ r.status = IF full THEN "Full" ELSE "OK"
             /\ full => r.heap = s.heap /\ r.ents = s.ents
             /\ Shape(r.heap, r.ents) /\ Len(r.ents) = Len(s.ents) /\ AllTyped(kind, r.heap)
             /\ ~full /\ (kind # "sort" \/ AllClean(kind, s.heap)) =>
                  /\ AllGood(kind, r.heap) /\ Between(kind, r.heap, r.ents)
                  /\ Agrees(kind, r.heap, r.ents, [st EXCEPT ![k] = 1])
                  /\ AllClean(kind, s.heap) => AllClean(kind, r.heap)
<1> DEFINE hp == s.heap
           es == s.ents
           n == Len(es)
           p == FindPos(es, k)
           b == hp[es[p].ptr]
           e == BPut(b, k, 1)
           c == e.b
           full == b.entries >= MaxEntries
           r == PutFrom(s, k, 1)
           hq == [hp EXCEPT ![es[p].ptr] = c]
           ek == [es EXCEPT ![1].entry_key = k]
<1>1. /\ r.status = e.status /\ r.heap = hq
      /\ r.ents = IF e.status = "OK" /\ es[1].entry_key > k THEN ek ELSE es
  BY DEF PutFrom
<1> HIDE DEF r
<1>2. p \in 1 .. n /\ KGood(kind, b)
  BY PlaceIs
<1>3. \A q \in KPairs(kind, b) : q.key # k
  BY <1>2, Absent DEF Held
<1>4. n \in Nat /\ Len(hp) = n /\ hp \in Seq(AllBuckets) /\ es[p].ptr \in 1 .. n
      /\ \A j \in 1 .. n : es[j].ptr \in 1 .. n
  BY <1>2, ShapeParts
<1>5. \A m \in 1 .. n : KTyped(kind, hp[m]) /\ KGood(kind, hp[m])
  BY <1>4, KStrength DEF AllGood
<1> HIDE DEF hp, es, n, p, b, e, hq, ek
<1>6. /\ full => e = [status |-> "Full", b |-> b]
      /\ ~full => e.status = "OK"
  BY <1>2, <1>3, BPutFull DEF e
<1>7. CASE full
  <2>1. e.status = "Full" /\ c = b
    BY <1>6, <1>7
  <2>2. hq = hp
    <3>1. [hp EXCEPT ![es[p].ptr] = hp[es[p].ptr]] = hp
      BY <1>4
    <3>2. QED
      BY <2>1, <3>1 DEF hq, b
  <2>3. r.ents = es /\ r.heap = hp /\ r.status = "Full"
    BY <1>1, <2>1, <2>2
  <2>4. AllTyped(kind, hp)
    BY <1>4, <1>5 DEF AllTyped
  <2>5. QED
    BY <1>7, <2>3, <2>4 DEF r, hp, es, p, b
<1>8. CASE ~full
  <2>1. e.status = "OK" /\ k \in 0 .. MaxKey /\ 1 \in Values
    BY <1>6, <1>8, Sizes DEF Values
  <2>2. r.status = "OK" /\ r.heap = hq /\ r.ents = IF es[1].entry_key > k THEN ek ELSE es
    BY <1>1, <2>1
  <2>3. KClean(kind, b) =>
          /\ KClean(kind, c) /\ c.next = b.next /\ c.entries = b.entries + 1
          /\ KPairs(kind, c) = KPairs(kind, b) \union {[key |-> k, ptr |-> 1]}
    BY <1>3, <1>8, <2>1, BPutClean DEF e
  <2>4. ~ KClean(kind, b) => KTyped(kind, c) /\ c.next = b.next
    <3>1. ~ KClean(kind, b) => kind = "sort"
      BY <1>2, KStrength
    <3>2. QED
      BY <1>2, <1>8, <2>1, <3>1, BPutHoled DEF e
  <2>5. KTyped(kind, c) /\ c.next = b.next /\ c \in AllBuckets
    BY <2>3, <2>4, KStrength, KMember
  <2>6. Replaced(hp, es, p, c, hq)
    <3>1. Shape(hp, es)
      BY DEF hp, es
    <3> HIDE DEF c
    <3>2. c.next = hp[es[p].ptr].next /\ p \in 1 .. Len(es) /\ c \in AllBuckets
      BY <1>2, <2>5 DEF b, n
    <3>3. Replaced(hp, es, p, c, [hp EXCEPT ![es[p].ptr] = c])
      BY <3>1, <3>2, ReplaceBucket
    <3>4. QED
      BY <3>3 DEF hq
  <2>7. Shape(hq, es) /\ Len(hq) = n /\ \A m \in 1 .. n : hq[m] = c \/ hq[m] = hp[m]
    BY <1>4, <2>6 DEF Replaced
  <2>8. ReKeyed(hq, es, k, ek)
    BY <2>1, <2>7, ReKey DEF ek
  <2>9. Shape(r.heap, r.ents) /\ Len(r.ents) = n
    BY <2>2, <2>7, <2>8 DEF ReKeyed, n
  <2>10. AllTyped(kind, r.heap)
    BY <1>5, <2>2, <2>5, <2>7 DEF AllTyped
  <2>11. ASSUME kind # "sort" \/ AllClean(kind, hp)
         PROVE  /\ AllGood(kind, r.heap) /\ Between(kind, r.heap, r.ents)
                /\ Agrees(kind, r.heap, r.ents, [st EXCEPT ![k] = 1])
                /\ AllClean(kind, hp) => AllClean(kind, r.heap)
    <3>1. KClean(kind, b)
      <4>1. es[p].ptr \in 1 .. Len(hp)
        BY <1>4
      <4>2. AllClean(kind, hp) => KClean(kind, b)
        BY <4>1 DEF AllClean, b
      <4>3. kind # "sort" => KClean(kind, b)
        BY <1>2, KStrength
      <4>4. QED
        BY <2>11, <4>2, <4>3
    <3>2. KClean(kind, c) /\ KGood(kind, c)
          /\ KPairs(kind, c) = KPairs(kind, b) \union {[key |-> k, ptr |-> 1]}
      BY <2>3, <3>1, KStrength
    <3>3. IF es[1].entry_key > k THEN ReKeyed(hq, es, k, r.ents) ELSE r.ents = es
      BY <2>2, <2>8
    <3>4. Shape(hp, es) /\ AllGood(kind, hp) /\ Between(kind, hp, es) /\ Agrees(kind, hp, es, st)
      BY DEF hp, es
    <3> HIDE DEF c
    <3>5. /\ KPairs(kind, c) = KPairs(kind, hp[es[FindPos(es, k)].ptr]) \union {[key |-> k, ptr |-> 1]}
          /\ Replaced(hp, es, FindPos(es, k), c, hq)
      BY <2>6, <3>2 DEF b, p
    <3>6. /\ AllGood(kind, hq) /\ Between(kind, hq, r.ents)
          /\ Agrees(kind, hq, r.ents, [st EXCEPT ![k] = 1])
      BY <3>2, <3>3, <3>4, <3>5, Inserted
    <3>7. AllClean(kind, hp) => AllClean(kind, hq)
      BY <1>4, <2>7, <3>2 DEF AllClean
    <3>8. QED
      BY <2>2, <3>6, <3>7
  <2>12. QED
    BY <1>8, <2>2, <2>9, <2>10, <2>11 DEF r, hp, es, p, b, n
<1>9. QED
  BY <1>7, <1>8

-----------------------------------------------------------------------------
(* An entry as the constructors leave it *)

(* The bucket class is one of the three. *)
LEMMA KindIs == kind \in Kinds => kind \in ThreeKinds
BY PointerBEntryAssumption DEF ThreeKinds

(* One bucket, with no pair or with the one the entry begins with. *)
LEMMA OneBucket ==
  ASSUME NEW k \in 0 .. MaxKey, NEW b, KClean(kind, b), b.next = 0,
         KPairs(kind, b) = IF k = 0 THEN {} ELSE {[key |-> k, ptr |-> 1]}
  PROVE  LET hp == <<b>>
             es == <<[entry_key |-> k, ptr |-> 1]>>
         IN  /\ Shape(hp, es) /\ AllClean(kind, hp) /\ AllGood(kind, hp) /\ AllTyped(kind, hp)
             /\ Between(kind, hp, es)
             /\ Agrees(kind, hp, es, [x \in Keys |-> IF x = k THEN 1 ELSE 0])
<1> DEFINE e == [entry_key |-> k, ptr |-> 1]
           hp == <<b>>
           es == <<e>>
           st == [x \in Keys |-> IF x = k THEN 1 ELSE 0]
           y == [key |-> k, ptr |-> 1]
<1>1. KGood(kind, b) /\ KTyped(kind, b) /\ b \in AllBuckets
  BY KStrength, KMember
<1>2. e \in Entry /\ e.entry_key = k /\ e.ptr = 1 /\ y.key = k /\ y.ptr = 1
  BY DEF Entry
<1> HIDE DEF e, y
<1>3. /\ hp \in Seq(AllBuckets) /\ Len(hp) = 1 /\ hp[1] = b
      /\ es \in Seq(Entry) /\ Len(es) = 1 /\ es[1] = e
  BY <1>1, <1>2
<1> HIDE DEF hp, es
<1>4. \A i \in 1 .. 1 : i = 1
  OBVIOUS
<1>5. 1 \in 1 .. EntryCount
  BY Sizes
<1>6. Shape(hp, es)
  <2>1. \A i \in 1 .. Len(es) : i = 1 /\ es[i].ptr = 1 /\ hp[es[i].ptr].next = 0
    BY <1>2, <1>3, <1>4
  <2>2. QED
    BY <1>3, <1>5, <2>1 DEF Shape
<1>7. AllClean(kind, hp) /\ AllGood(kind, hp) /\ AllTyped(kind, hp)
  BY <1>1, <1>3, <1>4 DEF AllClean, AllGood, AllTyped
<1>8. \A i \in 1 .. 1 : Held(kind, hp, es, i) = IF k = 0 THEN {} ELSE {y}
  BY <1>2, <1>3, <1>4 DEF Held, y
<1>9. Between(kind, hp, es)
  <2>1. \A i, j \in 1 .. Len(es) : ~ (i < j)
    BY <1>3
  <2>2. \A i \in 1 .. Len(es) : \A r \in Held(kind, hp, es, i) : r.key = k /\ es[i].entry_key = k /\ ~ (i < Len(es))
    BY <1>2, <1>3, <1>4, <1>8
  <2>3. k <= k
    BY Sizes
  <2>4. QED
    BY <2>1, <2>2, <2>3 DEF Between
<1>10. Agrees(kind, hp, es, st)
  <2>1. \A i \in 1 .. Len(es) : \A r \in Held(kind, hp, es, i) : st[r.key] = r.ptr
    <3>1. ASSUME NEW i \in 1 .. Len(es), NEW r \in Held(kind, hp, es, i) PROVE st[r.key] = r.ptr
      <4>1. r = y /\ k # 0
        BY <1>3, <1>8
      <4>2. k \in Keys
        BY <4>1, Sizes DEF Keys
      <4>3. st[k] = 1
        BY <4>2
      <4> HIDE DEF st
      <4>4. QED
        BY <1>2, <4>1, <4>3
    <3>2. QED
      BY <3>1
  <2>2. ASSUME NEW x \in Keys, st[x] # 0
        PROVE  \E i \in 1 .. Len(es) : [key |-> x, ptr |-> st[x]] \in Held(kind, hp, es, i)
    <3>1. x = k /\ st[x] = 1
      BY <2>2
    <3>2. k # 0 /\ 1 \in 1 .. Len(es)
      BY <1>3, <3>1, Sizes DEF Keys
    <3>3. [key |-> x, ptr |-> st[x]] \in Held(kind, hp, es, 1)
      <4> HIDE DEF st
      <4>1. QED
        BY <1>8, <3>1, <3>2 DEF y
    <3>4. QED
      BY <3>2, <3>3
  <2> HIDE DEF st
  <2>3. QED
    BY <2>1, <2>2 DEF Agrees
<1>11. QED
  BY <1>6, <1>7, <1>9, <1>10 DEF hp, es, e

-----------------------------------------------------------------------------
(* Update and Delete *)

(* Another value for a key that is there, or with v = 0 none. *)
LEMMA Changed ==
  ASSUME NEW kd, NEW hp, NEW es, Shape(hp, es), AllGood(kd, hp), Between(kd, hp, es),
         NEW st \in [Keys -> 0 .. 2], Agrees(kd, hp, es, st), NEW k \in Keys, NEW v \in 0 .. 2,
         NEW c, KGood(kd, c),
         \E q \in KPairs(kd, hp[es[FindPos(es, k)].ptr]) : q.key = k,
         \A t : t \in KPairs(kd, c) <=>
                  \/ t \in KPairs(kd, hp[es[FindPos(es, k)].ptr]) /\ t.key # k
                  \/ v # 0 /\ t = [key |-> k, ptr |-> v],
         NEW hq, Replaced(hp, es, FindPos(es, k), c, hq)
  PROVE  /\ AllGood(kd, hq) /\ Between(kd, hq, es)
         /\ Agrees(kd, hq, es, [st EXCEPT ![k] = v])
<1> DEFINE n == Len(es)
           p == FindPos(es, k)
           y == [key |-> k, ptr |-> v]
           su == [st EXCEPT ![k] = v]
           Old(i) == Held(kd, hp, es, i)
           New(i) == Held(kd, hq, es, i)
<1>1. /\ n \in Nat /\ n >= 1 /\ Len(hp) = n /\ k \in Int
      /\ \A i \in 1 .. n : es[i].entry_key \in Int
  BY ShapeParts, Sizes
<1>2. p \in 1 .. n /\ \A i \in 1 .. n : \A r \in Old(i) : r.key = k => i = p
  BY PlaceIs
<1>3. /\ \A j \in 1 .. n : hq[es[j].ptr] = IF j = p THEN c ELSE hp[es[j].ptr]
      /\ Len(hq) = n /\ \A m \in 1 .. n : hq[m] = c \/ hq[m] = hp[m]
  BY <1>1 DEF Replaced
<1>4. \A t : t \in KPairs(kd, c) <=> (t \in Old(p) /\ t.key # k) \/ (v # 0 /\ t = y)
  BY DEF Held
<1>5. /\ \A i, j \in 1 .. n : i < j => es[i].entry_key < es[j].entry_key
      /\ \A i \in 1 .. n : \A r \in Old(i) : /\ es[i].entry_key <= r.key
                                             /\ i < n => r.key < es[i + 1].entry_key
  BY DEF Between
<1>6. y.key = k /\ y.ptr = v
  OBVIOUS
<1>7. /\ es[p].entry_key <= k
      /\ p < n => k < es[p + 1].entry_key
  <2>1. PICK q \in Old(p) : q.key = k
    BY DEF Held
  <2>2. QED
    BY <1>2, <1>5, <2>1
<1> HIDE DEF p, y
<1>8. AllGood(kd, hq)
  BY <1>1, <1>3 DEF AllGood
<1>9. \A i \in 1 .. n : /\ i # p => New(i) = Old(i)
                        /\ i = p => New(i) = KPairs(kd, c)
  BY <1>3 DEF Held
<1> HIDE DEF Old, New
<1>10. \A i \in 1 .. n : \A r \in New(i) : r \in Old(i) \/ (i = p /\ r = y)
  BY <1>4, <1>9
<1>11. Between(kd, hq, es)
  <2>1. \A i \in 1 .. n : \A r \in New(i) : /\ es[i].entry_key <= r.key
                                            /\ i < n => r.key < es[i + 1].entry_key
    BY <1>5, <1>6, <1>7, <1>10
  <2>2. QED
    BY <1>5, <2>1 DEF Between, New
<1>12. /\ \A i \in 1 .. n : \A r \in Old(i) : st[r.key] = r.ptr
       /\ \A x \in Keys : st[x] # 0 => \E i \in 1 .. n : [key |-> x, ptr |-> st[x]] \in Old(i)
  BY DEF Agrees, Old
<1>13. su[k] = v /\ \A x \in Keys : x # k => su[x] = st[x]
  OBVIOUS
<1>14. \A i \in 1 .. n : \A r \in Old(i) : r.key \in Keys
  BY HeldParts DEF Old
<1> HIDE DEF su
<1>15. ASSUME NEW i \in 1 .. n, NEW r \in New(i) PROVE su[r.key] = r.ptr
  <2>1. CASE r.key = k
    <3>1. r \in Old(i) => i = p
      BY <1>2, <2>1
    <3>2. i = p
      BY <1>10, <3>1
    <3>3. r = y
      BY <1>4, <1>9, <2>1, <3>2
    <3>4. QED
      BY <1>6, <1>13, <3>3
  <2>2. CASE r.key # k
    <3>1. r \in Old(i)
      BY <1>6, <1>10, <2>2
    <3>2. QED
      BY <1>12, <1>13, <1>14, <2>2, <3>1
  <2>3. QED
    BY <2>1, <2>2
<1>16. ASSUME NEW x \in Keys, su[x] # 0 PROVE \E i \in 1 .. n : [key |-> x, ptr |-> su[x]] \in New(i)
  <2>1. CASE x = k
    <3>1. [key |-> x, ptr |-> su[x]] = y /\ v # 0
      BY <1>13, <1>16, <2>1 DEF y
    <3>2. y \in New(p)
      BY <1>2, <1>4, <1>9, <3>1
    <3>3. QED
      BY <1>2, <3>1, <3>2
  <2>2. CASE x # k
    <3>1. PICK i \in 1 .. n : [key |-> x, ptr |-> st[x]] \in Old(i)
      BY <1>12, <1>13, <1>16, <2>2
    <3>2. [key |-> x, ptr |-> st[x]] \in New(i)
      BY <1>4, <1>9, <2>2, <3>1
    <3>3. QED
      BY <1>13, <2>2, <3>2
  <2>3. QED
    BY <2>1, <2>2
<1>17. Agrees(kd, hq, es, su)
  BY <1>15, <1>16 DEF Agrees, New
<1>18. QED
  BY <1>8, <1>11, <1>17 DEF su

-----------------------------------------------------------------------------
(* AdjustEntryKey *)

(* The first entry_key may become the least key of the first bucket. *)
LEMMA Adjusted ==
  ASSUME NEW kd, NEW hp, NEW es, Shape(hp, es), AllGood(kd, hp), Between(kd, hp, es),
         NEW key \in 0 .. MaxKey,
         \/ key = es[1].entry_key
         \/ \E q \in Held(kd, hp, es, 1) : q.key = key /\ \A t \in Held(kd, hp, es, 1) : q.key <= t.key,
         NEW eq, ReKeyed(hp, es, key, eq)
  PROVE  Between(kd, hp, eq) /\ \A st : Agrees(kd, hp, es, st) => Agrees(kd, hp, eq, st)
<1> DEFINE n == Len(es)
           Old(i) == Held(kd, hp, es, i)
<1>1. /\ n \in Nat /\ n >= 1 /\ key \in Int /\ Len(eq) = n
      /\ \A i \in 1 .. n : /\ es[i].entry_key \in Int
                           /\ eq[i].entry_key = IF i = 1 THEN key ELSE es[i].entry_key
  BY ShapeParts, Sizes DEF ReKeyed
<1>2. \A i \in 1 .. n : Held(kd, hp, eq, i) = Old(i)
  BY DEF ReKeyed, Held
<1>3. /\ \A i, j \in 1 .. n : i < j => es[i].entry_key < es[j].entry_key
      /\ \A i \in 1 .. n : \A r \in Old(i) : /\ es[i].entry_key <= r.key
                                             /\ i < n => r.key < es[i + 1].entry_key
  BY DEF Between
<1>4. 1 \in 1 .. n /\ \A r \in Old(1) : r.key \in Int
  BY <1>1, HeldParts
<1>5. \/ key = es[1].entry_key
      \/ \E q \in Old(1) : q.key = key /\ \A t \in Old(1) : q.key <= t.key
  OBVIOUS
<1> HIDE DEF n, Old
<1>6. ASSUME NEW i \in 1 .. n, NEW j \in 1 .. n, i < j PROVE eq[i].entry_key < eq[j].entry_key
  <2>1. i \in Int /\ j \in Int /\ i >= 1 /\ j # 1 /\ j <= n
    BY <1>1, <1>6
  <2>2. eq[j].entry_key = es[j].entry_key /\ es[i].entry_key < es[j].entry_key
    BY <1>1, <1>3, <1>6, <2>1
  <2>3. CASE i # 1 \/ key = es[1].entry_key
    BY <1>1, <2>2, <2>3
  <2>4. CASE i = 1 /\ \E q \in Old(1) : q.key = key
    <3>1. key < es[2].entry_key
      <4>1. 1 < n /\ 1 + 1 = 2
        BY <1>1, <2>1, <2>4, <1>6
      <4>2. PICK q \in Old(1) : q.key = key
        BY <2>4
      <4>3. q.key < es[1 + 1].entry_key
        BY <1>3, <1>4, <4>1, <4>2
      <4>4. QED
        BY <4>1, <4>2, <4>3
    <3>2. 2 \in 1 .. n /\ (2 < j \/ 2 = j)
      BY <1>1, <1>6, <2>1, <2>4
    <3>3. es[2].entry_key < es[j].entry_key \/ 2 = j
      BY <1>3, <3>2
    <3>4. es[2].entry_key \in Int /\ es[j].entry_key \in Int /\ eq[i].entry_key = key
      BY <1>1, <2>4, <3>2
    <3>5. QED
      BY <1>1, <2>2, <3>1, <3>3, <3>4
  <2>5. QED
    BY <1>5, <2>3, <2>4
<1>7. ASSUME NEW i \in 1 .. n, NEW r \in Old(i)
      PROVE  /\ eq[i].entry_key <= r.key
             /\ i < n => r.key < eq[i + 1].entry_key
  <2>1. i < n => i + 1 \in 1 .. n /\ i + 1 # 1
    BY <1>1
  <2>2. i < n => r.key < eq[i + 1].entry_key
    BY <1>1, <1>3, <2>1
  <2>3. CASE i # 1 \/ key = es[1].entry_key
    BY <1>1, <1>3, <2>2, <2>3
  <2>4. CASE i = 1 /\ \E q \in Old(1) : q.key = key /\ \A t \in Old(1) : q.key <= t.key
    BY <1>1, <2>2, <2>4
  <2>5. QED
    BY <1>5, <2>3, <2>4
<1>8. Between(kd, hp, eq)
  BY <1>1, <1>2, <1>6, <1>7 DEF Between
<1>9. ASSUME NEW st, Agrees(kd, hp, es, st) PROVE Agrees(kd, hp, eq, st)
  BY <1>1, <1>2, <1>9 DEF Agrees, Old, n
<1>10. QED
  BY <1>8, <1>9

(* The key is among those BMinKeys offers. *)
LEMMA AdjustKey ==
  ASSUME NEW hp, NEW es, Shape(hp, es), AllTyped(kind, hp), NEW key \in BMinKeys(hp[es[1].ptr])
  PROVE  /\ key \in 0 .. MaxKey
         /\ AllGood(kind, hp) /\ ~ (Cardinality(BMinKeys(hp[es[1].ptr])) > 1) =>
              \/ key = es[1].entry_key
              \/ \E q \in Held(kind, hp, es, 1) : q.key = key /\ \A t \in Held(kind, hp, es, 1) : q.key <= t.key
<1> DEFINE b == hp[es[1].ptr]
           M == BMinKeys(b)
<1>1. 1 \in 1 .. Len(es) /\ es[1].ptr \in 1 .. Len(hp) /\ es[1].entry_key \in 0 .. MaxKey
  BY ShapeParts
<1>2. KTyped(kind, b) /\ (AllGood(kind, hp) => KGood(kind, b))
  BY <1>1 DEF AllTyped, AllGood
<1> HIDE DEF b
<1>3. /\ \/ M = 0 .. MaxKey
         \/ \E m \in 0 .. MaxKey : M = {m}
      /\ KGood(kind, b) => \/ M = 0 .. MaxKey
                           \/ \E q \in KPairs(kind, b) : /\ M = {q.key}
                                                         /\ \A t \in KPairs(kind, b) : q.key <= t.key
  BY <1>2, BMinKeysIs
<1>4. key \in M
  BY DEF b
<1> HIDE DEF M
<1>5. key \in 0 .. MaxKey
  BY <1>3, <1>4
<1>6. ASSUME AllGood(kind, hp), ~ (Cardinality(M) > 1)
      PROVE  \/ key = es[1].entry_key
             \/ \E q \in KPairs(kind, b) : q.key = key /\ \A t \in KPairs(kind, b) : q.key <= t.key
  <2>1. CASE M = 0 .. MaxKey
    <3>1. Cardinality(0 .. MaxKey) = MaxKey + 1
      <4>1. 0 \in Int /\ MaxKey \in Int /\ ~ (0 > MaxKey) /\ MaxKey - 0 + 1 = MaxKey + 1
        BY Sizes
      <4>2. QED
        BY <4>1, FS_Interval
    <3>2. MaxKey = 0
      BY <1>6, <2>1, <3>1, Sizes
    <3>3. QED
      BY <1>1, <1>5, <3>2
  <2>2. CASE \E q \in KPairs(kind, b) : M = {q.key} /\ \A t \in KPairs(kind, b) : q.key <= t.key
    BY <1>4, <2>2
  <2>3. QED
    BY <1>2, <1>3, <1>6, <2>1, <2>2
<1>7. QED
  BY <1>5, <1>6 DEF Held, b, M

-----------------------------------------------------------------------------
(* The invariant is inductive *)

(* A new entry. *)
LEMMA InitInv == Init => IInv
<1> SUFFICES ASSUME Init PROVE IInv
  OBVIOUS
<1>1. PICK k \in FirstKey \union {0} :
        /\ prefix = IF k = 0 THEN InitPrefix ELSE 0
        /\ heap = <<IF k = 0 THEN BEmpty ELSE BPut(BEmpty, k, 1).b>>
        /\ ents = <<[entry_key |-> k, ptr |-> 1]>>
        /\ store = [x \in Keys |-> IF x = k THEN 1 ELSE 0]
  BY DEF Init
<1>2. /\ kind \in Kinds /\ holed = FALSE /\ dirty = FALSE /\ changes = 0
      /\ last = [op |-> "new", had |-> FALSE, status |-> "OK"]
  BY DEF Init
<1>3. kind \in ThreeKinds /\ k \in 0 .. MaxKey /\ (k # 0 => k \in Keys) /\ MaxChanges \in Nat /\ InitPrefix \in 0 .. MaxKey
  BY <1>2, KindIs, PointerBEntryAssumption DEF Keys
<1>4. KClean(kind, BEmpty) /\ KPairs(kind, BEmpty) = {} /\ BEmpty.next = 0 /\ BEmpty.entries = 0
  BY <1>3, BEmptyIs
<1> DEFINE b == IF k = 0 THEN BEmpty ELSE BPut(BEmpty, k, 1).b
<1>5. KClean(kind, b) /\ b.next = 0 /\ KPairs(kind, b) = IF k = 0 THEN {} ELSE {[key |-> k, ptr |-> 1]}
  <2>1. CASE k = 0
    BY <1>4, <2>1
  <2>2. CASE k # 0
    <3>1. ~ (BEmpty.entries >= MaxEntries) /\ k \in Keys /\ 1 \in Values
      BY <1>3, <1>4, <2>2, Sizes DEF Values
    <3>2. \A r \in KPairs(kind, BEmpty) : r.key # k
      BY <1>4
    <3>3. LET c == BPut(BEmpty, k, 1).b
          IN  /\ KClean(kind, c) /\ c.next = BEmpty.next /\ c.entries = BEmpty.entries + 1
              /\ KPairs(kind, c) = KPairs(kind, BEmpty) \union {[key |-> k, ptr |-> 1]}
      BY <1>4, <3>1, <3>2, BPutClean
    <3>4. QED
      BY <1>4, <2>2, <3>3
  <2>3. QED
    BY <2>1, <2>2
<1>6. heap = <<b>>
  BY <1>1
<1> HIDE DEF b
<1>7. /\ Shape(heap, ents) /\ AllClean(kind, heap) /\ AllGood(kind, heap) /\ AllTyped(kind, heap)
      /\ Between(kind, heap, ents) /\ Agrees(kind, heap, ents, store)
  BY <1>1, <1>3, <1>5, <1>6, OneBucket
<1>8. Scalars
  <2>1. store \in [Keys -> 0 .. 2]
    BY <1>1
  <2>2. last.had = FALSE /\ last.status = "OK" /\ prefix \in {0, InitPrefix}
    BY <1>1, <1>2
  <2>3. holed \in BOOLEAN /\ dirty \in BOOLEAN /\ last.had \in BOOLEAN /\ last.status \in Statuses
    BY <1>2, <2>2, Zenon DEF Statuses
  <2>4. changes \in 0 .. MaxChanges
    BY <1>2, <1>3
  <2>5. QED
    BY <1>2, <2>1, <2>2, <2>3, <2>4, Zenon DEF Scalars
<1>9. QED
  BY <1>7, <1>8 DEF IInv

(* What the invariant gives a call. *)
LEMMA Before ==
  ASSUME IInv
  PROVE  /\ kind \in Kinds /\ prefix \in {0, InitPrefix} /\ store \in [Keys -> 0 .. 2]
         /\ holed \in BOOLEAN /\ dirty \in BOOLEAN /\ changes \in 0 .. MaxChanges
         /\ last.had \in BOOLEAN /\ last.status \in Statuses
         /\ Shape(heap, ents) /\ AllTyped(kind, heap)
         /\ ~dirty => /\ AllGood(kind, heap) /\ Between(kind, heap, ents)
                      /\ Agrees(kind, heap, ents, store)
         /\ ~dirty /\ ~holed => AllClean(kind, heap)
BY DEF IInv, Scalars

(* AdjustEntryKey keeps the invariant. *)
LEMMA AdjustStep ==
  ASSUME IInv, AdjustEntryKey
  PROVE  IInv'
<1>1. PICK key \in BMinKeys(Pointer(1)) : ents' = [ents EXCEPT ![1].entry_key = key]
  BY DEF AdjustEntryKey
<1>2. /\ dirty' = (dirty \/ Cardinality(BMinKeys(heap[ents[1].ptr])) > 1)
      /\ last' = [op |-> "adjust", had |-> FALSE, status |-> "OK"]
      /\ kind' = kind /\ prefix' = prefix /\ heap' = heap /\ store' = store
      /\ holed' = holed /\ changes' = changes
  BY DEF AdjustEntryKey, Pointer
<1>3. key \in BMinKeys(heap[ents[1].ptr])
  BY <1>1 DEF Pointer
<1>4. /\ key \in 0 .. MaxKey
      /\ AllGood(kind, heap) /\ ~ (Cardinality(BMinKeys(heap[ents[1].ptr])) > 1) =>
           \/ key = ents[1].entry_key
           \/ \E q \in Held(kind, heap, ents, 1) : q.key = key /\ \A t \in Held(kind, heap, ents, 1) : q.key <= t.key
  BY <1>3, Before, AdjustKey
<1>5. ReKeyed(heap, ents, key, ents')
  <2>1. ReKeyed(heap, ents, key, [ents EXCEPT ![1].entry_key = key])
    BY <1>4, Before, ReKey
  <2>2. QED
    BY <1>1, <2>1
<1>6. Shape(heap', ents') /\ AllTyped(kind', heap')
  BY <1>2, <1>5, Before DEF ReKeyed
<1>7. ASSUME ~ dirty'
      PROVE  /\ AllGood(kind', heap') /\ Between(kind', heap', ents') /\ Agrees(kind', heap', ents', store')
             /\ ~ holed' => AllClean(kind', heap')
  <2>1. ~dirty /\ ~ (Cardinality(BMinKeys(heap[ents[1].ptr])) > 1)
    BY <1>2, <1>7
  <2>2. Between(kind, heap, ents') /\ \A st : Agrees(kind, heap, ents, st) => Agrees(kind, heap, ents', st)
    BY <1>4, <1>5, <2>1, Before, Adjusted
  <2>3. QED
    BY <1>2, <2>1, <2>2, Before
<1>8. Scalars'
  <2>1. last'.had = FALSE /\ last'.status = "OK" /\ dirty' \in BOOLEAN
    BY <1>2
  <2>2. QED
    BY <1>2, <2>1, Before DEF Scalars, Statuses
<1>9. QED
  BY <1>6, <1>7, <1>8 DEF IInv

(* A Put with its splits keeps the invariant. *)
LEMMA PutStep ==
  ASSUME IInv, NEW k \in Keys, Put(k)
  PROVE  IInv'
<1> DEFINE s == [heap |-> heap, ents |-> ents]
           t == Retried(s, k)
           r == PutFrom(t, k, 1)
           full == t.heap[t.ents[FindPos(t.ents, k)].ptr].entries >= MaxEntries
           su == [store EXCEPT ![k] = 1]
<1>1. /\ ~dirty /\ store[k] = 0
      /\ heap' = r.heap /\ ents' = r.ents
      /\ store' = IF r.status = "OK" THEN su ELSE store
      /\ last' = [op |-> "put", had |-> store[k] # 0, status |-> r.status]
      /\ dirty' = (dirty \/ (kind = "sort" /\ holed))
      /\ kind' = kind /\ prefix' = prefix /\ holed' = holed /\ changes' = changes
  BY DEF Put
<1>2. /\ Shape(heap, ents) /\ AllGood(kind, heap) /\ Between(kind, heap, ents)
      /\ Agrees(kind, heap, ents, store) /\ store \in [Keys -> 0 .. 2]
  BY <1>1, Before
<1>3. /\ Shape(t.heap, t.ents) /\ Len(t.ents) <= Len(ents) + 1
      /\ AllGood(kind, t.heap) /\ Between(kind, t.heap, t.ents)
      /\ AllClean(kind, heap) => AllClean(kind, t.heap)
      /\ Agrees(kind, t.heap, t.ents, store)
      /\ full => t.heap = heap /\ t.ents = ents /\ Len(ents) = EntryCount
  BY <1>1, <1>2, RetriedGood
<1> HIDE DEF t
<1>4. /\ r.status = IF full THEN "Full" ELSE "OK"
      /\ full => r.heap = t.heap /\ r.ents = t.ents
      /\ Shape(r.heap, r.ents) /\ Len(r.ents) = Len(t.ents) /\ AllTyped(kind, r.heap)
      /\ ~full /\ (kind # "sort" \/ AllClean(kind, t.heap)) =>
           /\ AllGood(kind, r.heap) /\ Between(kind, r.heap, r.ents)
           /\ Agrees(kind, r.heap, r.ents, su)
           /\ AllClean(kind, t.heap) => AllClean(kind, r.heap)
  BY <1>1, <1>2, <1>3, PutGood
<1> HIDE DEF r, full
<1>5. Shape(heap', ents') /\ AllTyped(kind', heap')
  BY <1>1, <1>4
<1>6. su \in [Keys -> 0 .. 2]
  BY <1>2
<1> HIDE DEF su
<1>7. ASSUME ~dirty'
      PROVE  /\ AllGood(kind', heap') /\ Between(kind', heap', ents') /\ Agrees(kind', heap', ents', store')
             /\ ~ holed' => AllClean(kind', heap')
  <2>1. (kind # "sort" \/ AllClean(kind, t.heap)) /\ (~ holed' => AllClean(kind, heap))
    BY <1>1, <1>3, <1>7, Before
  <2>2. CASE full
    <3>1. r.status = "Full" /\ heap' = heap /\ ents' = ents
      BY <1>1, <1>3, <1>4, <2>2
    <3>2. store' = store
      BY <1>1, <3>1
    <3>3. QED
      BY <1>1, <1>2, <2>1, <3>1, <3>2
  <2>3. CASE ~full
    <3>1. r.status = "OK" /\ store' = su
      BY <1>1, <1>4, <2>3
    <3>2. QED
      BY <1>1, <1>3, <1>4, <2>1, <2>3, <3>1
  <2>4. QED
    BY <2>2, <2>3
<1>8. Scalars'
  <2>1. last'.status = r.status /\ r.status \in Statuses
    BY <1>1, <1>4 DEF Statuses
  <2>2. last'.had = (store[k] # 0)
    BY <1>1
  <2>3. last'.had \in BOOLEAN /\ dirty' \in BOOLEAN
    BY <1>1, <2>2, Zenon
  <2>4. store' \in [Keys -> 0 .. 2]
    BY <1>1, <1>2, <1>6
  <2>5. QED
    BY <1>1, <2>1, <2>3, <2>4, Before, Zenon DEF Scalars
<1>9. QED
  BY <1>5, <1>7, <1>8 DEF IInv

(* What Update and Delete have in common: the bucket of the key becomes c,  *)
(* with no pair more, and the value of the key v.                           *)
LEMMA ChangeStep ==
  ASSUME IInv, ~dirty, NEW k \in Keys, NEW v \in 0 .. 2, NEW c,
         KGood(kind, c), c.next = heap[ents[FindPos(ents, k)].ptr].next,
         \E q \in KPairs(kind, heap[ents[FindPos(ents, k)].ptr]) : q.key = k,
         \A t : t \in KPairs(kind, c) <=>
                  \/ t \in KPairs(kind, heap[ents[FindPos(ents, k)].ptr]) /\ t.key # k
                  \/ v # 0 /\ t = [key |-> k, ptr |-> v],
         NEW hq, hq = [heap EXCEPT ![ents[FindPos(ents, k)].ptr] = c]
  PROVE  /\ Shape(hq, ents) /\ AllTyped(kind, hq) /\ AllGood(kind, hq) /\ Between(kind, hq, ents)
         /\ Agrees(kind, hq, ents, [store EXCEPT ![k] = v])
         /\ AllClean(kind, heap) /\ KClean(kind, c) => AllClean(kind, hq)
<1> DEFINE p == FindPos(ents, k)
<1>1. /\ Shape(heap, ents) /\ AllGood(kind, heap) /\ Between(kind, heap, ents)
      /\ Agrees(kind, heap, ents, store) /\ store \in [Keys -> 0 .. 2]
  BY Before
<1>2. p \in 1 .. Len(ents) /\ c \in AllBuckets
  BY <1>1, PlaceIs, KStrength, KMember
<1>3. Replaced(heap, ents, p, c, hq)
  <2> HIDE DEF p
  <2>1. c.next = heap[ents[p].ptr].next /\ hq = [heap EXCEPT ![ents[p].ptr] = c]
    BY DEF p
  <2>2. Replaced(heap, ents, p, c, [heap EXCEPT ![ents[p].ptr] = c])
    BY <1>1, <1>2, <2>1, ReplaceBucket
  <2>3. QED
    BY <2>1, <2>2, Zenon
<1>4. /\ Shape(hq, ents) /\ Len(hq) = Len(heap)
      /\ \A m \in 1 .. Len(heap) : hq[m] = c \/ hq[m] = heap[m]
  BY <1>3 DEF Replaced
<1>5. /\ AllGood(kind, hq) /\ Between(kind, hq, ents)
      /\ Agrees(kind, hq, ents, [store EXCEPT ![k] = v])
  BY <1>1, <1>3, Changed
<1>6. AllTyped(kind, hq)
  BY <1>5, KStrength DEF AllTyped, AllGood
<1>7. AllClean(kind, heap) /\ KClean(kind, c) => AllClean(kind, hq)
  BY <1>4 DEF AllClean
<1>8. QED
  BY <1>4, <1>5, <1>6, <1>7

(* An Update keeps the invariant. *)
LEMMA UpdateStep ==
  ASSUME IInv, NEW k \in Keys, Update(k)
  PROVE  IInv'
<1> DEFINE i == ents[FindPos(ents, k)].ptr
           b == heap[i]
           r == BUpdate(b, k, 2)
           su == [store EXCEPT ![k] = 2]
<1>1. /\ ~dirty /\ changes < MaxChanges
      /\ heap' = [heap EXCEPT ![i] = r.b]
      /\ store' = IF r.status = "OK" THEN su ELSE store
      /\ last' = [op |-> "update", had |-> store[k] # 0, status |-> r.status]
      /\ changes' = changes + 1
      /\ kind' = kind /\ prefix' = prefix /\ ents' = ents /\ holed' = holed /\ dirty' = dirty
  BY DEF Update
<1>2. KGood(kind, b) /\ i \in 1 .. Len(heap) /\ heap \in Seq(AllBuckets)
  BY <1>1, Before, PlaceIs, ShapeParts
<1>3. /\ r.status \in {"OK", "NoExist"} /\ (r.status = "NoExist" => r.b = b)
      /\ r.status = "OK" =>
           /\ KGood(kind, r.b) /\ r.b.next = b.next
           /\ \E q \in KPairs(kind, b) : q.key = k
           /\ \A t : t \in KPairs(kind, r.b) <=> \/ t \in KPairs(kind, b) /\ t.key # k
                                                 \/ t = [key |-> k, ptr |-> 2]
      /\ KClean(kind, b) => KClean(kind, r.b)
  <2>1. 2 \in Values
    BY DEF Values
  <2> HIDE DEF b
  <2>2. QED
    BY <1>2, <2>1, BUpdateIs
<1> HIDE DEF r
<1>4. Scalars'
  <2>1. last'.status = r.status /\ r.status \in Statuses
    BY <1>1, <1>3 DEF Statuses
  <2>2. last'.had = (store[k] # 0)
    BY <1>1
  <2>3. last'.had \in BOOLEAN
    BY <2>2, Zenon
  <2>4. store' \in [Keys -> 0 .. 2]
    BY <1>1, Before
  <2>5. changes' \in 0 .. MaxChanges
    BY <1>1, Before, PointerBEntryAssumption
  <2>6. QED
    BY <1>1, <2>1, <2>3, <2>4, <2>5, Before, Zenon DEF Scalars
<1>5. CASE r.status = "OK"
  <2>1. /\ Shape(heap', ents) /\ AllTyped(kind, heap') /\ AllGood(kind, heap') /\ Between(kind, heap', ents)
        /\ Agrees(kind, heap', ents, su)
        /\ AllClean(kind, heap) /\ KClean(kind, r.b) => AllClean(kind, heap')
    <3>1. /\ KGood(kind, r.b) /\ r.b.next = b.next
          /\ \E q \in KPairs(kind, b) : q.key = k
          /\ \A t : t \in KPairs(kind, r.b) <=> \/ t \in KPairs(kind, b) /\ t.key # k
                                                \/ 2 # 0 /\ t = [key |-> k, ptr |-> 2]
      BY <1>3, <1>5
    <3>2. 2 \in 0 .. 2
      OBVIOUS
    <3>3. QED
      BY <1>1, <3>1, <3>2, ChangeStep
  <2>2. store' = su /\ su \in [Keys -> 0 .. 2]
    BY <1>1, <1>5, Before
  <2>3. ~holed => AllClean(kind, heap')
    <3>1. ~holed => AllClean(kind, heap) /\ KClean(kind, r.b)
      BY <1>1, <1>2, <1>3, Before DEF AllClean
    <3>2. QED
      BY <2>1, <3>1
  <2> HIDE DEF su
  <2>4. QED
    BY <1>1, <2>1, <2>2, <2>3, <1>4 DEF IInv
<1>6. CASE r.status = "NoExist"
  <2>1. heap' = heap
    <3>1. [heap EXCEPT ![i] = heap[i]] = heap
      BY <1>2
    <3>2. r.b = heap[i]
      BY <1>3, <1>6
    <3>3. QED
      BY <1>1, <3>1, <3>2
  <2>2. store' = store
    BY <1>1, <1>6
  <2>3. QED
    BY <1>1, <2>1, <2>2, <1>4, Before DEF IInv
<1>7. QED
  BY <1>3, <1>5, <1>6
(* A Delete keeps the invariant. *)
LEMMA DeleteStep ==
  ASSUME IInv, NEW k \in Keys, Delete(k)
  PROVE  IInv'
<1> DEFINE i == ents[FindPos(ents, k)].ptr
           b == heap[i]
           r == BDelete(b, k)
           su == [store EXCEPT ![k] = 0]
<1>1. /\ ~dirty /\ changes < MaxChanges
      /\ heap' = [heap EXCEPT ![i] = r.b]
      /\ store' = IF r.status = "OK" THEN su ELSE store
      /\ last' = [op |-> "delete", had |-> store[k] # 0, status |-> r.status]
      /\ changes' = changes + 1
      /\ holed' = (holed \/ r.status = "OK")
      /\ kind' = kind /\ prefix' = prefix /\ ents' = ents /\ dirty' = dirty
  BY DEF Delete
<1>2. KGood(kind, b) /\ i \in 1 .. Len(heap) /\ heap \in Seq(AllBuckets)
  BY <1>1, Before, PlaceIs, ShapeParts
<1>3. /\ r.status \in {"OK", "NoExist"} /\ (r.status = "NoExist" => r.b = b)
      /\ r.status = "OK" =>
           /\ KGood(kind, r.b) /\ r.b.next = b.next
           /\ \E q \in KPairs(kind, b) : q.key = k
           /\ \A t : t \in KPairs(kind, r.b) <=> t \in KPairs(kind, b) /\ t.key # k
  <2> HIDE DEF b
  <2>1. QED
    BY <1>2, BDeleteIs
<1> HIDE DEF r
<1>4. Scalars'
  <2>1. last'.status = r.status /\ r.status \in Statuses
    BY <1>1, <1>3 DEF Statuses
  <2>2. last'.had = (store[k] # 0)
    BY <1>1
  <2>3. last'.had \in BOOLEAN /\ holed' \in BOOLEAN
    BY <1>1, <2>2, Zenon
  <2>4. store' \in [Keys -> 0 .. 2]
    BY <1>1, Before
  <2>5. changes' \in 0 .. MaxChanges
    BY <1>1, Before, PointerBEntryAssumption
  <2>6. QED
    BY <1>1, <2>1, <2>3, <2>4, <2>5, Before, Zenon DEF Scalars
<1>5. CASE r.status = "OK"
  <2>1. /\ Shape(heap', ents) /\ AllTyped(kind, heap') /\ AllGood(kind, heap') /\ Between(kind, heap', ents)
        /\ Agrees(kind, heap', ents, su)
    <3>1. /\ KGood(kind, r.b) /\ r.b.next = b.next
          /\ \E q \in KPairs(kind, b) : q.key = k
          /\ \A t : t \in KPairs(kind, r.b) <=> \/ t \in KPairs(kind, b) /\ t.key # k
                                                \/ 0 # 0 /\ t = [key |-> k, ptr |-> 0]
      BY <1>3, <1>5
    <3>2. 0 \in 0 .. 2
      OBVIOUS
    <3>3. QED
      BY <1>1, <3>1, <3>2, ChangeStep
  <2>2. store' = su /\ su \in [Keys -> 0 .. 2]
    BY <1>1, <1>5, Before
  <2>3. holed' = TRUE
    BY <1>1, <1>5
  <2> HIDE DEF su
  <2>4. QED
    BY <1>1, <2>1, <2>2, <2>3, <1>4 DEF IInv
<1>6. CASE r.status = "NoExist"
  <2>1. heap' = heap
    <3>1. [heap EXCEPT ![i] = heap[i]] = heap
      BY <1>2
    <3>2. r.b = heap[i]
      BY <1>3, <1>6
    <3>3. QED
      BY <1>1, <3>1, <3>2
  <2>2. store' = store /\ holed' = holed
    <3>1. store' = store
      BY <1>1, <1>6
    <3>2. holed' = (holed \/ FALSE)
      BY <1>1, <1>6
    <3>3. QED
      BY <3>1, <3>2, Before
  <2>3. QED
    BY <1>1, <2>1, <2>2, <1>4, Before DEF IInv
<1>7. QED
  BY <1>3, <1>5, <1>6

(* So does every step. *)
LEMMA NextInv ==
  ASSUME IInv, [Next]_vars
  PROVE  IInv'
<1>1. CASE Next
  <2>1. ASSUME NEW k \in Keys, Put(k) PROVE IInv'
    BY <2>1, PutStep
  <2>2. ASSUME NEW k \in ChangeKeys, Update(k) \/ Delete(k) PROVE IInv'
    BY <2>2, UpdateStep, DeleteStep, PointerBEntryAssumption DEF Keys
  <2>3. CASE AdjustEntryKey
    BY <2>3, AdjustStep
  <2>4. QED
    BY <1>1, <2>1, <2>2, <2>3 DEF Next
<1>2. CASE UNCHANGED vars
  BY <1>2 DEF vars, IInv, Scalars
<1>3. QED
  BY <1>1, <1>2

(* The inductive invariant holds in every state.                            *)
THEOREM Invariant == Spec => []IInv
BY InitInv, NextInv, PTL DEF Spec

-----------------------------------------------------------------------------
(* What the runs check *)

(* The invariant has the types. *)
LEMMA InvTypeOK == IInv => TypeOK
<1> SUFFICES ASSUME IInv PROVE TypeOK
  OBVIOUS
<1>1. Shape(heap, ents) /\ AllTyped(kind, heap)
  BY Before
<1>2. /\ Len(heap) \in Nat /\ DOMAIN heap = 1 .. Len(heap) /\ DOMAIN ents = 1 .. Len(ents)
      /\ Len(ents) \in 1 .. EntryCount /\ Len(heap) = Len(ents)
  BY <1>1, ShapeParts DEF Shape
<1>3. \A i \in DOMAIN heap : heap[i].entries \in 0 .. MaxEntries
  BY <1>1, <1>2, KTypedIs DEF AllTyped
<1>4. \A i \in DOMAIN ents : ents[i].entry_key \in 0 .. MaxKey /\ ents[i].ptr \in DOMAIN heap
  BY <1>1, <1>2, ShapeParts
<1>5. {holed, dirty} \subseteq BOOLEAN
  BY Before, Zenon
<1>6. QED
  BY <1>2, <1>3, <1>4, <1>5, Before, Zenon DEF TypeOK

(* A lookup goes to the one bucket that can have the key. *)
LEMMA InvLookup == IInv => LookupAgrees
<1> SUFFICES ASSUME IInv, ~dirty, NEW k \in Keys PROVE Lookup(k) = store[k]
  BY DEF LookupAgrees
<1> DEFINE p == FindPos(ents, k)
           b == heap[ents[p].ptr]
<1>1. /\ Shape(heap, ents) /\ AllGood(kind, heap) /\ Between(kind, heap, ents)
      /\ Agrees(kind, heap, ents, store) /\ store \in [Keys -> 0 .. 2]
  BY Before
<1>2. /\ p \in 1 .. Len(ents) /\ KGood(kind, b)
      /\ \A i \in 1 .. Len(ents) : \A r \in Held(kind, heap, ents, i) : r.key = k => i = p
  BY <1>1, PlaceIs
<1>3. Lookup(k) = BGet(b, k)
  BY DEF Lookup, Pointer
<1>4. KPairs(kind, b) = Held(kind, heap, ents, p)
  BY DEF Held
<1> HIDE DEF p, b
<1>5. /\ \A r \in KPairs(kind, b) : r.key = k => BGet(b, k) = r.ptr
      /\ (\A r \in KPairs(kind, b) : r.key # k) => BGet(b, k) = 0
  BY <1>2, BGetIs
<1>6. CASE store[k] # 0
  <2>1. PICK i \in 1 .. Len(ents) : [key |-> k, ptr |-> store[k]] \in Held(kind, heap, ents, i)
    BY <1>1, <1>6 DEF Agrees
  <2>2. i = p
    BY <1>2, <2>1
  <2>3. QED
    BY <1>3, <1>4, <1>5, <2>1, <2>2
<1>7. CASE store[k] = 0
  <2>1. \A r \in KPairs(kind, b) : r.key # k
    BY <1>1, <1>2, <1>4, <1>7, Absent
  <2>2. QED
    BY <1>3, <1>5, <1>7, <2>1
<1>8. QED
  BY <1>6, <1>7

(* The entries, the chain and the counts agree with the buckets. *)
LEMMA InvMatch == IInv => EntriesMatchBuckets
<1> SUFFICES ASSUME IInv PROVE EntriesMatchBuckets
  OBVIOUS
<1>1. Shape(heap, ents) /\ AllTyped(kind, heap)
  BY Before
<1>2. /\ Len(heap) \in Nat /\ DOMAIN heap = 1 .. Len(heap) /\ DOMAIN ents = 1 .. Len(ents)
      /\ Len(heap) = Len(ents) /\ \A i \in 1 .. Len(ents) : ents[i].ptr \in 1 .. Len(heap)
  BY <1>1, ShapeParts DEF Shape
<1>3. \A i : Pointer(i) = heap[ents[i].ptr]
  BY DEF Pointer
<1>4. KeysBetweenEntries
  <2>1. SUFFICES ASSUME ~dirty, NEW i \in 1 .. Len(ents), NEW r \in Pairs(Pointer(i))
                 PROVE  /\ i > 1 => ents[i].entry_key <= r.key
                        /\ i < Len(ents) => r.key < ents[i + 1].entry_key
    BY <1>2 DEF KeysBetweenEntries
  <2>2. KGood(kind, heap[ents[i].ptr]) /\ Between(kind, heap, ents)
    BY <1>2, <2>1, Before DEF AllGood
  <2>3. r \in Held(kind, heap, ents, i)
    BY <1>3, <2>1, <2>2, PairsAre DEF Held
  <2>4. QED
    BY <2>2, <2>3 DEF Between
<1>5. ChainFollowsEntries
  <2>1. \A i \in 1 .. Len(ents) : heap[ents[i].ptr].next = IF i = Len(ents) THEN 0 ELSE ents[i + 1].ptr
    BY <1>1 DEF Shape
  <2>2. QED
    BY <1>2, <1>3, <2>1 DEF ChainFollowsEntries
<1>6. CountsAgree
  <2>1. ASSUME ~dirty, NEW i \in 1 .. Len(heap) PROVE heap[i].entries = Cardinality(Pairs(heap[i]))
    <3>1. KGood(kind, heap[i])
      BY <2>1, Before DEF AllGood
    <3>2. QED
      BY <3>1, PairsAre, KCount
  <2>2. ASSUME kind = "index", NEW i \in 1 .. Len(heap)
        PROVE  heap[i].bitmap = {heap[i].total_indexs[n] : n \in 0 .. heap[i].entries - 1}
    <3>1. XGood(heap[i])
      BY <1>1, <2>2, KCases DEF AllTyped
    <3>2. QED
      BY <3>1, Zenon DEF XGood
  <2>3. QED
    BY <1>2, <2>1, <2>2 DEF CountsAgree
<1>7. QED
  BY <1>4, <1>5, <1>6 DEF EntriesMatchBuckets

-----------------------------------------------------------------------------
(* What a call returns *)

StatusStep ==
  /\ (last'.op \in {"update", "delete"} /\ ~(kind = "sort" /\ holed))
        => (last'.status = "OK" <=> last'.had)
  /\ last'.op = "put" =>
        /\ Len(ents') <= Len(ents) + 1
        /\ last'.status = "Full" => (Len(ents) = EntryCount /\ ents' = ents /\ heap' = heap)

(* The bucket of a key has a pair for it exactly when the key is there. *)
LEMMA HadIs ==
  ASSUME IInv, ~dirty, NEW k \in Keys
  PROVE  LET b == heap[ents[FindPos(ents, k)].ptr]
         IN  /\ KGood(kind, b) /\ (~ (kind = "sort" /\ holed) => KClean(kind, b))
             /\ store[k] # 0 <=> \E q \in KPairs(kind, b) : q.key = k
<1> DEFINE p == FindPos(ents, k)
           b == heap[ents[p].ptr]
<1>1. /\ Shape(heap, ents) /\ AllGood(kind, heap) /\ Between(kind, heap, ents)
      /\ Agrees(kind, heap, ents, store) /\ (~holed => AllClean(kind, heap))
  BY Before
<1>2. /\ p \in 1 .. Len(ents) /\ KGood(kind, b)
      /\ \A i \in 1 .. Len(ents) : \A r \in Held(kind, heap, ents, i) : r.key = k => i = p
  BY <1>1, PlaceIs
<1>3. ents[p].ptr \in 1 .. Len(heap)
  BY <1>1, <1>2, ShapeParts
<1>4. KPairs(kind, b) = Held(kind, heap, ents, p)
  BY DEF Held
<1>5. ~ (kind = "sort" /\ holed) => KClean(kind, b)
  <2>1. ~holed => KClean(kind, b)
    BY <1>1, <1>3 DEF AllClean
  <2>2. kind # "sort" => KClean(kind, b)
    BY <1>2, KStrength
  <2>3. QED
    BY <2>1, <2>2
<1> HIDE DEF p, b
<1>6. ASSUME store[k] # 0 PROVE \E q \in KPairs(kind, b) : q.key = k
  <2>1. PICK i \in 1 .. Len(ents) : [key |-> k, ptr |-> store[k]] \in Held(kind, heap, ents, i)
    BY <1>1, <1>6 DEF Agrees
  <2>2. QED
    BY <1>2, <1>4, <2>1
<1>7. ASSUME store[k] = 0 PROVE \A q \in KPairs(kind, b) : q.key # k
  BY <1>1, <1>2, <1>4, <1>7, Absent
<1>8. QED
  BY <1>2, <1>5, <1>6, <1>7 DEF b, p

(* What every call returns. *)
LEMMA InvStatus ==
  ASSUME IInv, Next
  PROVE  StatusStep
<1>1. ASSUME NEW k \in Keys, Put(k) PROVE StatusStep
  <2> DEFINE s == [heap |-> heap, ents |-> ents]
             t == Retried(s, k)
             r == PutFrom(t, k, 1)
             full == t.heap[t.ents[FindPos(t.ents, k)].ptr].entries >= MaxEntries
  <2>1. /\ ~dirty /\ store[k] = 0 /\ heap' = r.heap /\ ents' = r.ents
        /\ last' = [op |-> "put", had |-> store[k] # 0, status |-> r.status]
    BY <1>1 DEF Put
  <2>2. /\ Shape(heap, ents) /\ AllGood(kind, heap) /\ Between(kind, heap, ents)
        /\ Agrees(kind, heap, ents, store) /\ store \in [Keys -> 0 .. 2]
    BY <2>1, Before
  <2>3. /\ Shape(t.heap, t.ents) /\ Len(t.ents) <= Len(ents) + 1
        /\ AllGood(kind, t.heap) /\ Between(kind, t.heap, t.ents)
        /\ Agrees(kind, t.heap, t.ents, store)
        /\ full => t.heap = heap /\ t.ents = ents /\ Len(ents) = EntryCount
    BY <2>1, <2>2, RetriedGood
  <2> HIDE DEF t
  <2>4. /\ r.status = IF full THEN "Full" ELSE "OK"
        /\ full => r.heap = t.heap /\ r.ents = t.ents
        /\ Len(r.ents) = Len(t.ents)
    BY <2>1, <2>2, <2>3, PutGood
  <2> HIDE DEF r, full
  <2>5. last'.op = "put" /\ last'.status = r.status
    BY <2>1
  <2>6. last'.status = "Full" => full
    BY <2>4, <2>5
  <2>7. QED
    BY <2>1, <2>3, <2>4, <2>5, <2>6 DEF StatusStep
<1>2. ASSUME NEW k \in Keys, Update(k) PROVE StatusStep
  <2> DEFINE b == heap[ents[FindPos(ents, k)].ptr]
             r == BUpdate(b, k, 2)
  <2>1. ~dirty /\ last' = [op |-> "update", had |-> store[k] # 0, status |-> r.status]
    BY <1>2 DEF Update
  <2>2. /\ KGood(kind, b) /\ (~ (kind = "sort" /\ holed) => KClean(kind, b))
        /\ store[k] # 0 <=> \E q \in KPairs(kind, b) : q.key = k
    BY <2>1, HadIs
  <2> HIDE DEF b
  <2>3. /\ r.status = "OK" => \E q \in KPairs(kind, b) : q.key = k
        /\ KClean(kind, b) /\ (\E q \in KPairs(kind, b) : q.key = k) => r.status = "OK"
    <3>1. 2 \in Values
      BY DEF Values
    <3>2. QED
      BY <2>2, <3>1, BUpdateIs
  <2> HIDE DEF r
  <2>4. last'.op = "update" /\ last'.status = r.status /\ (last'.had <=> store[k] # 0)
    BY <2>1
  <2>5. QED
    BY <2>2, <2>3, <2>4 DEF StatusStep
<1>3. ASSUME NEW k \in Keys, Delete(k) PROVE StatusStep
  <2> DEFINE b == heap[ents[FindPos(ents, k)].ptr]
             r == BDelete(b, k)
  <2>1. ~dirty /\ last' = [op |-> "delete", had |-> store[k] # 0, status |-> r.status]
    BY <1>3 DEF Delete
  <2>2. /\ KGood(kind, b) /\ (~ (kind = "sort" /\ holed) => KClean(kind, b))
        /\ store[k] # 0 <=> \E q \in KPairs(kind, b) : q.key = k
    BY <2>1, HadIs
  <2> HIDE DEF b
  <2>3. /\ r.status = "OK" => \E q \in KPairs(kind, b) : q.key = k
        /\ KClean(kind, b) /\ (\E q \in KPairs(kind, b) : q.key = k) => r.status = "OK"
    BY <2>2, BDeleteIs
  <2> HIDE DEF r
  <2>4. last'.op = "delete" /\ last'.status = r.status /\ (last'.had <=> store[k] # 0)
    BY <2>1
  <2>5. QED
    BY <2>2, <2>3, <2>4 DEF StatusStep
<1>4. CASE AdjustEntryKey
  <2>1. last'.op = "adjust"
    BY <1>4 DEF AdjustEntryKey
  <2>2. QED
    BY <2>1 DEF StatusStep
<1>5. QED
  BY <1>1, <1>2, <1>3, <1>4, PointerBEntryAssumption DEF Next, Keys

-----------------------------------------------------------------------------
(* What the iterators yield *)

(* One after the other. *)
LEMMA AscendsConcat ==
  ASSUME NEW s, NEW R, Ascends(s, R), NEW t, NEW T, Ascends(t, T),
         \A r \in R : \A u \in T : r.key < u.key,
         NEW V, \A r : r \in V <=> r \in R \/ r \in T
  PROVE  Ascends(s \o t, V)
<1> DEFINE m == Len(s)
           n == Len(t)
           z == s \o t
<1>1. /\ s \in Seq(Pair) /\ \A r : r \in R <=> \E i \in 1 .. m : r = s[i]
      /\ t \in Seq(Pair) /\ \A r : r \in T <=> \E i \in 1 .. n : r = t[i]
      /\ \A i, j \in 1 .. m : i < j => s[i].key < s[j].key
      /\ \A i, j \in 1 .. n : i < j => t[i].key < t[j].key
  BY DEF Ascends, Range
<1>2. m \in Nat /\ n \in Nat
  BY <1>1
<1>3. /\ z \in Seq(Pair) /\ Len(z) = m + n
      /\ \A i \in 1 .. m + n : /\ i <= m => z[i] = s[i]
                               /\ i > m => z[i] = t[i - m]
  BY <1>1
<1> HIDE DEF m, n, z
<1>4. \A i \in 1 .. m + n : /\ i <= m => i \in 1 .. m
                            /\ i > m => i - m \in 1 .. n
  BY <1>2
<1>5. Range(z) = V
  <2>0. DOMAIN z = 1 .. m + n
    BY <1>3
  <2>1. ASSUME NEW r \in V PROVE \E i \in 1 .. m + n : r = z[i]
    <3>1. CASE r \in R
      <4>1. PICK i \in 1 .. m : r = s[i]
        BY <1>1, <3>1
      <4>2. i \in 1 .. m + n /\ i <= m
        BY <1>2
      <4>3. QED
        BY <1>3, <4>1, <4>2
    <3>2. CASE r \in T
      <4>1. PICK i \in 1 .. n : r = t[i]
        BY <1>1, <3>2
      <4> DEFINE j == m + i
      <4>2. j \in 1 .. m + n /\ j > m /\ j - m = i
        BY <1>2
      <4> HIDE DEF j
      <4>3. z[j] = t[i]
        BY <1>3, <4>2
      <4>4. QED
        BY <4>1, <4>2, <4>3
    <3>3. QED
      BY <2>1, <3>1, <3>2
  <2>2. ASSUME NEW i \in 1 .. m + n PROVE z[i] \in V
    <3>1. CASE i <= m
      BY <1>1, <1>3, <1>4, <3>1
    <3>2. CASE i > m
      BY <1>1, <1>3, <1>4, <3>2
    <3>3. QED
      BY <1>2, <3>1, <3>2
  <2>3. QED
    BY <2>0, <2>1, <2>2 DEF Range
<1>6. ASSUME NEW i \in 1 .. m + n, NEW j \in 1 .. m + n, i < j PROVE z[i].key < z[j].key
  <2>1. CASE j <= m
    <3>1. i <= m
      BY <1>2, <1>6, <2>1
    <3>2. QED
      BY <1>1, <1>3, <1>4, <1>6, <2>1, <3>1
  <2>2. CASE i > m
    <3>1. j > m /\ i - m < j - m
      BY <1>2, <1>6, <2>2
    <3>2. QED
      BY <1>1, <1>3, <1>4, <2>2, <3>1
  <2>3. CASE i <= m /\ j > m
    <3>1. z[i] \in R /\ z[j] \in T
      BY <1>1, <1>3, <1>4, <2>3
    <3>2. QED
      BY <3>1
  <2>4. QED
    BY <1>2, <2>1, <2>2, <2>3
<1>7. QED
  BY <1>3, <1>5, <1>6 DEF Ascends, z

(* FlattenSeq, as SequencesExt has it: g holds the first j rows. *)
LEMMA FlattenIs ==
  ASSUME NEW Q \in Seq(Seq(Pair)), Len(Q) # 0
  PROVE  \E g : /\ g[1] = Q[1] /\ FlattenSeq(Q) = g[Len(Q)]
                /\ \A j \in 2 .. Len(Q) : g[j] = g[j - 1] \o Q[j]
<1> DEFINE n == Len(Q)
           B == Seq(Pair)
           P(g) == g = [i \in 1 .. n |-> IF i = 1 THEN Q[i] ELSE g[i - 1] \o Q[i]]
           F == [t \in B \X (2 .. n) |-> t[1] \o Q[t[2]]]
<1>1. n \in Nat /\ n >= 1 /\ \A i \in 1 .. n : Q[i] \in B
  OBVIOUS
<1>2. FlattenSeq(Q) = (CHOOSE g : P(g))[n]
  BY DEF FlattenSeq
<1> HIDE DEF n, B
<1>3. F \in [B \X (2 .. n) -> B]
  <2>1. ASSUME NEW t \in B \X (2 .. n) PROVE t[1] \o Q[t[2]] \in B
    <3>1. t[1] \in B /\ t[2] \in 1 .. n
      BY <1>1
    <3>2. Q[t[2]] \in B
      BY <1>1, <3>1
    <3>3. QED
      BY <3>1, <3>2 DEF B
  <2>2. QED
    BY <2>1
<1>4. PICK g : Steps(g, 1, n, B, Q[1], F)
  <2>1. 1 \in Int /\ n \in Int /\ 1 <= n /\ Q[1] \in B
    BY <1>1
  <2>2. F \in [B \X (1 + 1 .. n) -> B]
    BY <1>3
  <2> HIDE DEF F
  <2>3. QED
    BY <2>1, <2>2, StepsExist
<1>5. P(g)
  <2>1. ASSUME NEW j \in 1 .. n
        PROVE  (IF j = 1 THEN Q[1] ELSE F[<<g[j - 1], j>>]) = IF j = 1 THEN Q[j] ELSE g[j - 1] \o Q[j]
    <3>1. CASE j = 1
      BY <3>1
    <3>2. CASE j # 1
      <4>1. j \in 2 .. n /\ j - 1 \in 1 .. n
        BY <1>1, <3>2
      <4>2. g[j - 1] \in B
        BY <1>4, <4>1 DEF Steps
      <4> DEFINE t == <<g[j - 1], j>>
      <4>3. t \in B \X (2 .. n) /\ t[1] = g[j - 1] /\ t[2] = j
        BY <4>1, <4>2
      <4> HIDE DEF t
      <4>4. F[t] = t[1] \o Q[t[2]]
        BY <4>3
      <4>5. QED
        BY <3>2, <4>3, <4>4 DEF t
    <3>3. QED
      BY <3>1, <3>2
  <2>2. g = [j \in 1 .. n |-> IF j = 1 THEN Q[1] ELSE F[<<g[j - 1], j>>]]
    BY <1>4 DEF Steps
  <2> HIDE DEF F
  <2>3. QED
    BY <2>1, <2>2
<1>6. P(CHOOSE h : P(h))
  <2> HIDE DEF P
  <2>1. QED
    BY <1>5
<1> DEFINE c == CHOOSE h : P(h)
<1>7. P(c) /\ FlattenSeq(Q) = c[n]
  BY <1>2, <1>6
<1> HIDE DEF c
<1>8. c[1] = Q[1] /\ \A j \in 2 .. n : c[j] = c[j - 1] \o Q[j]
  <2>1. \A j \in 1 .. n : c[j] = IF j = 1 THEN Q[j] ELSE c[j - 1] \o Q[j]
    BY <1>7
  <2>2. 1 \in 1 .. n /\ \A j \in 2 .. n : j \in 1 .. n /\ j # 1
    BY <1>1
  <2>3. QED
    BY <2>1, <2>2
<1>9. QED
  BY <1>7, <1>8 DEF n

(* Ascending rows, each before the next, make one ascending row. *)
LEMMA FlattenAscends ==
  ASSUME NEW Q \in Seq(Seq(Pair)),
         \A i \in 1 .. Len(Q) : Ascends(Q[i], Range(Q[i])),
         \A i, j \in 1 .. Len(Q) : i < j => \A r \in Range(Q[i]) : \A t \in Range(Q[j]) : r.key < t.key,
         NEW R, \A r : r \in R <=> \E i \in 1 .. Len(Q) : r \in Range(Q[i])
  PROVE  Ascends(FlattenSeq(Q), R)
<1> DEFINE n == Len(Q)
           Upto(j) == {r \in Pair : \E i \in 1 .. j : r \in Range(Q[i])}
<1>1. n \in Nat /\ \A i \in 1 .. n : \A r \in Range(Q[i]) : r \in Pair
  BY DEF Ascends, Range
<1>2. CASE n = 0
  <2>1. FlattenSeq(Q) = Q
    BY <1>2 DEF FlattenSeq
  <2>2. Q = << >>
    BY <1>2
  <2>3. << >> \in Seq(Pair) /\ Len(<< >>) = 0 /\ Range(<< >>) = {}
    BY DEF Range
  <2>4. R = {}
    BY <1>2
  <2>5. QED
    BY <2>1, <2>2, <2>3, <2>4 DEF Ascends
<1>3. CASE n # 0
  <2>1. PICK g : /\ g[1] = Q[1] /\ FlattenSeq(Q) = g[n]
                 /\ \A j \in 2 .. n : g[j] = g[j - 1] \o Q[j]
    BY <1>3, FlattenIs
  <2> DEFINE G == {j \in 1 .. n : Ascends(g[j], Upto(j))}
  <2>2. /\ \A i \in 1 .. n : Ascends(Q[i], Range(Q[i]))
        /\ \A i, j \in 1 .. n : i < j => \A r \in Range(Q[i]) : \A t \in Range(Q[j]) : r.key < t.key
    OBVIOUS
  <2> HIDE DEF n
  <2>3. 1 \in G
    <3>1. 1 \in 1 .. n /\ \A i \in 1 .. 1 : i = 1
      BY <1>1, <1>3
    <3>2. Upto(1) = Range(Q[1])
      BY <1>1, <3>1
    <3> HIDE DEF Upto
    <3>3. QED
      BY <2>1, <2>2, <3>1, <3>2
  <2>4. ASSUME NEW j \in 1 .. n - 1, j \in G PROVE j + 1 \in G
    <3>1. j + 1 \in 2 .. n /\ j + 1 - 1 = j /\ j + 1 \in 1 .. n
      BY <1>1
    <3>2. g[j + 1] = g[j] \o Q[j + 1]
      <4> DEFINE k == j + 1
      <4>1. k \in 2 .. n /\ k - 1 = j
        BY <3>1
      <4> HIDE DEF k
      <4>2. g[k] = g[k - 1] \o Q[k]
        BY <2>1, <4>1
      <4>3. QED
        BY <4>1, <4>2 DEF k
    <3>3. \A r \in Upto(j) : \A t \in Range(Q[j + 1]) : r.key < t.key
      <4>1. \A i \in 1 .. j : i \in 1 .. n /\ i < j + 1
        BY <1>1
      <4>2. QED
        BY <2>2, <3>1, <4>1
    <3>4. \A r : r \in Upto(j + 1) <=> r \in Upto(j) \/ r \in Range(Q[j + 1])
      <4>1. \A i : i \in 1 .. j + 1 <=> i \in 1 .. j \/ i = j + 1
        BY <1>1
      <4>2. QED
        BY <1>1, <3>1, <4>1
    <3>5. Ascends(g[j], Upto(j))
      BY <2>4
    <3> HIDE DEF Upto
    <3>6. Ascends(g[j + 1], Upto(j + 1))
      BY <2>2, <3>1, <3>2, <3>3, <3>4, <3>5, AscendsConcat
    <3>7. QED
      BY <3>1, <3>6
  <2>5. n \in G
    <3> HIDE DEF G
    <3>1. \A j \in 1 .. n : j \in G
      BY <1>1, <1>3, <2>3, <2>4, InductFrom
    <3>2. QED
      BY <1>1, <1>3, <3>1
  <2>6. Upto(n) = R
    BY <1>1 DEF n
  <2> HIDE DEF Upto
  <2>7. QED
    BY <2>1, <2>5, <2>6
<1>4. QED
  BY <1>2, <1>3

(* While nothing is exempt: every bucket gives its pairs in key order, and *)
(* has some.                                                               *)
InFull ==
  /\ Shape(heap, ents) /\ AllClean(kind, heap) /\ AllGood(kind, heap)
  /\ Between(kind, heap, ents) /\ Agrees(kind, heap, ents, store)
  /\ \A i \in 1 .. Len(ents) : Held(kind, heap, ents, i) # {}

(* The iterator in one bucket. *)
LEMMA VisitIs ==
  ASSUME InFull, NEW i \in 1 .. Len(ents)
  PROVE  Ascends(Visit(i), Held(kind, heap, ents, i)) /\ KClean(kind, Pointer(i))
<1>1. ents[i].ptr \in 1 .. Len(heap)
  BY ShapeParts DEF InFull
<1>2. KClean(kind, heap[ents[i].ptr])
  BY <1>1 DEF InFull, AllClean
<1>3. Ascends(BIter(Pointer(i)), Held(kind, heap, ents, i))
  BY <1>2, BIterIs DEF Pointer, Held
<1>4. BIter(Pointer(i)) # << >>
  <2>1. Range(BIter(Pointer(i))) # {}
    BY <1>3 DEF Ascends, InFull
  <2>2. Range(<< >>) = {}
    BY DEF Range
  <2>3. QED
    BY <2>1, <2>2
<1>5. QED
  BY <1>2, <1>3, <1>4 DEF Visit, Pointer

(* The keys ascend from entry to entry. *)
LEMMA HeldAscend ==
  ASSUME InFull, NEW i \in 1 .. Len(ents), NEW j \in 1 .. Len(ents), i < j,
         NEW r \in Held(kind, heap, ents, i), NEW t \in Held(kind, heap, ents, j)
  PROVE  r.key < t.key
<1> DEFINE n == Len(ents)
<1>1. n \in Nat /\ \A m \in 1 .. n : ents[m].entry_key \in Int
  BY ShapeParts DEF InFull
<1>2. r.key \in Int /\ t.key \in Int
  BY HeldParts DEF InFull
<1>3. /\ \A l, m \in 1 .. n : l < m => ents[l].entry_key < ents[m].entry_key
      /\ \A m \in 1 .. n : \A q \in Held(kind, heap, ents, m) :
           /\ ents[m].entry_key <= q.key
           /\ m < n => q.key < ents[m + 1].entry_key
  BY DEF InFull, Between
<1> HIDE DEF n
<1>4. i \in 1 .. n /\ j \in 1 .. n
  BY DEF n
<1>5. i < n /\ i + 1 \in 1 .. n /\ (i + 1 < j \/ i + 1 = j)
  BY <1>1, <1>4
<1>6. r.key < ents[i + 1].entry_key /\ ents[j].entry_key <= t.key
  BY <1>3, <1>4, <1>5
<1>7. i + 1 < j => ents[i + 1].entry_key < ents[j].entry_key
  BY <1>3, <1>4, <1>5
<1>8. ents[i + 1].entry_key \in Int /\ ents[j].entry_key \in Int
  BY <1>1, <1>4, <1>5
<1>9. QED
  BY <1>2, <1>5, <1>6, <1>7, <1>8

(* The iterator from the bucket behind entry pos on. *)
LEMMA VisitAfterIs ==
  ASSUME InFull, NEW pos \in 0 .. Len(ents), NEW R,
         \A r : r \in R <=> \E i \in pos + 1 .. Len(ents) : r \in Held(kind, heap, ents, i)
  PROVE  Ascends(VisitAfter(pos), R)
<1> DEFINE n == Len(ents)
           m == n - pos
           Q == [i \in 1 .. m |-> Visit(pos + i)]
           O(i) == Held(kind, heap, ents, i)
<1>1. n \in Nat /\ pos \in 0 .. n
  BY ShapeParts DEF InFull
<1>2. \A r : r \in R <=> \E i \in pos + 1 .. n : r \in O(i)
  OBVIOUS
<1>3. \A i \in 1 .. n : Ascends(Visit(i), O(i))
  BY VisitIs
<1>4. \A i, j \in 1 .. n : i < j => \A r \in O(i) : \A t \in O(j) : r.key < t.key
  BY HeldAscend
<1>5. VisitAfter(pos) = FlattenSeq(Q)
  BY DEF VisitAfter
<1> HIDE DEF n, O
<1>6. m \in Nat /\ \A i \in 1 .. m : pos + i \in pos + 1 .. n /\ pos + i \in 1 .. n
  BY <1>1
<1> HIDE DEF m
<1>7. \A i \in 1 .. m : Visit(pos + i) \in Seq(Pair) /\ Range(Visit(pos + i)) = O(pos + i)
  BY <1>3, <1>6 DEF Ascends
<1>8. Q \in Seq(Seq(Pair)) /\ Len(Q) = m
  <2>1. Q \in [1 .. m -> Seq(Pair)]
    BY <1>7
  <2> HIDE DEF Q
  <2>2. QED
    BY <1>6, <2>1, FunctionSeq
<1>9. \A i \in 1 .. m : Q[i] = Visit(pos + i)
  OBVIOUS
<1> HIDE DEF Q
<1>10. \A i \in 1 .. m : Ascends(Q[i], Range(Q[i])) /\ Range(Q[i]) = O(pos + i)
  BY <1>3, <1>6, <1>7, <1>9
<1>11. ASSUME NEW i \in 1 .. m, NEW j \in 1 .. m, i < j, NEW r \in Range(Q[i]), NEW t \in Range(Q[j])
       PROVE  r.key < t.key
  <2>1. pos + i < pos + j
    BY <1>1, <1>6, <1>11
  <2>2. r \in O(pos + i) /\ t \in O(pos + j)
    BY <1>10, <1>11
  <2>3. QED
    BY <1>4, <1>6, <2>1, <2>2
<1>12. \A r : r \in R <=> \E i \in 1 .. m : r \in Range(Q[i])
  <2>1. ASSUME NEW i \in pos + 1 .. n PROVE i - pos \in 1 .. m /\ pos + (i - pos) = i
    BY <1>1 DEF m
  <2>2. ASSUME NEW r, NEW i \in pos + 1 .. n, r \in O(i) PROVE \E j \in 1 .. m : r \in Range(Q[j])
    BY <1>10, <2>1, <2>2
  <2>3. ASSUME NEW r, NEW j \in 1 .. m, r \in Range(Q[j]) PROVE \E i \in pos + 1 .. n : r \in O(i)
    BY <1>6, <1>10, <2>3
  <2>4. QED
    BY <1>2, <2>2, <2>3
<1>13. Ascends(FlattenSeq(Q), R)
  BY <1>8, <1>10, <1>11, <1>12, FlattenAscends
<1>14. QED
  BY <1>5, <1>13

(* The pairs in the buckets are the map, from any key on. *)
LEMMA MapFrom ==
  ASSUME InFull, store \in [Keys -> 0 .. 2], NEW k, NEW s, NEW R, Ascends(s, R),
         \A r : r \in R <=> r.key >= k /\ \E i \in 1 .. Len(ents) : r \in Held(kind, heap, ents, i)
  PROVE  InOrder(s, k)
<1> DEFINE M == {[key |-> x, ptr |-> store[x]] : x \in {y \in Keys : y >= k /\ store[y] # 0}}
           n == Len(ents)
           O(i) == Held(kind, heap, ents, i)
<1>1. /\ \A i \in 1 .. n : \A r \in O(i) : store[r.key] = r.ptr
      /\ \A x \in Keys : store[x] # 0 => \E i \in 1 .. n : [key |-> x, ptr |-> store[x]] \in O(i)
  BY DEF InFull, Agrees
<1>2. \A i \in 1 .. n : \A r \in O(i) : r \in Pair /\ r.key \in Keys /\ r.ptr # 0
                                        /\ r = [key |-> r.key, ptr |-> r.ptr]
  BY HeldParts, PairParts DEF InFull
<1>3. \A r : r \in R <=> r.key >= k /\ \E i \in 1 .. n : r \in O(i)
  OBVIOUS
<1> HIDE DEF n, O
<1>4. ASSUME NEW r \in R PROVE r \in M
  <2>1. PICK i \in 1 .. n : r \in O(i)
    BY <1>3, <1>4
  <2>2. r.key \in Keys /\ r.key >= k /\ store[r.key] # 0 /\ r = [key |-> r.key, ptr |-> store[r.key]]
    BY <1>1, <1>2, <1>3, <1>4, <2>1
  <2>3. QED
    BY <2>2
<1>5. ASSUME NEW x \in Keys, x >= k, store[x] # 0 PROVE [key |-> x, ptr |-> store[x]] \in R
  <2>1. PICK i \in 1 .. n : [key |-> x, ptr |-> store[x]] \in O(i)
    BY <1>1, <1>5
  <2>2. [key |-> x, ptr |-> store[x]].key >= k
    BY <1>5
  <2>3. QED
    BY <1>3, <2>1, <2>2
<1>6. R = M
  BY <1>4, <1>5
<1>7. Range(s) = R /\ \A i, j \in DOMAIN s : i < j => s[i].key < s[j].key
  BY DEF Ascends
<1>8. QED
  BY <1>6, <1>7 DEF InOrder

(* The iterator over all buckets yields the map. *)
LEMMA IterAllIs ==
  ASSUME InFull, store \in [Keys -> 0 .. 2]
  PROVE  InOrder(IterAll, 1)
<1> DEFINE n == Len(ents)
           O(i) == Held(kind, heap, ents, i)
           R == {r \in Pair : \E i \in 1 .. n : r \in O(i)}
<1>1. n \in Nat /\ \A i \in 1 .. n : \A r \in O(i) : r \in Pair /\ r.key >= 1
  BY ShapeParts, HeldParts, PairParts DEF InFull
<1>2. \A r : r \in R <=> \E i \in 1 .. n : r \in O(i)
  BY <1>1
<1>3. \A r : r \in R <=> r.key >= 1 /\ \E i \in 1 .. n : r \in O(i)
  BY <1>1
<1> HIDE DEF R
<1>4. Ascends(VisitAfter(0), R)
  <2>1. 0 \in 0 .. Len(ents) /\ 0 + 1 = 1
    BY <1>1
  <2>2. \A r : r \in R <=> \E i \in 0 + 1 .. Len(ents) : r \in Held(kind, heap, ents, i)
    BY <1>2, <2>1
  <2>3. QED
    BY <2>1, <2>2, VisitAfterIs
<1>5. QED
  BY <1>3, <1>4, MapFrom DEF IterAll

(* The iterator from a key yields the map from there on. *)
LEMMA IterFromIs ==
  ASSUME InFull, store \in [Keys -> 0 .. 2], prefix \in {0, InitPrefix}, NEW k \in Keys,
         k > prefix \/ FindPos(ents, k) > 1
  PROVE  InOrder(IterFrom(k), k)
<1> DEFINE n == Len(ents)
           p == FindPos(ents, k)
           w == IF p = 1 THEN prefix ELSE 0
           O(i) == Held(kind, heap, ents, i)
           A == {r \in O(p) : r.key >= k}
           B == {r \in Pair : \E i \in p + 1 .. n : r \in O(i)}
           s == BIterFrom(Pointer(p), k, w)
<1>1. /\ n \in Nat /\ k \in Int /\ k >= 1
      /\ \A i \in 1 .. n : ents[i].entry_key \in Int
      /\ \A i \in 1 .. n : \A r \in O(i) : r \in Pair /\ r.key \in Int
  BY ShapeParts, HeldParts, Sizes DEF InFull
<1>2. /\ p \in 1 .. n
      /\ p > 1 => ents[p].entry_key <= k
      /\ p < n => k < ents[p + 1].entry_key
  BY PlaceIs DEF InFull
<1>3. /\ \A i, j \in 1 .. n : i < j => ents[i].entry_key < ents[j].entry_key
      /\ \A i \in 1 .. n : \A r \in O(i) : /\ ents[i].entry_key <= r.key
                                           /\ i < n => r.key < ents[i + 1].entry_key
  BY DEF InFull, Between
<1>4. KClean(kind, Pointer(p)) /\ O(p) = KPairs(kind, Pointer(p))
  BY <1>2, VisitIs DEF Held, Pointer
<1>5. IterFrom(k) = s \o VisitAfter(p)
  BY DEF IterFrom
<1>6. ~ (k <= w)
  BY <1>1, <1>2, PointerBEntryAssumption
<1> HIDE DEF p, w, n
<1>7. Ascends(s, A)
  <2>1. \A r : r \in A <=> r \in KPairs(kind, Pointer(p)) /\ r.key >= k
    BY <1>4
  <2> HIDE DEF A
  <2>2. QED
    BY <1>4, <1>6, <2>1, BIterFromIs
<1>8. \A i \in p + 1 .. n : i \in 1 .. n /\ i > p /\ p < n
  BY <1>1, <1>2
<1>9. ASSUME NEW i \in p + 1 .. n, NEW r \in O(i) PROVE r.key >= k /\ r \in Pair
  <2>1. i \in 1 .. n /\ p < n /\ p + 1 \in 1 .. n /\ (p + 1 = i \/ p + 1 < i)
    BY <1>1, <1>2, <1>8
  <2>2. ents[p + 1].entry_key <= ents[i].entry_key
    BY <1>1, <1>3, <2>1
  <2>3. k < ents[p + 1].entry_key /\ ents[i].entry_key <= r.key
    BY <1>2, <1>3, <1>9, <2>1
  <2>4. QED
    BY <1>1, <2>1, <2>2, <2>3
<1>10. ASSUME NEW i \in 1 .. n, i < p, NEW r \in O(i) PROVE r.key < k
  <2>1. i < n /\ p > 1 /\ i + 1 \in 1 .. n /\ (i + 1 = p \/ i + 1 < p)
    BY <1>1, <1>2, <1>10
  <2>2. ents[i + 1].entry_key <= ents[p].entry_key
    BY <1>1, <1>2, <1>3, <2>1
  <2>3. r.key < ents[i + 1].entry_key /\ ents[p].entry_key <= k
    BY <1>2, <1>3, <1>10, <2>1
  <2>4. QED
    BY <1>1, <1>2, <2>1, <2>2, <2>3
<1>11. \A r : r \in B <=> \E i \in p + 1 .. n : r \in O(i)
  BY <1>9
<1>12. Ascends(VisitAfter(p), B)
  <2>1. p \in 0 .. Len(ents)
    BY <1>1, <1>2 DEF n
  <2> HIDE DEF B
  <2>2. \A r : r \in B <=> \E i \in p + 1 .. Len(ents) : r \in Held(kind, heap, ents, i)
    BY <1>11 DEF n
  <2>3. QED
    BY <2>1, <2>2, VisitAfterIs
<1>13. \A r \in A : \A t \in B : r.key < t.key
  <2>1. ASSUME NEW r \in A, NEW t \in B PROVE r.key < t.key
    <3>1. PICK j \in p + 1 .. n : t \in O(j)
      BY <1>11
    <3>2. r \in O(p)
      OBVIOUS
    <3>3. j \in 1 .. n /\ p < j
      BY <1>8
    <3>4. QED
      BY <1>2, <3>1, <3>2, <3>3, HeldAscend DEF n
  <2>2. QED
    BY <2>1
<1>14. \A r : r \in A \union B <=> r.key >= k /\ \E i \in 1 .. n : r \in O(i)
  <2>1. ASSUME NEW r, r.key >= k, NEW i \in 1 .. n, r \in O(i) PROVE r \in A \/ r \in B
    <3>1. ~ (i < p)
      <4>1. i < p => r.key < k
        BY <1>10, <2>1
      <4>2. r.key \in Int
        BY <1>1, <2>1
      <4>3. QED
        BY <1>1, <2>1, <4>1, <4>2
    <3>2. i = p \/ i \in p + 1 .. n
      BY <1>1, <1>2, <3>1
    <3>3. QED
      BY <1>11, <2>1, <3>2
  <2>2. ASSUME NEW r \in A PROVE r.key >= k /\ \E i \in 1 .. n : r \in O(i)
    BY <1>2
  <2>3. ASSUME NEW r \in B PROVE r.key >= k /\ \E i \in 1 .. n : r \in O(i)
    BY <1>8, <1>9, <1>11
  <2> HIDE DEF A, B, O
  <2>4. QED
    BY <2>1, <2>2, <2>3
<1> HIDE DEF s, A, B
<1>15. Ascends(s \o VisitAfter(p), A \union B)
  <2>1. \A r : r \in A \union B <=> r \in A \/ r \in B
    OBVIOUS
  <2>2. QED
    BY <1>7, <1>12, <1>13, <2>1, AscendsConcat
<1>16. QED
  BY <1>5, <1>14, <1>15, MapFrom DEF n

(* The invariant gives both, unless a case is exempt. *)
LEMMA InvIteration == IInv => IterationInOrder
<1> SUFFICES ASSUME IInv, ~dirty, ~ (kind = "sort" /\ holed),
                    ~ \E i \in DOMAIN ents : Pairs(Pointer(i)) = {}
             PROVE  /\ InOrder(IterAll, 1)
                    /\ \A k \in Keys : (k > prefix \/ FindPos(ents, k) > 1) => InOrder(IterFrom(k), k)
  BY DEF IterationInOrder
<1>1. /\ Shape(heap, ents) /\ AllGood(kind, heap) /\ Between(kind, heap, ents)
      /\ Agrees(kind, heap, ents, store) /\ (~holed => AllClean(kind, heap))
      /\ store \in [Keys -> 0 .. 2] /\ prefix \in {0, InitPrefix}
  BY Before
<1>2. AllClean(kind, heap)
  <2>1. CASE ~holed
    BY <1>1, <2>1
  <2>2. CASE kind # "sort"
    BY <1>1, <2>2, KStrength DEF AllGood, AllClean
  <2>3. QED
    BY <2>1, <2>2
<1>3. ASSUME NEW i \in 1 .. Len(ents) PROVE Held(kind, heap, ents, i) # {}
  <2>1. KGood(kind, heap[ents[i].ptr]) /\ i \in DOMAIN ents
    BY <1>1, HeldParts, ShapeParts
  <2>2. Pairs(Pointer(i)) = Held(kind, heap, ents, i)
    BY <2>1, PairsAre DEF Pointer, Held
  <2>3. QED
    BY <2>1, <2>2
<1>4. InFull
  BY <1>1, <1>2, <1>3 DEF InFull
<1>5. QED
  BY <1>1, <1>4, IterAllIs, IterFromIs

-----------------------------------------------------------------------------

(* Every entry, bucket, count and status has its type, for any number of    *)
(* buckets, pairs and keys (pointer_bentry.h).                              *)
THEOREM TypeCorrect == Spec => []TypeOK
BY Invariant, InvTypeOK, PTL

(* Get finds the last value of every key wherever splits have taken its     *)
(* pair, and nothing that was deleted (pointer_bentry.h).                   *)
THEOREM LookupAlwaysAgrees == Spec => []LookupAgrees
BY Invariant, InvLookup, PTL

(* Entry keys, next_bucket links, counts and bitmaps say the truth of the   *)
(* buckets after any splits, updates and deletes.                           *)
THEOREM EntriesAlwaysMatchBuckets == Spec => []EntriesMatchBuckets
BY Invariant, InvMatch, PTL

(* Both iterators yield the map in key order, each pair once, but for the   *)
(* cases that the property exempts.                                         *)
THEOREM IterationAlwaysInOrder == Spec => []IterationInOrder
BY Invariant, InvIteration, PTL

(* What Put, Update and Delete return tells what they did, and a Put splits *)
(* one bucket at most.                                                      *)
THEOREM StatusesAreTruthful == Spec => StatusTruthful
<1>1. ASSUME IInv, [Next]_vars
      PROVE  [/\ (last'.op \in {"update", "delete"} /\ ~(kind = "sort" /\ holed))
                   => (last'.status = "OK" <=> last'.had)
              /\ last'.op = "put" =>
                    /\ Len(ents') <= Len(ents) + 1
                    /\ last'.status = "Full" => (Len(ents) = EntryCount /\ ents' = ents
                                                    /\ heap' = heap)]_vars
  <2>1. CASE Next
    BY <1>1, <2>1, InvStatus DEF StatusStep
  <2>2. CASE UNCHANGED vars
    BY <2>2
  <2>3. QED
    BY <1>1, <2>1, <2>2
<1>2. QED
  BY <1>1, Invariant, PTL DEF Spec, StatusTruthful
=============================================================================
