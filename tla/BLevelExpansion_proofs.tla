------------------------ MODULE BLevelExpansion_proofs ------------------------
(***************************************************************************)
(* Theorems about BLevelExpansion for every number of expanders, writers,  *)
(* keys and entries.                                                       *)
(***************************************************************************)
EXTENDS BLevelExpansion, TLAPS, FiniteSetTheorems, WellFoundedInduction

(* A non-empty set of keys has a least element, and Least picks it. *)
LEMMA LeastProperty ==
  ASSUME NEW S \in SUBSET Nat, S # {}
  PROVE  Least(S) \in S /\ \A j \in S : Least(S) <= j
<1> DEFINE lt == OpToRel(<, Nat)
<1>1. IsWellFoundedOn(lt, Nat)
  BY NatLessThanWellFounded, Zenon
<1>2. \E n \in S : \A m \in S : ~ (<<m, n>> \in lt)
  <2> HIDE DEF lt
  <2>1. S \subseteq Nat /\ S # {}
    OBVIOUS
  <2>2. QED
    BY <1>1, <2>1, WFMin
<1>3. \A m, n \in Nat : m < n => <<m, n>> \in lt
  BY DEF OpToRel
<1>4. PICK n \in S : \A m \in S : ~ (<<m, n>> \in lt)
  BY <1>2
<1>5. ASSUME NEW m \in S PROVE ~ (m < n)
  <2>1. m \in Nat /\ n \in Nat
    OBVIOUS
  <2>2. ~ (<<m, n>> \in lt)
    BY <1>4
  <2> HIDE DEF lt
  <2>3. m < n => <<m, n>> \in lt
    BY <1>3, <2>1
  <2>4. QED
    BY <2>2, <2>3
<1>6. \A m \in S : n <= m
  BY <1>5
<1>7. QED
  BY <1>6 DEF Least

(* A non-empty set of indices has a greatest element. *)
LEMMA GreatestIndex ==
  ASSUME NEW n \in Nat, NEW S \in SUBSET (1 .. n), S # {}
  PROVE  \E m \in S : \A s \in S : s <= m
<1> DEFINE rest == {n - i : i \in S}
<1>1. rest \in SUBSET Nat /\ rest # {}
  <2>1. \A i \in S : n - i \in Nat
    OBVIOUS
  <2>2. PICK i \in S : TRUE
    OBVIOUS
  <2>3. n - i \in rest
    BY <2>2
  <2>4. QED
    BY <2>1, <2>3
<1>2. PICK d \in rest : \A e \in rest : d <= e
  BY <1>1, LeastProperty
<1>3. PICK m \in S : d = n - m
  BY <1>2
<1>4. ASSUME NEW s \in S PROVE s <= m
  <2>1. n - s \in rest
    OBVIOUS
  <2>2. n - m <= n - s
    BY <1>2, <1>3, <2>1
  <2>3. QED
    BY <2>2
<1>5. QED
  BY <1>4

-----------------------------------------------------------------------------
(* Where each expander is, and what that says of its locals. *)
ControlInv ==
  /\ \A r \in Ranges :
       /\ cur[r] \in FirstOld[r] .. FirstOld[r + 1]
       /\ expPc[r] \in {"copy", "publish", "fault"} => cur[r] < FirstOld[r + 1]
       /\ expPc[r] \in {"finish", "done"} => cur[r] = FirstOld[r + 1]
       /\ expPc[r] \notin {"copy", "publish"} => todo[r] = {}
       /\ expPc[r] = "publish" => todo[r] # {}
       /\ \A k \in todo[r] : InOldEntry(k, cur[r])
  /\ \A w \in Writers : wPc[w] # "idle" => request[w] \in Requests

(* The partition of the old entries, in the form the steps use. *)
LEMMA Geometry ==
  /\ MaxKey \in Nat
  /\ NRange \in Nat \ {0}
  /\ 0 \in Key
  /\ \A r \in Ranges :
       /\ FirstOld[r] \in OldEntry
       /\ FirstOld[r + 1] \in 1 .. Len(OldKey) + 1
       /\ FirstOld[r] < FirstOld[r + 1]
       /\ StartKey(r) \in Key
       /\ LastEntryKey(r) \in Key
  /\ \A i \in OldEntry : OldKey[i] \in Key
  /\ Len(OldKey) \in Nat
<1>1. /\ MaxKey \in Nat
      /\ NRange \in Nat \ {0}
      /\ 0 \in Key
      /\ Len(OldKey) \in Nat
      /\ \A i \in OldEntry : OldKey[i] \in Key
  BY GeometryAssumption DEF Key, OldEntry
<1>2. ASSUME NEW r \in Ranges
      PROVE  /\ FirstOld[r] \in OldEntry
             /\ FirstOld[r + 1] \in 1 .. Len(OldKey) + 1
             /\ FirstOld[r] < FirstOld[r + 1]
  BY <1>1, GeometryAssumption DEF Ranges, OldEntry
<1>3. ASSUME NEW r \in Ranges
      PROVE  StartKey(r) \in Key
  BY <1>1, <1>2 DEF StartKey
<1>4. ASSUME NEW r \in Ranges
      PROVE  LastEntryKey(r) \in Key
  <2>1. MaxKey \in Key
    BY <1>1 DEF Key
  <2>2. r # NRange => r + 1 \in Ranges
    BY <1>1 DEF Ranges
  <2>3. r # NRange => StartKey(r + 1) \in Key
    BY <1>3, <2>2
  <2>4. QED
    BY <2>1, <2>3 DEF LastEntryKey
<1>5. QED
  BY <1>1, <1>2, <1>3, <1>4

(* Ranges start in the order of their keys. *)
LEMMA StartKeyOrder ==
  ASSUME NEW r \in Ranges, NEW s \in Ranges, r < s
  PROVE  StartKey(r) < StartKey(s)
<1>1. FirstOld[r] \in OldEntry /\ FirstOld[s] \in OldEntry
  BY Geometry
<1>2. FirstOld[r] < FirstOld[s]
  BY GeometryAssumption DEF Ranges
<1>3. QED
  BY <1>1, <1>2, GeometryAssumption DEF StartKey

(* Every key lies in exactly one range: FindBRangeByKey_ is a function. *)
LEMMA RangeOfKey ==
  ASSUME NEW k \in Key
  PROVE  /\ RangeOf(k) \in Ranges
         /\ InRange(k, RangeOf(k))
         /\ \A r \in Ranges : InRange(k, r) => r = RangeOf(k)
<1> DEFINE below == {i \in 1 .. NRange : StartKey(i) <= k}
<1>1. below # {}
  <2>1. StartKey(1) = 0
    BY GeometryAssumption DEF StartKey
  <2>2. 1 \in below
    BY <2>1, Geometry DEF Key
  <2>3. QED
    BY <2>2
<1>2. PICK r \in below : \A s \in below : s <= r
  BY <1>1, GreatestIndex, Geometry
<1>3. r \in Ranges /\ InRange(k, r)
  <2>1. ASSUME r < NRange PROVE k < StartKey(r + 1)
    <3>1. r + 1 \in 1 .. NRange /\ r + 1 \notin below
      BY <1>2, <2>1, Geometry
    <3>2. StartKey(r + 1) \in Key
      BY <3>1, Geometry DEF Ranges
    <3>3. QED
      BY <3>1, <3>2, Geometry DEF Key
  <2>2. QED
    BY <1>2, <2>1 DEF InRange, Ranges
<1>4. ASSUME NEW s \in Ranges, NEW t \in Ranges, InRange(k, s), InRange(k, t), s < t
      PROVE  FALSE
  <2>1. s + 1 \in Ranges /\ s + 1 <= t
    BY <1>4, Geometry DEF Ranges
  <2>2. StartKey(s + 1) <= StartKey(t)
    <3>1. CASE s + 1 = t
      BY <2>1, <3>1, Geometry DEF Key
    <3>2. CASE s + 1 < t
      <4>1. StartKey(s + 1) < StartKey(t)
        BY <2>1, <3>2, StartKeyOrder
      <4>2. QED
        BY <2>1, <4>1, Geometry DEF Key
    <3>3. QED
      BY <2>1, <3>1, <3>2, Geometry DEF Ranges
  <2>3. k < StartKey(s + 1) /\ StartKey(t) <= k
    BY <1>4, <2>1, Geometry DEF InRange, Ranges
  <2>4. StartKey(s + 1) \in Key /\ StartKey(t) \in Key
    BY <2>1, Geometry
  <2>5. QED
    BY <2>2, <2>3, <2>4, Geometry DEF Key
<1>5. \A s \in Ranges : InRange(k, s) => s = r
  BY <1>3, <1>4, Geometry DEF Ranges
<1>6. QED
  BY <1>3, <1>5 DEF RangeOf

LEMMA InitControl == Init => TypeOK /\ ControlInv
<1> SUFFICES ASSUME Init PROVE TypeOK /\ ControlInv
  OBVIOUS
<1>1. oldKV \in Content
  BY ContentAssumption DEF Init
<1>2. oldSize \in Nat
  <2>1. IsFiniteSet(Key)
    BY Geometry, FS_Interval DEF Key
  <2>2. IsFiniteSet(KeysOf(oldKV))
    BY <2>1, FS_Subset DEF KeysOf
  <2>3. QED
    BY <2>2, FS_CardinalityType DEF Init
<1>3. Empty \in Content
  BY DEF Empty, Content
<1>4. TypeOK
  <2>1. /\ entryKey \in [Ranges -> Seq(Key)]
        /\ \A r \in Ranges : Len(entryKey[r]) <= Capacity[r]
    BY SizeAssumption DEF Init
  <2>2. /\ DOMAIN newKV = Ranges
        /\ \A r \in Ranges : newKV[r] \in [1 .. Capacity[r] -> Content]
        /\ buf \in [Ranges -> Content]
    BY <1>3 DEF Init
  <2>3. /\ cur \in [Ranges -> 1 .. Len(OldKey) + 1]
        /\ maxKey \in [Ranges -> Key]
        /\ nextEntryKey \in [Ranges -> Key]
    BY Geometry DEF Init, OldEntry
  <2>4. /\ oldValid \in [OldEntry -> BOOLEAN]
        /\ newSize \in Nat
        /\ expandedEntries \in [Ranges -> Nat]
        /\ expPc \in [Ranges -> {"next", "copy", "publish", "finish", "done", "fault"}]
        /\ todo \in [Ranges -> SUBSET Key]
        /\ dataSize \in [Ranges -> Nat]
        /\ installed \in BOOLEAN
    BY DEF Init
  <2>5. /\ wPc \in [Writers -> {"idle", "check", "end", "new", "old"}]
        /\ request \in [Writers -> Requests \cup {None}]
        /\ wEnd \in [Writers -> Nat]
        /\ puts \in [Writers -> 0 .. MaxPuts]
    BY SizeAssumption DEF Init
  <2>6. QED
    BY <1>1, <1>2, <2>1, <2>2, <2>3, <2>4, <2>5 DEF TypeOK
<1>5. ControlInv
  <2>1. ASSUME NEW r \in Ranges
        PROVE  /\ cur[r] \in FirstOld[r] .. FirstOld[r + 1]
               /\ expPc[r] = "next"
               /\ todo[r] = {}
    BY Geometry DEF Init, OldEntry
  <2>2. \A w \in Writers : wPc[w] = "idle"
    BY DEF Init
  <2>3. QED
    BY <2>1, <2>2 DEF ControlInv
<1>6. QED
  BY <1>4, <1>5

(* The next key of the locked entry. *)
LEMMA NextKey ==
  ASSUME TypeOK, NEW r \in Ranges, todo[r] # {}
  PROVE  /\ Least(todo[r]) \in todo[r]
         /\ Least(todo[r]) \in Key
         /\ \A j \in todo[r] : Least(todo[r]) <= j
<1>1. todo[r] \in SUBSET Key /\ Key \subseteq Nat
  BY Geometry DEF TypeOK, Key
<1>2. QED
  BY <1>1, LeastProperty

(* Building a new entry, or spilling into the last one, keeps the types. *)
LEMMA FlushTypes ==
  ASSUME TypeOK, NEW r \in Ranges, Flush(r) \/ Spill(r)
  PROVE  /\ entryKey' \in [Ranges -> Seq(Key)]
         /\ \A s \in Ranges : Len(entryKey'[s]) <= Capacity[s]
         /\ DOMAIN newKV' = Ranges
         /\ \A s \in Ranges : newKV'[s] \in [1 .. Capacity[s] -> Content]
         /\ expandedEntries' \in [Ranges -> Nat]
         /\ buf' \in [Ranges -> Content]
<1>1. Empty \in Content /\ Capacity[r] \in Nat \ {0}
  BY SizeAssumption DEF Empty, Content
<1>2. CASE Flush(r)
  <2>1. /\ entryKey' \in [Ranges -> Seq(Key)]
        /\ \A s \in Ranges : Len(entryKey'[s]) <= Capacity[s]
    BY <1>1, <1>2 DEF TypeOK, Flush, HasRoom
  <2>2. /\ DOMAIN newKV' = Ranges
        /\ \A s \in Ranges : newKV'[s] \in [1 .. Capacity[s] -> Content]
    BY <1>1, <1>2 DEF TypeOK, Flush
  <2>3. expandedEntries' \in [Ranges -> Nat] /\ buf' \in [Ranges -> Content]
    BY <1>1, <1>2 DEF TypeOK, Flush
  <2>4. QED
    BY <2>1, <2>2, <2>3
<1>3. CASE Spill(r)
  <2>1. ASSUME NEW f \in Content, NEW g \in Content
        PROVE  Overlay(f, g) \in Content
    BY DEF Overlay, Content
  <2>2. /\ DOMAIN newKV' = Ranges
        /\ \A s \in Ranges : newKV'[s] \in [1 .. Capacity[s] -> Content]
    <3> DEFINE n == Len(entryKey[r])
               over == Overlay(newKV[r][n], buf[r])
    <3>1. newKV' = [newKV EXCEPT ![r][n] = over]
      BY <1>3 DEF Spill
    <3>2. n \in 1 .. Capacity[r] => over \in Content
      BY <2>1 DEF TypeOK
    <3> HIDE DEF n, over
    <3>3. QED
      BY <3>1, <3>2 DEF TypeOK
  <2>3. /\ UNCHANGED <<entryKey, expandedEntries>>
        /\ buf' \in [Ranges -> Content]
    BY <1>1, <1>3 DEF TypeOK, Spill
  <2>4. QED
    BY <2>2, <2>3 DEF TypeOK
<1>4. QED
  BY <1>2, <1>3

(* Storing a key into the buffer keeps the types. *)
LEMMA BufferTypes ==
  ASSUME TypeOK, NEW r \in Ranges, todo[r] # {}, Buffer(r, buf[r])
  PROVE  /\ buf' \in [Ranges -> Content]
         /\ todo' \in [Ranges -> SUBSET Key]
         /\ dataSize' \in [Ranges -> Nat]
<1>1. oldKV[Least(todo[r])] \in Value \cup {None}
  BY NextKey DEF TypeOK, Content
<1>2. [buf[r] EXCEPT ![Least(todo[r])] = oldKV[Least(todo[r])]] \in Content
  BY <1>1 DEF TypeOK, Content
<1>3. QED
  BY <1>2 DEF TypeOK, Buffer

(* A Put into the new level keeps the types. *)
LEMMA PutNewTypes ==
  ASSUME TypeOK, NEW q \in Requests, NEW end, PutNew(q, end)
  PROVE  /\ DOMAIN newKV' = Ranges
         /\ \A s \in Ranges : newKV'[s] \in [1 .. Capacity[s] -> Content]
         /\ newSize' \in Nat
<1>1. q.value \in Value
  BY DEF Requests
<1>2. ASSUME NEW f \in Content
      PROVE  [f EXCEPT ![q.key] = q.value] \in Content
  BY <1>1 DEF Content
<1> DEFINE s == RangeOf(q.key)
           i == FindByRange(q.key, s, end)
<1>3. newKV' = [newKV EXCEPT ![s][i][q.key] = q.value]
  BY DEF PutNew
<1>4. newSize' \in Nat
  BY DEF PutNew, TypeOK
<1> HIDE DEF s, i
<1>5. /\ DOMAIN newKV' = Ranges
      /\ \A t \in Ranges : newKV'[t] \in [1 .. Capacity[t] -> Content]
  <2>1. DOMAIN newKV = Ranges /\ \A t \in Ranges : newKV[t] \in [1 .. Capacity[t] -> Content]
    BY DEF TypeOK
  <2>2. DOMAIN newKV' = Ranges
    BY <1>3, <2>1
  <2>3. ASSUME NEW t \in Ranges PROVE newKV'[t] \in [1 .. Capacity[t] -> Content]
    <3>1. CASE t # s
      BY <1>3, <2>1, <3>1
    <3>2. CASE t = s
      <4>1. newKV'[t] = [newKV[t] EXCEPT ![i] = [newKV[t][i] EXCEPT ![q.key] = q.value]]
        BY <1>3, <2>1, <3>2
      <4>2. i \in 1 .. Capacity[t] => newKV[t][i] \in Content
        BY <2>1
      <4>3. QED
        BY <1>2, <2>1, <4>1, <4>2
    <3>3. QED
      BY <3>1, <3>2
  <2>4. QED
    BY <2>2, <2>3
<1>6. QED
  BY <1>4, <1>5

LEMMA StepControl == TypeOK /\ ControlInv /\ [Next]_vars => TypeOK' /\ ControlInv'
<1> SUFFICES ASSUME TypeOK, ControlInv, [Next]_vars
             PROVE  TypeOK' /\ ControlInv'
  OBVIOUS
<1> USE DEF oldVars, newVars, markVars, expVars, writerVars
<1>1. ASSUME NEW r \in Ranges, LockEntry(r)
      PROVE  TypeOK' /\ ControlInv'
  <2>1. TypeOK'
    BY <1>1 DEF TypeOK, LockEntry, KeysOf
  <2>2. ControlInv'
    BY <1>1, Geometry DEF TypeOK, ControlInv, LockEntry, Finished
  <2>3. QED
    BY <2>1, <2>2
<1>2. ASSUME NEW r \in Ranges, ExpandPut(r)
      PROVE  TypeOK' /\ ControlInv'
  <2>1. TypeOK'
    BY <1>2, BufferTypes DEF TypeOK, ExpandPut
  <2>2. ControlInv'
    BY <1>2 DEF TypeOK, ControlInv, ExpandPut, Buffer
  <2>3. QED
    BY <2>1, <2>2
<1>3. ASSUME NEW r \in Ranges, ExpandPutFlush(r)
      PROVE  TypeOK' /\ ControlInv'
  <2>1. Flush(r) \/ Spill(r)
    BY <1>3 DEF ExpandPutFlush
  <2>2. nextEntryKey' \in [Ranges -> Key]
    BY <1>3, NextKey DEF ExpandPutFlush, TypeOK
  <2>3. TypeOK'
    BY <1>3, <2>1, <2>2, FlushTypes DEF ExpandPutFlush, TypeOK
  <2>4. ControlInv'
    BY <1>3 DEF TypeOK, ControlInv, ExpandPutFlush
  <2>5. QED
    BY <2>3, <2>4
<1>4. ASSUME NEW r \in Ranges, ExpandPutPublish(r)
      PROVE  TypeOK' /\ ControlInv'
  <2>1. todo[r] # {}
    BY <1>4 DEF ControlInv, ExpandPutPublish
  <2>2. maxKey' \in [Ranges -> Key]
    BY <1>4, <2>1, NextKey DEF ExpandPutPublish, TypeOK
  <2>3. TypeOK'
    BY <1>4, <2>1, <2>2, BufferTypes DEF ExpandPutPublish, TypeOK
  <2>4. ControlInv'
    BY <1>4 DEF TypeOK, ControlInv, ExpandPutPublish, Buffer
  <2>5. QED
    BY <2>3, <2>4
<1>5. ASSUME NEW r \in Ranges, Invalidate(r)
      PROVE  TypeOK' /\ ControlInv'
  <2>1. /\ cur[r] \in FirstOld[r] .. FirstOld[r + 1]
        /\ cur[r] < FirstOld[r + 1]
        /\ FirstOld[r] \in OldEntry
        /\ FirstOld[r + 1] \in 1 .. Len(OldKey) + 1
        /\ Len(OldKey) \in Nat
    BY <1>5, Geometry DEF ControlInv, Invalidate
  <2>2. /\ cur[r] + 1 \in 1 .. Len(OldKey) + 1
        /\ cur[r] + 1 \in FirstOld[r] .. FirstOld[r + 1]
    BY <2>1 DEF OldEntry
  <2>3. TypeOK'
    <3>1. cur' \in [Ranges -> 1 .. Len(OldKey) + 1]
      BY <1>5, <2>2 DEF TypeOK, Invalidate
    <3>2. QED
      BY <1>5, <3>1 DEF TypeOK, Invalidate
  <2>4. ControlInv'
    BY <1>5, <2>2 DEF TypeOK, ControlInv, Invalidate
  <2>5. QED
    BY <2>3, <2>4
<1>6. ASSUME NEW r \in Ranges, ExpandFinish(r)
      PROVE  TypeOK' /\ ControlInv'
  <2>1. Flush(r) \/ Spill(r)
    BY <1>6 DEF ExpandFinish
  <2>2. TypeOK'
    BY <1>6, <2>1, FlushTypes DEF ExpandFinish, TypeOK
  <2>3. ControlInv'
    BY <1>6 DEF TypeOK, ControlInv, ExpandFinish, Finished
  <2>4. QED
    BY <2>2, <2>3
<1>7. ASSUME NEW r \in Ranges, ExpandFinishPublish(r)
      PROVE  TypeOK' /\ ControlInv'
  <2>1. TypeOK'
    BY <1>7, Geometry DEF TypeOK, ExpandFinishPublish
  <2>2. ControlInv'
    BY <1>7 DEF TypeOK, ControlInv, ExpandFinishPublish
  <2>3. QED
    BY <2>1, <2>2
<1>8. CASE Install
  BY <1>8 DEF TypeOK, ControlInv, Install
<1>9. ASSUME NEW w \in Writers, Call(w)
      PROVE  TypeOK' /\ ControlInv'
  <2>1. PICK q \in Requests : request' = [request EXCEPT ![w] = q]
    BY <1>9 DEF Call
  <2>2. puts' \in [Writers -> 0 .. MaxPuts]
    BY <1>9, SizeAssumption DEF TypeOK, Call
  <2>3. TypeOK'
    BY <1>9, <2>1, <2>2 DEF TypeOK, Call
  <2>4. ControlInv'
    BY <1>9, <2>1 DEF TypeOK, ControlInv, Call
  <2>5. QED
    BY <2>3, <2>4
<1>10. ASSUME NEW w \in Writers, CheckExpanded(w)
       PROVE  TypeOK' /\ ControlInv'
  BY <1>10 DEF TypeOK, ControlInv, CheckExpanded
<1>11. ASSUME NEW w \in Writers, LoadEnd(w)
       PROVE  TypeOK' /\ ControlInv'
  <2>1. RangeOf(request[w].key) \in Ranges
    BY <1>11, RangeOfKey DEF TypeOK, ControlInv, LoadEnd, Requests
  <2>2. TypeOK'
    BY <1>11, <2>1 DEF TypeOK, LoadEnd
  <2>3. ControlInv'
    BY <1>11 DEF TypeOK, ControlInv, LoadEnd
  <2>4. QED
    BY <2>2, <2>3
<1>12. ASSUME NEW w \in Writers, PutRange(w)
       PROVE  TypeOK' /\ ControlInv'
  <2>1. request[w] \in Requests
    BY <1>12 DEF ControlInv, PutRange
  <2>2. TypeOK'
    BY <1>12, <2>1, PutNewTypes DEF TypeOK, PutRange, PutNew, Finish
  <2>3. ControlInv'
    BY <1>12 DEF TypeOK, ControlInv, PutRange, PutNew, Finish
  <2>4. QED
    BY <2>2, <2>3
<1>13. ASSUME NEW w \in Writers, PutOld(w)
       PROVE  TypeOK' /\ ControlInv'
  <2>1. request[w] \in Requests
    BY <1>13 DEF ControlInv, PutOld
  <2>2. oldKV' \in Content
    BY <1>13, <2>1 DEF TypeOK, PutOld, Content, Requests
  <2>3. TypeOK'
    BY <1>13, <2>2 DEF TypeOK, PutOld, Finish
  <2>4. ControlInv'
    BY <1>13 DEF TypeOK, ControlInv, PutOld, Finish
  <2>5. QED
    BY <2>3, <2>4
<1>14. ASSUME NEW w \in Writers, PutOldFails(w)
       PROVE  TypeOK' /\ ControlInv'
  BY <1>14 DEF TypeOK, ControlInv, PutOldFails
<1>15. ASSUME NEW w \in Writers, PutInstalled(w)
       PROVE  TypeOK' /\ ControlInv'
  <2>1. request[w] \in Requests
    BY <1>15 DEF ControlInv, PutInstalled
  <2>2. TypeOK'
    BY <1>15, <2>1, PutNewTypes DEF TypeOK, PutInstalled, PutNew, Finish
  <2>3. ControlInv'
    BY <1>15 DEF TypeOK, ControlInv, PutInstalled, PutNew, Finish
  <2>4. QED
    BY <2>2, <2>3
<1>16. CASE UNCHANGED vars
  BY <1>16 DEF TypeOK, ControlInv, vars
<1>17. QED
  BY <1>1, <1>2, <1>3, <1>4, <1>5, <1>6, <1>7, <1>8, <1>9, <1>10, <1>11,
     <1>12, <1>13, <1>14, <1>15, <1>16 DEF Next, Expander, Put, Terminated

-----------------------------------------------------------------------------
(***************************************************************************)
(* How far an expander has come.  Its marks only move over keys it has     *)
(* left behind, and an entry it has yet to build starts at or above        *)
(* expanded_max_key_.                                                      *)
(***************************************************************************)
OldBound(i) == IF i \in OldEntry THEN OldKey[i] ELSE MaxKey

FrontierOf(r) ==
  /\ expandedEntries[r] = Len(entryKey[r])
  /\ Len(entryKey[r]) = 0 => nextEntryKey[r] = StartKey(r)
  /\ Len(entryKey[r]) > 0 => entryKey[r][1] = StartKey(r)
  /\ maxKey[r] > 0 => Len(entryKey[r]) > 0
  /\ expPc[r] \in {"publish", "finish", "done"} => Len(entryKey[r]) > 0
  /\ expPc[r] \in {"next", "finish"} => maxKey[r] <= OldBound(cur[r])
  /\ expPc[r] \in {"copy", "publish"} => maxKey[r] <= OldBound(cur[r] + 1)
  /\ \A k \in todo[r] : maxKey[r] <= k
  /\ HasRoom(r) /\ expPc[r] # "done" => maxKey[r] <= nextEntryKey[r]
  /\ HasRoom(r) /\ expPc[r] = "publish" => nextEntryKey[r] = Least(todo[r])

Frontier == \A r \in Ranges : FrontierOf(r)

(***************************************************************************)
(* What a writer that was told "expanded" still knows when it acts on it.  *)
(***************************************************************************)
WriterOf(w) ==
  LET k == request[w].key
      r == RangeOf(k)
  IN
  /\ wPc[w] \in {"end", "new"} => k < maxKey[r]
  /\ wPc[w] = "new" =>
       /\ wEnd[w] \in 1 .. Len(entryKey[r])
       /\ \A j \in wEnd[w] + 1 .. Len(entryKey[r]) : k < entryKey[r][j]

WriterInv == \A w \in Writers : WriterOf(w)

(* The bounds between which an expander's marks move. *)
LEMMA BoundOrder ==
  ASSUME NEW r \in Ranges
  PROVE  /\ LastEntryKey(r) = OldBound(FirstOld[r + 1])
         /\ \A i \in OldEntry : OldKey[i] <= OldBound(i + 1)
         /\ \A i \in OldEntry, k \in Key : InOldEntry(k, i) => k <= OldBound(i + 1)
         /\ \A i \in 1 .. Len(OldKey) + 1 : OldBound(i) \in Key
<1>1. MaxKey \in Key
  BY Geometry DEF Key
<1>2. LastEntryKey(r) = OldBound(FirstOld[r + 1])
  <2>1. CASE r = NRange
    <3>1. FirstOld[r + 1] \notin OldEntry
      BY <2>1, GeometryAssumption DEF OldEntry
    <3>2. QED
      BY <2>1, <3>1 DEF LastEntryKey, OldBound
  <2>2. CASE r # NRange
    <3>1. r + 1 \in Ranges
      BY <2>2, Geometry DEF Ranges
    <3>2. FirstOld[r + 1] \in OldEntry
      BY <3>1, Geometry
    <3>3. QED
      BY <2>2, <3>2 DEF LastEntryKey, OldBound, StartKey
  <2>3. QED
    BY <2>1, <2>2
<1>3. ASSUME NEW i \in OldEntry
      PROVE  /\ OldKey[i] <= OldBound(i + 1)
             /\ \A k \in Key : InOldEntry(k, i) => k <= OldBound(i + 1)
  <2>1. CASE i = Len(OldKey)
    <3>1. OldBound(i + 1) = MaxKey
      BY <2>1, Geometry DEF OldBound, OldEntry
    <3>2. QED
      BY <3>1, Geometry DEF Key
  <2>2. CASE i # Len(OldKey)
    <3>1. i + 1 \in OldEntry /\ i < i + 1 /\ i < Len(OldKey)
      BY <2>2, Geometry DEF OldEntry
    <3>2. OldBound(i + 1) = OldKey[i + 1] /\ OldKey[i] < OldKey[i + 1]
      BY <3>1, GeometryAssumption DEF OldBound
    <3>3. OldKey[i] \in Key /\ OldKey[i + 1] \in Key
      BY <3>1, Geometry
    <3>4. QED
      BY <3>1, <3>2, <3>3, Geometry DEF InOldEntry, Key
  <2>3. QED
    BY <2>1, <2>2
<1>4. ASSUME NEW i \in 1 .. Len(OldKey) + 1
      PROVE  OldBound(i) \in Key
  BY <1>1, Geometry DEF OldBound
<1>5. QED
  BY <1>2, <1>3, <1>4

LEMMA InitFrontier == Init => Frontier /\ WriterInv
<1> SUFFICES ASSUME Init PROVE Frontier /\ WriterInv
  OBVIOUS
<1>1. ASSUME NEW r \in Ranges PROVE FrontierOf(r)
  <2>1. /\ Len(entryKey[r]) = 0
        /\ expandedEntries[r] = 0
        /\ maxKey[r] = 0
        /\ expPc[r] = "next"
        /\ todo[r] = {}
        /\ nextEntryKey[r] = StartKey(r)
        /\ cur[r] = FirstOld[r]
    BY <1>1 DEF Init
  <2>2. OldBound(cur[r]) \in Key /\ StartKey(r) \in Key
    BY <2>1, Geometry DEF OldBound
  <2>3. QED
    BY <2>1, <2>2 DEF FrontierOf, Key
<1>2. ASSUME NEW w \in Writers PROVE WriterOf(w)
  BY <1>2 DEF Init, WriterOf
<1>3. QED
  BY <1>1, <1>2 DEF Frontier, WriterInv

(* A step that leaves an expander's variables alone leaves it where it is. *)
LEMMA FrontierStays ==
  ASSUME NEW r \in Ranges, FrontierOf(r),
         entryKey'[r] = entryKey[r], expandedEntries'[r] = expandedEntries[r],
         maxKey'[r] = maxKey[r], expPc'[r] = expPc[r], cur'[r] = cur[r],
         todo'[r] = todo[r], nextEntryKey'[r] = nextEntryKey[r]
  PROVE  FrontierOf(r)'
BY DEF FrontierOf, HasRoom

(* What a flush or a spill does to the frontier of its range. *)
LEMMA FlushFrontier ==
  ASSUME TypeOK, NEW r \in Ranges, FrontierOf(r), Flush(r) \/ Spill(r)
  PROVE  /\ expandedEntries'[r] = Len(entryKey'[r])
         /\ Len(entryKey'[r]) > 0
         /\ entryKey'[r][1] = StartKey(r)
         /\ Spill(r) => ~ HasRoom(r)'
         /\ \A s \in Ranges : s # r => /\ entryKey'[s] = entryKey[s]
                                      /\ expandedEntries'[s] = expandedEntries[s]
<1>1. entryKey[r] \in Seq(Key) /\ nextEntryKey[r] \in Key /\ Capacity[r] \in Nat \ {0}
  BY SizeAssumption DEF TypeOK
<1>2. CASE Flush(r)
  <2>1. /\ entryKey' = [entryKey EXCEPT ![r] = Append(@, nextEntryKey[r])]
        /\ expandedEntries' = [expandedEntries EXCEPT ![r] = @ + 1]
        /\ HasRoom(r)
    BY <1>2 DEF Flush
  <2>2. /\ entryKey'[r] = Append(entryKey[r], nextEntryKey[r])
        /\ expandedEntries'[r] = expandedEntries[r] + 1
        /\ \A s \in Ranges : s # r => /\ entryKey'[s] = entryKey[s]
                                     /\ expandedEntries'[s] = expandedEntries[s]
    BY <2>1 DEF TypeOK
  <2>3. Len(entryKey'[r]) = Len(entryKey[r]) + 1
    BY <1>1, <2>2
  <2>4. entryKey'[r][1] = StartKey(r)
    BY <1>1, <2>2 DEF FrontierOf
  <2>5. ~ Spill(r)
    BY <2>1 DEF Spill
  <2>6. QED
    BY <1>1, <2>2, <2>3, <2>4, <2>5 DEF FrontierOf
<1>3. CASE Spill(r)
  <2>1. UNCHANGED <<entryKey, expandedEntries>> /\ ~ HasRoom(r)
    BY <1>3 DEF Spill
  <2>2. Len(entryKey[r]) > 0
    BY <1>1, <2>1 DEF HasRoom
  <2>3. QED
    BY <2>1, <2>2 DEF FrontierOf, HasRoom
<1>4. QED
  BY <1>2, <1>3

LEMMA StepFrontier ==
  TypeOK /\ ControlInv /\ Frontier /\ [Next]_vars => Frontier'
<1> SUFFICES ASSUME TypeOK, ControlInv, Frontier, [Next]_vars
             PROVE  Frontier'
  OBVIOUS
<1> USE DEF oldVars, newVars, markVars, expVars, writerVars
<1>1. ASSUME NEW r \in Ranges, LockEntry(r) PROVE Frontier'
  <2>1. /\ expPc[r] = "next"
        /\ expPc'[r] \in {"fault", "copy"}
        /\ todo'[r] = {k \in KeysOf(oldKV) : InOldEntry(k, cur[r])}
        /\ cur[r] \in OldEntry
        /\ UNCHANGED <<newVars, markVars, cur, nextEntryKey>>
        /\ \A s \in Ranges : s # r => todo'[s] = todo[s] /\ expPc'[s] = expPc[s]
    BY <1>1, Geometry DEF LockEntry, TypeOK, ControlInv, Finished, OldEntry
  <2>2. /\ maxKey[r] <= OldKey[cur[r]]
        /\ OldKey[cur[r]] \in Key
        /\ OldBound(cur[r] + 1) \in Key
        /\ OldKey[cur[r]] <= OldBound(cur[r] + 1)
        /\ maxKey[r] \in Key
    BY <2>1, BoundOrder, Geometry DEF Frontier, FrontierOf, OldBound, OldEntry, TypeOK
  <2>3. \A k \in todo'[r] : maxKey[r] <= k
    BY <2>1, <2>2, Geometry DEF InOldEntry, KeysOf, Key
  <2>4. maxKey[r] <= OldBound(cur[r] + 1)
    BY <2>2, Geometry DEF Key
  <2>5. FrontierOf(r)'
    BY <2>1, <2>3, <2>4 DEF Frontier, FrontierOf, HasRoom
  <2>6. \A s \in Ranges : s # r => FrontierOf(s)'
    BY <2>1, FrontierStays DEF Frontier
  <2>7. QED
    BY <2>5, <2>6 DEF Frontier
<1>2. ASSUME NEW r \in Ranges, ExpandPut(r) PROVE Frontier'
  <2>1. /\ UNCHANGED <<newVars, markVars, expPc, cur, nextEntryKey>>
        /\ expPc[r] = "copy"
        /\ todo'[r] \subseteq todo[r]
        /\ \A s \in Ranges : s # r => todo'[s] = todo[s]
    BY <1>2 DEF ExpandPut, Buffer, TypeOK
  <2>2. FrontierOf(r)'
    BY <2>1 DEF Frontier, FrontierOf, HasRoom
  <2>3. \A s \in Ranges : s # r => FrontierOf(s)'
    BY <2>1, FrontierStays DEF Frontier
  <2>4. QED
    BY <2>2, <2>3 DEF Frontier
<1>3. ASSUME NEW r \in Ranges, ExpandPutFlush(r) PROVE Frontier'
  <2>1. /\ UNCHANGED <<maxKey, cur, todo>>
        /\ expPc[r] = "copy"
        /\ expPc'[r] = "publish"
        /\ todo[r] # {}
        /\ Flush(r) \/ Spill(r)
        /\ Flush(r) => nextEntryKey'[r] = Least(todo[r])
        /\ \A s \in Ranges : s # r => /\ expPc'[s] = expPc[s]
                                     /\ nextEntryKey'[s] = nextEntryKey[s]
    BY <1>3 DEF ExpandPutFlush, TypeOK, Flush, Spill
  <2>2. /\ expandedEntries'[r] = Len(entryKey'[r])
        /\ Len(entryKey'[r]) > 0
        /\ entryKey'[r][1] = StartKey(r)
        /\ Spill(r) => ~ HasRoom(r)'
        /\ \A s \in Ranges : s # r => /\ entryKey'[s] = entryKey[s]
                                     /\ expandedEntries'[s] = expandedEntries[s]
    BY <2>1, FlushFrontier DEF Frontier
  <2>3. HasRoom(r)' => nextEntryKey'[r] = Least(todo[r])
    BY <2>1, <2>2
  <2>4. maxKey[r] <= Least(todo[r])
    BY <2>1, NextKey DEF Frontier, FrontierOf
  <2>5. FrontierOf(r)'
    BY <2>1, <2>2, <2>3, <2>4 DEF Frontier, FrontierOf
  <2>6. \A s \in Ranges : s # r => FrontierOf(s)'
    BY <2>1, <2>2, FrontierStays DEF Frontier
  <2>7. QED
    BY <2>5, <2>6 DEF Frontier
<1>4. ASSUME NEW r \in Ranges, ExpandPutPublish(r) PROVE Frontier'
  <2> DEFINE k == Least(todo[r])
  <2>1. /\ UNCHANGED <<newVars, expandedEntries, cur, nextEntryKey>>
        /\ expPc[r] = "publish"
        /\ expPc'[r] = "copy"
        /\ todo[r] # {}
        /\ maxKey'[r] = k
        /\ todo'[r] = todo[r] \ {k}
        /\ \A s \in Ranges : s # r => /\ expPc'[s] = expPc[s]
                                     /\ todo'[s] = todo[s]
                                     /\ maxKey'[s] = maxKey[s]
    BY <1>4 DEF ExpandPutPublish, Buffer, TypeOK, ControlInv
  <2>2. k \in todo[r] /\ k \in Key /\ \A j \in todo[r] : k <= j
    BY <2>1, NextKey
  <2>3. cur[r] \in OldEntry /\ InOldEntry(k, cur[r])
    BY <2>1, <2>2, Geometry DEF ControlInv, TypeOK, OldEntry
  <2>4. k <= OldBound(cur[r] + 1)
    BY <2>2, <2>3, BoundOrder
  <2>5. HasRoom(r) => nextEntryKey[r] = k
    BY <2>1 DEF Frontier, FrontierOf
  <2>6. Len(entryKey[r]) > 0
    BY <2>1 DEF Frontier, FrontierOf
  <2> HIDE DEF k
  <2>7. FrontierOf(r)'
    BY <2>1, <2>2, <2>4, <2>5, <2>6, Geometry DEF Frontier, FrontierOf, HasRoom, Key
  <2>8. \A s \in Ranges : s # r => FrontierOf(s)'
    BY <2>1, FrontierStays DEF Frontier
  <2>9. QED
    BY <2>7, <2>8 DEF Frontier
<1>5. ASSUME NEW r \in Ranges, Invalidate(r) PROVE Frontier'
  <2>1. /\ UNCHANGED <<newVars, markVars, todo, nextEntryKey>>
        /\ expPc[r] = "copy"
        /\ expPc'[r] = "next"
        /\ cur'[r] = cur[r] + 1
        /\ \A s \in Ranges : s # r => expPc'[s] = expPc[s] /\ cur'[s] = cur[s]
    BY <1>5 DEF Invalidate, TypeOK
  <2>2. FrontierOf(r)'
    BY <2>1 DEF Frontier, FrontierOf, HasRoom
  <2>3. \A s \in Ranges : s # r => FrontierOf(s)'
    BY <2>1, FrontierStays DEF Frontier
  <2>4. QED
    BY <2>2, <2>3 DEF Frontier
<1>6. ASSUME NEW r \in Ranges, ExpandFinish(r) PROVE Frontier'
  <2>1. /\ UNCHANGED <<maxKey, cur, todo, nextEntryKey>>
        /\ expPc[r] = "next"
        /\ expPc'[r] = "finish"
        /\ Flush(r) \/ Spill(r)
        /\ \A s \in Ranges : s # r => expPc'[s] = expPc[s]
    BY <1>6 DEF ExpandFinish, TypeOK
  <2>2. /\ expandedEntries'[r] = Len(entryKey'[r])
        /\ Len(entryKey'[r]) > 0
        /\ entryKey'[r][1] = StartKey(r)
        /\ Spill(r) => ~ HasRoom(r)'
        /\ \A s \in Ranges : s # r => /\ entryKey'[s] = entryKey[s]
                                     /\ expandedEntries'[s] = expandedEntries[s]
    BY <2>1, FlushFrontier DEF Frontier
  <2>3. HasRoom(r)' => HasRoom(r)
    BY <2>1, <2>2 DEF Flush
  <2>4. FrontierOf(r)'
    BY <2>1, <2>2, <2>3 DEF Frontier, FrontierOf
  <2>5. \A s \in Ranges : s # r => FrontierOf(s)'
    BY <2>1, <2>2, FrontierStays DEF Frontier
  <2>6. QED
    BY <2>4, <2>5 DEF Frontier
<1>7. ASSUME NEW r \in Ranges, ExpandFinishPublish(r) PROVE Frontier'
  <2>1. /\ UNCHANGED <<entryKey, expandedEntries, cur, todo, nextEntryKey>>
        /\ expPc[r] = "finish"
        /\ expPc'[r] = "done"
        /\ todo[r] = {}
        /\ \A s \in Ranges : s # r => expPc'[s] = expPc[s] /\ maxKey'[s] = maxKey[s]
    BY <1>7 DEF ExpandFinishPublish, TypeOK, ControlInv
  <2>2. FrontierOf(r)'
    BY <2>1 DEF Frontier, FrontierOf
  <2>3. \A s \in Ranges : s # r => FrontierOf(s)'
    BY <2>1, FrontierStays DEF Frontier
  <2>4. QED
    BY <2>2, <2>3 DEF Frontier
<1>8. ASSUME UNCHANGED <<entryKey, expandedEntries, maxKey, expPc, cur, todo, nextEntryKey>>
      PROVE  Frontier'
  BY <1>8, FrontierStays DEF Frontier
<1>9. CASE Install
  BY <1>8, <1>9 DEF Install
<1>10. ASSUME NEW w \in Writers, Call(w) \/ Put(w) PROVE Frontier'
  BY <1>8, <1>10 DEF Call, Put, CheckExpanded, LoadEnd, PutRange, PutNew, PutOld,
     PutOldFails, PutInstalled
<1>11. CASE UNCHANGED vars
  BY <1>8, <1>11 DEF vars
<1>12. QED
  BY <1>1, <1>2, <1>3, <1>4, <1>5, <1>6, <1>7, <1>9, <1>10, <1>11
     DEF Next, Expander, Terminated

-----------------------------------------------------------------------------
(***************************************************************************)
(* One step of the marks of range r: they never move back, they first move *)
(* once an entry is counted, and a new entry starts above every key that   *)
(* counts as expanded.                                                     *)
(***************************************************************************)
Marks(r) ==
  /\ maxKey[r] <= maxKey'[r]
  /\ expandedEntries[r] <= expandedEntries'[r]
  /\ maxKey[r] < maxKey'[r] => expandedEntries[r] > 0
  /\ \/ entryKey'[r] = entryKey[r]
     \/ \E x \in Key : /\ entryKey'[r] = Append(entryKey[r], x)
                      /\ maxKey[r] <= x

LEMMA MarksStay ==
  ASSUME TypeOK, NEW r \in Ranges, entryKey'[r] = entryKey[r],
         expandedEntries'[r] = expandedEntries[r], maxKey'[r] = maxKey[r]
  PROVE  Marks(r)
BY Geometry DEF Marks, TypeOK, Key

(* A flush into an entry of its own starts it above expanded_max_key_. *)
LEMMA FlushMarks ==
  ASSUME TypeOK, NEW r \in Ranges, FrontierOf(r), expPc[r] # "done",
         Flush(r) \/ Spill(r), maxKey' = maxKey
  PROVE  \A s \in Ranges : Marks(s)
<1>1. CASE Flush(r)
  <2>1. /\ entryKey'[r] = Append(entryKey[r], nextEntryKey[r])
        /\ expandedEntries'[r] = expandedEntries[r] + 1
        /\ maxKey[r] <= nextEntryKey[r]
        /\ \A s \in Ranges : s # r => /\ entryKey'[s] = entryKey[s]
                                     /\ expandedEntries'[s] = expandedEntries[s]
    BY <1>1 DEF Flush, TypeOK, FrontierOf
  <2>2. nextEntryKey[r] \in Key /\ maxKey[r] \in Nat /\ expandedEntries[r] \in Nat
    BY Geometry DEF TypeOK, Key
  <2>3. Marks(r)
    BY <2>1, <2>2 DEF Marks
  <2>4. QED
    BY <2>1, <2>3, MarksStay
<1>2. CASE Spill(r)
  BY <1>2, MarksStay DEF Spill
<1>3. QED
  BY <1>1, <1>2

LEMMA StepMarks ==
  ASSUME TypeOK, ControlInv, Frontier, [Next]_vars
  PROVE  \A r \in Ranges : Marks(r)
<1> USE DEF oldVars, newVars, markVars, expVars, writerVars
<1>1. ASSUME UNCHANGED <<entryKey, expandedEntries, maxKey>>
      PROVE  \A r \in Ranges : Marks(r)
  BY <1>1, MarksStay
<1>2. ASSUME NEW r \in Ranges, LockEntry(r) \/ ExpandPut(r) \/ Invalidate(r)
      PROVE  \A s \in Ranges : Marks(s)
  BY <1>1, <1>2 DEF LockEntry, ExpandPut, Invalidate
<1>3. ASSUME NEW r \in Ranges, ExpandPutFlush(r) \/ ExpandFinish(r)
      PROVE  \A s \in Ranges : Marks(s)
  <2>1. /\ Flush(r) \/ Spill(r)
        /\ maxKey' = maxKey
        /\ expPc[r] # "done"
        /\ FrontierOf(r)
    BY <1>3 DEF ExpandPutFlush, ExpandFinish, Frontier
  <2>2. QED
    BY <2>1, FlushMarks
<1>4. ASSUME NEW r \in Ranges, ExpandPutPublish(r)
      PROVE  \A s \in Ranges : Marks(s)
  <2>1. /\ UNCHANGED <<entryKey, expandedEntries>>
        /\ expPc[r] = "publish"
        /\ todo[r] # {}
        /\ maxKey'[r] = Least(todo[r])
        /\ \A s \in Ranges : s # r => maxKey'[s] = maxKey[s]
    BY <1>4 DEF ExpandPutPublish, TypeOK, ControlInv
  <2>2. maxKey[r] <= maxKey'[r] /\ expandedEntries[r] > 0
    BY <2>1, NextKey DEF Frontier, FrontierOf, TypeOK
  <2>3. Marks(r)
    BY <2>1, <2>2 DEF Marks, TypeOK
  <2>4. QED
    BY <2>1, <2>3, MarksStay
<1>5. ASSUME NEW r \in Ranges, ExpandFinishPublish(r)
      PROVE  \A s \in Ranges : Marks(s)
  <2>1. /\ UNCHANGED <<entryKey, expandedEntries>>
        /\ expPc[r] = "finish"
        /\ cur[r] = FirstOld[r + 1]
        /\ maxKey'[r] = LastEntryKey(r)
        /\ \A s \in Ranges : s # r => maxKey'[s] = maxKey[s]
    BY <1>5 DEF ExpandFinishPublish, TypeOK, ControlInv
  <2>2. maxKey[r] <= maxKey'[r] /\ expandedEntries[r] > 0
    BY <2>1, BoundOrder DEF Frontier, FrontierOf, TypeOK
  <2>3. Marks(r)
    BY <2>1, <2>2 DEF Marks, TypeOK
  <2>4. QED
    BY <2>1, <2>3, MarksStay
<1>6. CASE Install
  BY <1>1, <1>6 DEF Install
<1>7. ASSUME NEW w \in Writers, Call(w) \/ Put(w)
      PROVE  \A r \in Ranges : Marks(r)
  BY <1>1, <1>7 DEF Call, Put, CheckExpanded, LoadEnd, PutRange, PutNew, PutOld,
     PutOldFails, PutInstalled
<1>8. CASE UNCHANGED vars
  BY <1>1, <1>8 DEF vars
<1>9. QED
  BY <1>2, <1>3, <1>4, <1>5, <1>6, <1>7, <1>8 DEF Next, Expander, Terminated

(* A writer at rest keeps what it knows while the marks move. *)
LEMMA WriterStays ==
  ASSUME TypeOK, TypeOK', ControlInv, NEW w \in Writers, WriterOf(w),
         wPc'[w] = wPc[w], request'[w] = request[w], wEnd'[w] = wEnd[w],
         \A r \in Ranges : Marks(r)
  PROVE  WriterOf(w)'
<1> DEFINE k == request[w].key
           r == RangeOf(k)
<1>1. CASE wPc[w] \notin {"end", "new"}
  BY <1>1 DEF WriterOf
<1>2. CASE wPc[w] \in {"end", "new"}
  <2>1. k \in Key
    BY <1>2 DEF ControlInv, Requests
  <2>2. r \in Ranges
    BY <2>1, RangeOfKey
  <2>3. Marks(r) /\ maxKey[r] \in Nat /\ maxKey'[r] \in Nat /\ k \in Nat
    <3>1. maxKey[r] \in Key /\ maxKey'[r] \in Key
      BY <2>2 DEF TypeOK
    <3>2. Marks(r)
      BY <2>2
    <3>3. QED
      BY <2>1, <3>1, <3>2, Geometry DEF Key
  <2>4. k < maxKey'[r]
    BY <1>2, <2>3 DEF WriterOf, Marks
  <2>5. ASSUME wPc[w] = "new"
        PROVE  /\ wEnd[w] \in 1 .. Len(entryKey'[r])
               /\ \A j \in wEnd[w] + 1 .. Len(entryKey'[r]) : k < entryKey'[r][j]
    <3>1. /\ entryKey[r] \in Seq(Key)
          /\ wEnd[w] \in 1 .. Len(entryKey[r])
          /\ \A j \in wEnd[w] + 1 .. Len(entryKey[r]) : k < entryKey[r][j]
      BY <2>2, <2>5 DEF WriterOf, TypeOK
    <3>2. CASE entryKey'[r] = entryKey[r]
      BY <3>1, <3>2
    <3>3. CASE entryKey'[r] # entryKey[r]
      <4>1. PICK x \in Key : entryKey'[r] = Append(entryKey[r], x) /\ maxKey[r] <= x
        BY <2>3, <3>3 DEF Marks
      <4>2. k < x /\ x \in Nat
        BY <2>3, <2>5, <4>1, Geometry DEF WriterOf, Key
      <4>3. Len(entryKey'[r]) = Len(entryKey[r]) + 1
        BY <3>1, <4>1
      <4>4. \A j \in 1 .. Len(entryKey'[r]) :
              entryKey'[r][j] = IF j <= Len(entryKey[r]) THEN entryKey[r][j] ELSE x
        BY <3>1, <4>1
      <4>5. Len(entryKey[r]) \in Nat /\ wEnd[w] \in 1 .. Len(entryKey'[r])
        BY <3>1, <4>3
      <4>6. ASSUME NEW j \in wEnd[w] + 1 .. Len(entryKey'[r]) PROVE k < entryKey'[r][j]
        <5>1. j \in 1 .. Len(entryKey'[r]) /\ j \in Nat
          BY <4>5
        <5>2. j <= Len(entryKey[r]) => j \in wEnd[w] + 1 .. Len(entryKey[r])
          BY <4>5
        <5>3. QED
          BY <3>1, <4>2, <4>4, <5>1, <5>2
      <4>7. QED
        BY <4>5, <4>6
    <3>4. QED
      BY <3>2, <3>3
  <2>6. QED
    BY <2>4, <2>5 DEF WriterOf
<1>3. QED
  BY <1>1, <1>2

LEMMA StepWriters ==
  ASSUME TypeOK, TypeOK', ControlInv, ControlInv', Frontier, WriterInv, [Next]_vars
  PROVE  WriterInv'
<1> USE DEF oldVars, newVars, markVars, expVars, writerVars
<1>1. \A r \in Ranges : Marks(r)
  BY StepMarks
<1>2. ASSUME NEW w \in Writers,
             wPc'[w] = wPc[w], request'[w] = request[w], wEnd'[w] = wEnd[w]
      PROVE  WriterOf(w)'
  BY <1>1, <1>2, WriterStays DEF WriterInv
<1>3. ASSUME UNCHANGED <<wPc, request, wEnd>> PROVE WriterInv'
  BY <1>2, <1>3 DEF WriterInv
<1>4. ASSUME NEW w \in Writers, Call(w) \/ Put(w) PROVE WriterInv'
  <2>1. \A v \in Writers : v # w => WriterOf(v)'
    <3>1. \A v \in Writers : v # w => /\ wPc'[v] = wPc[v]
                                   /\ request'[v] = request[v]
                                   /\ wEnd'[v] = wEnd[v]
      <4>1. CASE Call(w) \/ CheckExpanded(w) \/ LoadEnd(w) \/ PutOldFails(w)
        BY <4>1 DEF Call, CheckExpanded, LoadEnd, PutOldFails, TypeOK
      <4>2. CASE PutRange(w) \/ PutOld(w) \/ PutInstalled(w)
        <5>1. Finish(w)
          BY <4>2 DEF PutRange, PutOld, PutInstalled
        <5>2. QED
          BY <5>1 DEF Finish, TypeOK
      <4>3. QED
        BY <1>4, <4>1, <4>2 DEF Put
    <3>2. QED
      BY <1>2, <3>1
  <2>2. CASE CheckExpanded(w)
    <3>1. /\ wPc'[w] \in {"end", "old"}
          /\ wPc'[w] = "end" => request[w].key < maxKey[RangeOf(request[w].key)]
          /\ UNCHANGED <<request, maxKey>>
      BY <2>2 DEF CheckExpanded, TypeOK
    <3>2. WriterOf(w)'
      BY <3>1 DEF WriterOf
    <3>3. QED
      BY <2>1, <3>2 DEF WriterInv
  <2>3. CASE LoadEnd(w)
    <3> DEFINE r == RangeOf(request[w].key)
    <3>1. request[w].key \in Key /\ wPc[w] = "end"
      BY <2>3 DEF LoadEnd, ControlInv, Requests
    <3>2. r \in Ranges
      BY <3>1, RangeOfKey
    <3>3. /\ wEnd'[w] = expandedEntries[r]
          /\ wPc'[w] = "new"
          /\ UNCHANGED <<request, maxKey, entryKey>>
      BY <2>3 DEF LoadEnd, TypeOK
    <3>4. request[w].key < maxKey[r]
      BY <3>1 DEF WriterInv, WriterOf
    <3>5. maxKey[r] > 0
      <4>1. maxKey[r] \in Key
        BY <3>2 DEF TypeOK
      <4>2. QED
        BY <3>1, <3>4, <4>1, Geometry DEF Key
    <3>6. expandedEntries[r] = Len(entryKey[r]) /\ Len(entryKey[r]) > 0
      BY <3>2, <3>5 DEF Frontier, FrontierOf
    <3>7. entryKey[r] \in Seq(Key)
      BY <3>2 DEF TypeOK
    <3>8. WriterOf(w)'
      BY <3>3, <3>4, <3>6, <3>7 DEF WriterOf
    <3>9. QED
      BY <2>1, <3>8 DEF WriterInv
  <2>4. CASE Call(w) \/ PutRange(w) \/ PutOld(w) \/ PutOldFails(w) \/ PutInstalled(w)
    <3>1. wPc'[w] \notin {"end", "new"}
      BY <2>4 DEF Call, PutRange, PutOld, PutOldFails, PutInstalled, Finish, TypeOK
    <3>2. WriterOf(w)'
      BY <3>1 DEF WriterOf
    <3>3. QED
      BY <2>1, <3>2 DEF WriterInv
  <2>5. QED
    BY <1>4, <2>2, <2>3, <2>4 DEF Put
<1>5. ASSUME NEW r \in Ranges, Expander(r) PROVE WriterInv'
  BY <1>3, <1>5 DEF Expander, LockEntry, ExpandPut, ExpandPutFlush, ExpandPutPublish,
     Invalidate, ExpandFinish, ExpandFinishPublish
<1>6. CASE Install
  BY <1>3, <1>6 DEF Install
<1>7. CASE UNCHANGED vars
  BY <1>3, <1>7 DEF vars
<1>8. QED
  BY <1>4, <1>5, <1>6, <1>7 DEF Next, Terminated

(* Among entries of which the first starts at or below k, the search by    *)
(* key has exactly one answer.                                             *)
LEMMA FindByRangeAnswer ==
  ASSUME TypeOK, NEW r \in Ranges, NEW k \in Key, NEW end \in 1 .. Len(entryKey[r]),
         entryKey[r][1] <= k
  PROVE  \E i \in 1 .. end :
           /\ entryKey[r][i] <= k
           /\ \A j \in i + 1 .. end : k < entryKey[r][j]
           /\ FindByRange(k, r, end) = i
<1> DEFINE below == {i \in 1 .. end : entryKey[r][i] <= k}
           Answer(i) == /\ entryKey[r][i] <= k
                        /\ \A j \in i + 1 .. end : k < entryKey[r][j]
<1>1. entryKey[r] \in Seq(Key) /\ end \in Nat /\ k \in Nat
  BY Geometry DEF TypeOK, Key
<1>2. \A i \in 1 .. end : entryKey[r][i] \in Nat
  BY <1>1, Geometry DEF Key
<1>3. 1 \in below /\ below \in SUBSET (1 .. end)
  OBVIOUS
<1>4. PICK m \in below : \A i \in below : i <= m
  BY <1>1, <1>3, GreatestIndex
<1>5. Answer(m)
  BY <1>1, <1>2, <1>4
<1>6. ASSUME NEW i \in 1 .. end, Answer(i) PROVE i = m
  BY <1>1, <1>2, <1>4, <1>5, <1>6
<1>7. FindByRange(k, r, end) = CHOOSE i \in 1 .. end : Answer(i)
  BY <1>3 DEF FindByRange
<1>8. FindByRange(k, r, end) = m
  <2> HIDE DEF Answer
  <2>1. m \in 1 .. end
    BY <1>4
  <2>2. QED
    BY <1>5, <1>6, <1>7, <2>1
<1>9. QED
  BY <1>4, <1>5, <1>8

(* The inductive invariant implies the property. *)
LEMMA FrontierFindsHome ==
  ASSUME TypeOK, ControlInv, Frontier, WriterInv
  PROVE  EndFindsHome
<1> SUFFICES ASSUME NEW w \in Writers, wPc[w] = "new"
             PROVE  LET k == request[w].key
                        r == RangeOf(k)
                    IN  /\ wEnd[w] \in 1 .. Len(entryKey[r])
                        /\ FindByRange(k, r, wEnd[w]) # 0
                        /\ FindByRange(k, r, wEnd[w]) = FindByRange(k, r, Len(entryKey[r]))
  BY DEF EndFindsHome
<1> DEFINE k == request[w].key
           r == RangeOf(k)
           end == wEnd[w]
           last == Len(entryKey[r])
<1>1. k \in Key
  BY DEF ControlInv, Requests
<1>2. r \in Ranges /\ StartKey(r) <= k
  BY <1>1, RangeOfKey DEF InRange
<1>3. /\ end \in 1 .. last
      /\ \A j \in end + 1 .. last : k < entryKey[r][j]
  BY DEF WriterInv, WriterOf
<1>4. entryKey[r] \in Seq(Key) /\ last \in Nat
  BY <1>2 DEF TypeOK
<1>5. entryKey[r][1] <= k
  BY <1>2, <1>3, <1>4 DEF Frontier, FrontierOf
<1> HIDE DEF k, r, end, last
<1>6. PICK i \in 1 .. end :
        /\ entryKey[r][i] <= k
        /\ \A j \in i + 1 .. end : k < entryKey[r][j]
        /\ FindByRange(k, r, end) = i
  BY <1>1, <1>2, <1>3, <1>5, FindByRangeAnswer DEF last
<1>7. PICK m \in 1 .. last :
        /\ entryKey[r][m] <= k
        /\ \A j \in m + 1 .. last : k < entryKey[r][j]
        /\ FindByRange(k, r, last) = m
  <2>1. last \in 1 .. Len(entryKey[r])
    BY <1>3, <1>4 DEF last
  <2>2. QED
    BY <1>1, <1>2, <1>5, <2>1, FindByRangeAnswer
<1>8. i = m
  <2>1. \A j \in 1 .. last : entryKey[r][j] \in Nat
    BY <1>4, Geometry DEF Key, last
  <2>2. k \in Nat
    BY <1>1, Geometry DEF Key
  <2>3. m <= end
    BY <1>3, <1>4, <1>7, <2>1, <2>2
  <2>4. QED
    BY <1>3, <1>4, <1>6, <1>7, <2>1, <2>2, <2>3
<1>9. QED
  BY <1>3, <1>6, <1>7, <1>8 DEF k, r, end, last

-----------------------------------------------------------------------------
(***************************************************************************)
(* The type invariant of the expansion and its writers holds for every     *)
(* geometry of the B-level (blevel.h:380-440).                             *)
(***************************************************************************)
THEOREM TypeCorrect == Spec => []TypeOK
<1>1. Spec => [](TypeOK /\ ControlInv)
  BY InitControl, StepControl, PTL DEF Spec
<1>2. QED
  BY <1>1, PTL

Expansion_Inv == TypeOK /\ ControlInv /\ Frontier /\ WriterInv

(***************************************************************************)
(* The inductive invariant behind the two theorems below: where each       *)
(* expander is, how far its marks have come, and what a writer that was    *)
(* told "expanded" may rely on (blevel.cc:190-237, 375-511).               *)
(***************************************************************************)
THEOREM Invariance == Spec => []Expansion_Inv
<1>1. Init => Expansion_Inv
  BY InitControl, InitFrontier DEF Expansion_Inv
<1>2. Expansion_Inv /\ [Next]_vars => Expansion_Inv'
  <2> SUFFICES ASSUME Expansion_Inv, [Next]_vars PROVE Expansion_Inv'
    OBVIOUS
  <2>1. TypeOK /\ ControlInv /\ Frontier /\ WriterInv
    BY DEF Expansion_Inv
  <2>2. TypeOK' /\ ControlInv'
    BY <2>1, StepControl
  <2>3. Frontier'
    BY <2>1, StepFrontier
  <2>4. WriterInv'
    BY <2>1, <2>2, StepWriters
  <2>5. QED
    BY <2>2, <2>3, <2>4 DEF Expansion_Inv
<1>3. QED
  BY <1>1, <1>2, PTL DEF Spec

(***************************************************************************)
(* The two unlocked loads of IsKeyExpanded never mislead PutRange, for any *)
(* number of expanders, writers, keys and entries (blevel.cc:503-511,      *)
(* 846-853).                                                               *)
(***************************************************************************)
THEOREM EndAlwaysFindsHome == Spec => []EndFindsHome
<1>1. Expansion_Inv => EndFindsHome
  BY FrontierFindsHome DEF Expansion_Inv
<1>2. QED
  BY <1>1, Invariance, PTL

(***************************************************************************)
(* expanded_max_key_ and expanded_entries_ never go back, and a range      *)
(* admits keys only once it has an entry to hold them (blevel.cc:503-511). *)
(***************************************************************************)
THEOREM AlwaysExpandedForever == Spec => ExpandedForever
<1>1. Expansion_Inv /\ [Next]_vars => [MarksAdvance]_vars
  BY StepMarks DEF Expansion_Inv, Marks, MarksAdvance
<1>2. QED
  BY <1>1, Invariance, PTL DEF Spec, ExpandedForever


-----------------------------------------------------------------------------
(***************************************************************************)
(* The values that BLevelExpansion moves: no copy is stale, every key is   *)
(* where a search looks for it, the whole implements the plain map, and    *)
(* size_ of the new B-level has missed no key when that takes over; for    *)
(* every number of expanders, writers, keys and entries.                   *)
(***************************************************************************)

-----------------------------------------------------------------------------
(* Where keys are in the old level. *)

(* Every key lies in exactly one old entry. *)
LEMMA OldEntryOfKey ==
  ASSUME NEW k \in Key
  PROVE  /\ OldEntryOf(k) \in OldEntry
         /\ \A i \in OldEntry : OldKey[i] <= k <=> i <= OldEntryOf(k)
         /\ \A i \in OldEntry : InOldEntry(k, i) <=> i = OldEntryOf(k)
<1> DEFINE below == {i \in 1 .. Len(OldKey) : OldKey[i] <= k}
<1>1. 1 \in below
  BY GeometryAssumption, Geometry DEF Key, OldEntry
<1>2. PICK m \in below : \A i \in below : i <= m
  BY <1>1, GreatestIndex, Geometry
<1>3. ASSUME NEW i \in OldEntry PROVE OldKey[i] <= k <=> i <= m
  <2>1. m \in OldEntry /\ OldKey[m] \in Key /\ OldKey[i] \in Key /\ k \in Nat
    BY Geometry DEF OldEntry, Key
  <2>2. i < m => OldKey[i] < OldKey[m]
    BY <2>1, GeometryAssumption
  <2>3. QED
    BY <1>2, <2>1, <2>2, Geometry DEF OldEntry, Key
<1>4. ASSUME NEW i \in OldEntry PROVE InOldEntry(k, i) <=> i = m
  <2>1. Len(OldKey) \in Nat /\ m \in OldEntry /\ k \in Nat
    BY Geometry DEF OldEntry, Key
  <2>2. i < Len(OldKey) => i + 1 \in OldEntry /\ OldKey[i + 1] \in Nat
    BY <2>1, Geometry DEF OldEntry, Key
  <2>3. QED
    BY <1>3, <2>1, <2>2 DEF InOldEntry, OldEntry
<1>5. OldEntryOf(k) = m
  BY <1>2, <1>4 DEF OldEntryOf, OldEntry
<1>6. QED
  BY <1>2, <1>3, <1>4, <1>5 DEF OldEntry

(* A key below the bound of an entry lies in an earlier one. *)
LEMMA BelowBound ==
  ASSUME NEW k \in Key, NEW i \in 1 .. Len(OldKey) + 1, k < OldBound(i)
  PROVE  OldEntryOf(k) < i
<1>1. CASE i \in OldEntry
  BY <1>1, OldEntryOfKey, Geometry DEF OldBound, OldEntry, Key
<1>2. CASE i \notin OldEntry
  BY <1>2, OldEntryOfKey, Geometry DEF OldEntry
<1>3. QED
  BY <1>1, <1>2

(* The keys of a range are those of its share of the old entries. *)
LEMMA EntryInRange ==
  ASSUME NEW k \in Key, NEW r \in Ranges
  PROVE  InRange(k, r) <=> /\ FirstOld[r] <= OldEntryOf(k)
                           /\ OldEntryOf(k) < FirstOld[r + 1]
<1>1. FirstOld[r] \in OldEntry /\ OldEntryOf(k) \in OldEntry /\ Len(OldKey) \in Nat
  BY Geometry, OldEntryOfKey
<1>2. StartKey(r) <= k <=> FirstOld[r] <= OldEntryOf(k)
  BY <1>1, OldEntryOfKey DEF StartKey
<1>3. CASE r = NRange
  <2>1. FirstOld[r + 1] = Len(OldKey) + 1
    BY <1>3, GeometryAssumption
  <2>2. QED
    BY <1>1, <1>2, <1>3, <2>1, Geometry DEF InRange, OldEntry
<1>4. CASE r # NRange
  <2>1. r + 1 \in Ranges /\ r < NRange
    BY <1>4, Geometry DEF Ranges
  <2>2. FirstOld[r + 1] \in OldEntry
    BY <2>1, Geometry
  <2>3. StartKey(r + 1) <= k <=> FirstOld[r + 1] <= OldEntryOf(k)
    BY <2>2, OldEntryOfKey DEF StartKey
  <2>4. StartKey(r + 1) \in Nat /\ k \in Nat
    BY <2>1, Geometry DEF Key
  <2>5. QED
    BY <1>1, <1>2, <2>1, <2>2, <2>3, <2>4 DEF InRange, OldEntry
<1>5. QED
  BY <1>3, <1>4

-----------------------------------------------------------------------------
(***************************************************************************)
(* What an expander has done so far: the keys that it has passed are those *)
(* of the entries behind it and of the entry that it copies, which is      *)
(* locked.  Floor is a lower bound of the keys it has yet to write.        *)
(***************************************************************************)
Copying(r) == expPc[r] \in {"copy", "publish"}
Ended(r)   == expPc[r] \in {"finish", "done"}

Passed(r) == {k \in Key : /\ InRange(k, r)
                          /\ OldEntryOf(k) <= cur[r]
                          /\ OldEntryOf(k) = cur[r] => Copying(r)}

NewKeys(r) == UNION {KeysOf(newKV[r][i]) : i \in 1 .. Capacity[r]}

Floor(r) == IF HasRoom(r) THEN nextEntryKey[r] ELSE entryKey[r][Len(entryKey[r])]

(* The keys still to be handed to ExpandPut_. *)
TodoOf(r) ==
  \A k \in todo[r] : k \in Passed(r) /\ k \notin NewKeys(r) /\ Floor(r) <= k

(* The keys in key_buf. *)
BufOf(r) ==
  /\ expPc[r] \in {"publish", "finish", "done"} => buf[r] = Empty
  /\ \A k \in KeysOf(buf[r]) :
       /\ k \in Passed(r)
       /\ k \notin NewKeys(r)
       /\ maxKey[r] <= k
       /\ Floor(r) <= k
       /\ \A j \in todo[r] : k < j
       /\ buf[r][k] = oldKV[k]

FloorOf(r) ==
  /\ expPc[r] = "fault" => maxKey[r] <= OldBound(cur[r])
  /\ expPc[r] = "next" => Floor(r) <= OldBound(cur[r])
  /\ Copying(r) => Floor(r) <= OldBound(cur[r] + 1)

(* The new entries and the keys in them. *)
OrderOf(r) ==
  LET n == Len(entryKey[r]) IN
  /\ \A i, j \in 1 .. n : i < j => entryKey[r][i] < entryKey[r][j]
  /\ HasRoom(r) /\ ~ Ended(r) => \A i \in 1 .. n : entryKey[r][i] < nextEntryKey[r]

NewKeyAt(r, i, k) ==
  /\ i <= Len(entryKey[r])
  /\ k \in Passed(r)
  /\ entryKey[r][i] <= k
  /\ \A j \in i + 1 .. Len(entryKey[r]) : k < entryKey[r][j]
  /\ HasRoom(r) /\ ~ Ended(r) => k < nextEntryKey[r]
  /\ \A j \in todo[r] : k < j

EntriesOf(r) ==
  \A i \in 1 .. Capacity[r] : \A k \in KeysOf(newKV[r][i]) : NewKeyAt(r, i, k)

(* The old entries behind, and what became of their keys. *)
OldOf(r) ==
  /\ \A i \in FirstOld[r] .. FirstOld[r + 1] - 1 : oldValid[i] <=> cur[r] <= i
  /\ \A k \in Passed(r) :
       oldKV[k] # None => k \in todo[r] \cup KeysOf(buf[r]) \cup NewKeys(r)

RangeInv(r) ==
  TodoOf(r) /\ BufOf(r) /\ FloorOf(r) /\ OrderOf(r) /\ EntriesOf(r) /\ OldOf(r)

IdleOf(w) == wPc[w] = "idle" => request[w] = None

AllDone == \A r \in Ranges : expPc[r] = "done"

Values == /\ \A r \in Ranges : RangeInv(r)
          /\ \A w \in Writers : IdleOf(w)
          /\ installed => AllDone

-----------------------------------------------------------------------------
(* Keys in their entries and ranges. *)
LEMMA EntryOrder ==
  ASSUME NEW j \in Key, NEW k \in Key, OldEntryOf(j) < OldEntryOf(k)
  PROVE  j < k
<1>1. /\ OldEntryOf(j) \in OldEntry /\ OldEntryOf(k) \in OldEntry
      /\ OldKey[OldEntryOf(k)] <= k
      /\ ~ (OldKey[OldEntryOf(k)] <= j)
  <2>1. OldEntryOf(j) \in OldEntry /\ OldEntryOf(k) \in OldEntry
    BY OldEntryOfKey
  <2>2. OldEntryOf(j) \in Nat /\ OldEntryOf(k) \in Nat
    BY <2>1, Geometry DEF OldEntry
  <2>3. QED
    BY <2>1, <2>2, OldEntryOfKey
<1>2. OldKey[OldEntryOf(k)] \in Nat /\ j \in Nat /\ k \in Nat
  BY <1>1, Geometry DEF Key
<1>3. QED
  BY <1>1, <1>2

(* A key of the entry that an expander is at. *)
LEMMA CurrentEntry ==
  ASSUME TypeOK, ControlInv, NEW r \in Ranges, cur[r] < FirstOld[r + 1],
         NEW k \in Key, InOldEntry(k, cur[r])
  PROVE  /\ cur[r] \in OldEntry
         /\ OldEntryOf(k) = cur[r]
         /\ InRange(k, r)
         /\ OldBound(cur[r]) <= k
         /\ k <= OldBound(cur[r] + 1)
<1>1. cur[r] \in OldEntry
  BY Geometry DEF TypeOK, ControlInv, OldEntry
<1>2. OldEntryOf(k) = cur[r]
  BY <1>1, OldEntryOfKey
<1>3. InRange(k, r)
  BY <1>2, EntryInRange DEF ControlInv
<1>4. OldBound(cur[r]) <= k
  BY <1>1 DEF OldBound, InOldEntry
<1>5. QED
  BY <1>1, <1>2, <1>3, <1>4, BoundOrder

(* A value in a new entry makes its key one of the new keys. *)
LEMMA NewKeysMember ==
  ASSUME NEW r \in Ranges, NEW k \in Key
  PROVE  k \in NewKeys(r) <=> \E i \in 1 .. Capacity[r] : newKV[r][i][k] # None
BY DEF NewKeys, KeysOf

LEMMA NewKeysPassed ==
  ASSUME NEW r \in Ranges, EntriesOf(r), NEW k \in NewKeys(r)
  PROVE  k \in Key /\ k \in Passed(r)
<1>1. PICK i \in 1 .. Capacity[r] : k \in KeysOf(newKV[r][i])
  BY DEF NewKeys
<1>2. QED
  BY <1>1 DEF EntriesOf, NewKeyAt, KeysOf

(***************************************************************************)
(* A range whose expander and new entries rest keeps its invariant while   *)
(* nobody touches the old keys that it has passed.                         *)
(***************************************************************************)
LEMMA RangeStays ==
  ASSUME NEW r \in Ranges, RangeInv(r),
         entryKey'[r] = entryKey[r], newKV'[r] = newKV[r], maxKey'[r] = maxKey[r],
         expPc'[r] = expPc[r], cur'[r] = cur[r], todo'[r] = todo[r],
         buf'[r] = buf[r], nextEntryKey'[r] = nextEntryKey[r],
         \A i \in FirstOld[r] .. FirstOld[r + 1] - 1 : oldValid'[i] = oldValid[i],
         \A k \in Passed(r) : oldKV'[k] = oldKV[k]
  PROVE  RangeInv(r)'
<1>1. /\ Copying(r)' = Copying(r)
      /\ Ended(r)' = Ended(r)
      /\ HasRoom(r)' = HasRoom(r)
  BY DEF Copying, Ended, HasRoom
<1>2. Passed(r)' = Passed(r)
  BY <1>1 DEF Passed
<1>3. NewKeys(r)' = NewKeys(r)
  BY DEF NewKeys
<1>4. Floor(r)' = Floor(r)
  BY <1>1 DEF Floor
<1>5. TodoOf(r)'
  BY <1>2, <1>3, <1>4 DEF RangeInv, TodoOf
<1>6. BufOf(r)'
  BY <1>2, <1>3, <1>4 DEF RangeInv, BufOf
<1>7. FloorOf(r)'
  BY <1>1, <1>4 DEF RangeInv, FloorOf
<1>8. OrderOf(r)'
  BY <1>1 DEF RangeInv, OrderOf
<1>9. EntriesOf(r)'
  BY <1>1, <1>2 DEF RangeInv, EntriesOf, NewKeyAt
<1>10. OldOf(r)'
  BY <1>2, <1>3 DEF RangeInv, OldOf
<1>11. QED
  BY <1>5, <1>6, <1>7, <1>8, <1>9, <1>10 DEF RangeInv

-----------------------------------------------------------------------------
(* The invariant holds at the start. *)
LEMMA InitValues == Init => Values
<1> SUFFICES ASSUME Init PROVE Values
  OBVIOUS
<1>1. ASSUME NEW r \in Ranges PROVE RangeInv(r)
  <2>1. /\ expPc[r] = "next"
        /\ cur[r] = FirstOld[r]
        /\ todo[r] = {}
        /\ buf[r] = Empty
        /\ entryKey[r] = <<>>
        /\ nextEntryKey[r] = StartKey(r)
        /\ newKV[r] = [i \in 1 .. Capacity[r] |-> Empty]
    BY DEF Init
  <2>2. KeysOf(buf[r]) = {} /\ NewKeys(r) = {}
    BY <2>1 DEF KeysOf, NewKeys, Empty
  <2>3. ~ Copying(r) /\ ~ Ended(r)
    BY <2>1 DEF Copying, Ended
  <2>4. Passed(r) = {}
    <3>1. ASSUME NEW k \in Passed(r) PROVE FALSE
      <4>1. k \in Key /\ InRange(k, r) /\ OldEntryOf(k) < cur[r]
        BY <2>3, <3>1, OldEntryOfKey, Geometry DEF Passed, OldEntry, Init
      <4>2. QED
        BY <2>1, <4>1, EntryInRange, OldEntryOfKey, Geometry DEF OldEntry
    <3>2. QED
      BY <3>1
  <2>5. Floor(r) = OldBound(cur[r])
    <3>1. HasRoom(r)
      BY <2>1, SizeAssumption DEF HasRoom
    <3>2. OldBound(cur[r]) = StartKey(r)
      BY <2>1, Geometry DEF OldBound, StartKey
    <3>3. QED
      BY <2>1, <3>1, <3>2 DEF Floor
  <2>6. TodoOf(r) /\ BufOf(r)
    BY <2>1, <2>2 DEF TodoOf, BufOf
  <2>7. FloorOf(r)
    <3>1. Floor(r) \in Nat
      BY <2>1, <2>5, Geometry DEF OldBound, StartKey, Key
    <3>2. QED
      BY <2>1, <2>3, <2>5, <3>1 DEF FloorOf
  <2>8. OrderOf(r)
    BY <2>1 DEF OrderOf
  <2>9. EntriesOf(r)
    BY <2>1 DEF EntriesOf, KeysOf, Empty
  <2>10. OldOf(r)
    <3>1. \A i \in FirstOld[r] .. FirstOld[r + 1] - 1 : oldValid[i]
      BY Geometry DEF Init, OldEntry
    <3>2. QED
      BY <2>1, <2>4, <3>1 DEF OldOf
  <2>11. QED
    BY <2>6, <2>7, <2>8, <2>9, <2>10 DEF RangeInv
<1>2. \A w \in Writers : IdleOf(w)
  BY DEF Init, IdleOf
<1>3. ~ installed
  BY DEF Init
<1>4. QED
  BY <1>1, <1>2, <1>3 DEF Values

-----------------------------------------------------------------------------
(***************************************************************************)
(* What each step of an expander does to its own range.                    *)
(***************************************************************************)
LEMMA LockEntryValues ==
  ASSUME TypeOK, ControlInv, Frontier, NEW r \in Ranges, RangeInv(r), LockEntry(r)
  PROVE  RangeInv(r)'
<1> USE DEF oldVars, newVars, markVars, writerVars
<1>1. /\ expPc[r] = "next"
      /\ expPc'[r] = IF todo'[r] = {} THEN "fault" ELSE "copy"
      /\ todo[r] = {}
      /\ todo'[r] = {k \in KeysOf(oldKV) : InOldEntry(k, cur[r])}
      /\ cur[r] \in OldEntry /\ cur[r] < FirstOld[r + 1]
      /\ UNCHANGED <<oldKV, oldValid, entryKey, newKV, maxKey, cur, buf, nextEntryKey>>
  BY Geometry DEF LockEntry, TypeOK, ControlInv, Finished, OldEntry
<1>2. /\ HasRoom(r)' = HasRoom(r)
      /\ Floor(r)' = Floor(r)
      /\ NewKeys(r)' = NewKeys(r)
      /\ ~ Copying(r) /\ ~ Ended(r) /\ ~ Ended(r)'
      /\ Copying(r)' <=> todo'[r] # {}
  BY <1>1 DEF HasRoom, Floor, NewKeys, Copying, Ended
<1>3. \A k \in Passed(r) : k \in Key /\ OldEntryOf(k) < cur[r] /\ k \in Passed(r)'
  BY <1>1, <1>2, OldEntryOfKey, Geometry DEF Passed, OldEntry
<1>4. ASSUME NEW k \in todo'[r]
      PROVE  /\ k \in Key /\ oldKV[k] # None
             /\ OldEntryOf(k) = cur[r]
             /\ InRange(k, r)
             /\ OldBound(cur[r]) <= k
             /\ k \in Passed(r)'
             /\ \A j \in Passed(r) : j < k
  <2>1. k \in Key /\ oldKV[k] # None /\ InOldEntry(k, cur[r])
    BY <1>1 DEF KeysOf
  <2>2. OldEntryOf(k) = cur[r] /\ InRange(k, r) /\ OldBound(cur[r]) <= k
    BY <1>1, <2>1, CurrentEntry
  <2>3. k \in Passed(r)'
    BY <1>1, <1>2, <2>1, <2>2, Geometry DEF Passed, OldEntry
  <2>4. \A j \in Passed(r) : j < k
    BY <1>3, <2>1, <2>2, EntryOrder
  <2>5. QED
    BY <2>1, <2>2, <2>3, <2>4
<1>5. /\ Floor(r) \in Nat
      /\ Floor(r) <= OldBound(cur[r])
      /\ maxKey[r] <= OldBound(cur[r])
      /\ OldBound(cur[r]) \in Nat
      /\ OldBound(cur[r] + 1) \in Nat
      /\ OldBound(cur[r]) <= OldBound(cur[r] + 1)
  <2>1. Floor(r) \in Nat
    <3>1. CASE HasRoom(r)
      BY <3>1, Geometry DEF Floor, TypeOK, Key
    <3>2. CASE ~ HasRoom(r)
      <4>1. entryKey[r] \in Seq(Key) /\ Len(entryKey[r]) > 0
        BY <3>2, SizeAssumption DEF HasRoom, TypeOK
      <4>2. QED
        BY <3>2, <4>1, Geometry DEF Floor, Key
    <3>3. QED
      BY <3>1, <3>2
  <2>2. Floor(r) <= OldBound(cur[r]) /\ maxKey[r] <= OldBound(cur[r])
    BY <1>1 DEF RangeInv, FloorOf, Frontier, FrontierOf
  <2>3. QED
    BY <1>1, <2>1, <2>2, BoundOrder, Geometry DEF OldBound, OldEntry, Key
<1>6. TodoOf(r)'
  <2>1. ASSUME NEW k \in todo'[r] PROVE k \notin NewKeys(r)
    <3>1. EntriesOf(r)
      BY DEF RangeInv
    <3>2. k \in Passed(r) => k < k
      BY <1>4, <2>1
    <3>3. k \in Nat
      BY <1>4, <2>1, Geometry DEF Key
    <3>4. QED
      BY <3>1, <3>2, <3>3, NewKeysPassed
  <2>2. ASSUME NEW k \in todo'[r] PROVE Floor(r) <= k
    BY <1>4, <1>5, <2>2, Geometry DEF Key
  <2>3. QED
    BY <1>2, <1>4, <2>1, <2>2 DEF TodoOf
<1>7. BufOf(r)'
  <2>1. expPc'[r] \notin {"publish", "finish", "done"}
    BY <1>1
  <2>2. QED
    BY <1>1, <1>2, <1>3, <1>4, <2>1 DEF RangeInv, BufOf
<1>8. FloorOf(r)'
  <2>1. Copying(r)' => Floor(r) <= OldBound(cur[r] + 1)
    BY <1>5
  <2>2. QED
    BY <1>1, <1>2, <1>5, <2>1 DEF FloorOf
<1>9. OrderOf(r)'
  BY <1>1, <1>2 DEF RangeInv, OrderOf
<1>10. EntriesOf(r)'
  BY <1>1, <1>2, <1>3, <1>4 DEF RangeInv, EntriesOf, NewKeyAt
<1>11. OldOf(r)'
  <2>1. ASSUME NEW k \in Passed(r)', oldKV[k] # None
        PROVE  k \in todo'[r] \cup KeysOf(buf[r]) \cup NewKeys(r)
    <3>1. k \in Key /\ InRange(k, r) /\ OldEntryOf(k) <= cur[r]
      BY <1>1, <2>1 DEF Passed
    <3>2. CASE OldEntryOf(k) = cur[r]
      BY <1>1, <2>1, <3>1, <3>2, OldEntryOfKey DEF KeysOf
    <3>3. CASE OldEntryOf(k) # cur[r]
      <4>1. k \in Passed(r)
        BY <3>1, <3>3 DEF Passed
      <4>2. QED
        BY <1>1, <2>1, <4>1 DEF RangeInv, OldOf
    <3>4. QED
      BY <3>2, <3>3
  <2>2. QED
    BY <1>1, <1>2, <2>1 DEF RangeInv, OldOf
<1>12. QED
  BY <1>6, <1>7, <1>8, <1>9, <1>10, <1>11 DEF RangeInv

LEMMA ExpandPutValues ==
  ASSUME TypeOK, ControlInv, Frontier, NEW r \in Ranges, RangeInv(r), ExpandPut(r)
  PROVE  RangeInv(r)'
<1> USE DEF oldVars, newVars, markVars, writerVars
<1> DEFINE k == Least(todo[r])
<1>1. /\ expPc[r] = "copy"
      /\ todo[r] # {}
      /\ todo'[r] = todo[r] \ {k}
      /\ buf'[r] = [buf[r] EXCEPT ![k] = oldKV[k]]
      /\ UNCHANGED <<oldKV, oldValid, entryKey, newKV, maxKey, expPc, cur, nextEntryKey>>
  BY DEF ExpandPut, Buffer, TypeOK
<1>2. k \in todo[r] /\ k \in Key /\ \A j \in todo[r] : k <= j
  BY <1>1, NextKey
<1>3. /\ HasRoom(r)' = HasRoom(r)
      /\ Floor(r)' = Floor(r)
      /\ NewKeys(r)' = NewKeys(r)
      /\ Copying(r)' = Copying(r)
      /\ Ended(r)' = Ended(r)
  BY <1>1 DEF HasRoom, Floor, NewKeys, Copying, Ended
<1>4. Passed(r)' = Passed(r)
  BY <1>1, <1>3 DEF Passed
<1>5. \A j \in todo'[r] : j \in todo[r] /\ k < j
  <2>1. todo[r] \subseteq Nat
    BY Geometry DEF TypeOK, Key
  <2> HIDE DEF k
  <2>2. QED
    BY <1>1, <1>2, <2>1
<1> HIDE DEF k
<1>6. \A j \in KeysOf(buf'[r]) : j = k \/ j \in KeysOf(buf[r])
  BY <1>1, <1>2 DEF KeysOf, TypeOK, Content
<1>7. KeysOf(buf[r]) \subseteq KeysOf(buf'[r]) \cup {k}
  BY <1>1, <1>2 DEF KeysOf, TypeOK, Content
<1>8. /\ buf'[r][k] = oldKV[k]
      /\ \A j \in Key : j # k => buf'[r][j] = buf[r][j]
  BY <1>1, <1>2 DEF TypeOK, Content
<1>9. TodoOf(r)'
  BY <1>3, <1>4, <1>5 DEF RangeInv, TodoOf
<1>10. BufOf(r)'
  <2>1. ASSUME NEW j \in KeysOf(buf'[r])
        PROVE  /\ j \in Passed(r)
               /\ j \notin NewKeys(r)
               /\ maxKey[r] <= j
               /\ Floor(r) <= j
               /\ \A i \in todo'[r] : j < i
               /\ buf'[r][j] = oldKV[j]
    <3>1. CASE j = k
      BY <1>2, <1>5, <1>8, <3>1 DEF RangeInv, TodoOf, Frontier, FrontierOf
    <3>2. CASE j # k
      <4>1. j \in KeysOf(buf[r]) /\ j \in Key
        BY <1>6, <3>2 DEF KeysOf
      <4>2. QED
        BY <1>5, <1>8, <3>2, <4>1 DEF RangeInv, BufOf
    <3>3. QED
      BY <3>1, <3>2
  <2>2. QED
    BY <1>1, <1>3, <1>4, <2>1 DEF BufOf
<1>11. FloorOf(r)'
  BY <1>1, <1>3 DEF RangeInv, FloorOf
<1>12. OrderOf(r)'
  BY <1>1, <1>3 DEF RangeInv, OrderOf
<1>13. EntriesOf(r)'
  BY <1>1, <1>3, <1>4, <1>5 DEF RangeInv, EntriesOf, NewKeyAt
<1>14. OldOf(r)'
  <2>1. ASSUME NEW j \in Passed(r), oldKV[j] # None
        PROVE  j \in todo'[r] \cup KeysOf(buf'[r]) \cup NewKeys(r)
    <3>1. j \in todo[r] \cup KeysOf(buf[r]) \cup NewKeys(r) /\ j \in Key
      BY <2>1 DEF RangeInv, OldOf, Passed
    <3>2. j = k => j \in KeysOf(buf'[r])
      BY <1>8, <2>1, <3>1 DEF KeysOf
    <3>3. QED
      BY <1>1, <1>7, <3>1, <3>2
  <2>2. QED
    BY <1>1, <1>3, <1>4, <2>1 DEF RangeInv, OldOf
<1>15. QED
  BY <1>9, <1>10, <1>11, <1>12, <1>13, <1>14 DEF RangeInv

(***************************************************************************)
(* What a flush or a spill does to the new entries of its range: the keys  *)
(* of the buffer come into the last entry, above or among those that it    *)
(* holds, and nothing else changes.                                        *)
(***************************************************************************)
LEMMA FlushEntries ==
  ASSUME TypeOK, Frontier, NEW r \in Ranges, RangeInv(r), ~ Ended(r),
         Flush(r) \/ Spill(r)
  PROVE  LET n == Len(entryKey'[r]) IN
         /\ n \in 1 .. Capacity[r]
         /\ buf'[r] = Empty
         /\ \A s \in Ranges : s # r => newKV'[s] = newKV[s] /\ buf'[s] = buf[s]
         /\ \A i \in 1 .. Capacity[r] : i # n => newKV'[r][i] = newKV[r][i]
         /\ newKV'[r][n] = Overlay(newKV[r][n], buf[r])
         /\ \A i \in 1 .. Len(entryKey[r]) : entryKey'[r][i] = entryKey[r][i]
         /\ entryKey'[r][n] = Floor(r)
         /\ \A i \in 1 .. n : entryKey'[r][i] <= Floor(r)
         /\ \A i, j \in 1 .. n : i < j => entryKey'[r][i] < entryKey'[r][j]
<1> DEFINE n == Len(entryKey'[r])
<1>1. /\ entryKey[r] \in Seq(Key)
      /\ nextEntryKey[r] \in Key
      /\ Capacity[r] \in Nat \ {0}
      /\ newKV[r] \in [1 .. Capacity[r] -> Content]
      /\ buf[r] \in Content
      /\ DOMAIN newKV = Ranges
      /\ \A k \in Key : k \in Nat
  BY SizeAssumption, Geometry DEF TypeOK, Key
<1>2. CASE Flush(r)
  <2>1. /\ HasRoom(r)
        /\ entryKey'[r] = Append(entryKey[r], nextEntryKey[r])
        /\ newKV' = [newKV EXCEPT ![r][Len(entryKey[r]) + 1] = buf[r]]
        /\ buf' = [buf EXCEPT ![r] = Empty]
    BY <1>2 DEF Flush, TypeOK
  <2>2. n = Len(entryKey[r]) + 1 /\ n \in 1 .. Capacity[r]
    BY <1>1, <2>1 DEF HasRoom, TypeOK
  <2>3. /\ \A i \in 1 .. Len(entryKey[r]) : entryKey'[r][i] = entryKey[r][i]
        /\ entryKey'[r][n] = nextEntryKey[r]
        /\ Floor(r) = nextEntryKey[r]
    BY <1>1, <2>1, <2>2 DEF Floor
  <2>4. /\ \A i \in 1 .. Len(entryKey[r]) : entryKey[r][i] < nextEntryKey[r]
        /\ \A i, j \in 1 .. Len(entryKey[r]) : i < j => entryKey[r][i] < entryKey[r][j]
    BY <2>1 DEF RangeInv, OrderOf
  <2>5. \A i \in 1 .. Len(entryKey[r]) : entryKey[r][i] \in Nat
    BY <1>1
  <2>6. nextEntryKey[r] \in Nat
    BY <1>1
  <2>7. /\ \A i \in 1 .. n : i \in 1 .. Len(entryKey[r]) \/ i = n
        /\ \A i, j \in 1 .. n : i < j => i \in 1 .. Len(entryKey[r])
    BY <1>1, <2>2
  <2>8. /\ \A i \in 1 .. n : entryKey'[r][i] <= Floor(r)
        /\ \A i, j \in 1 .. n : i < j => entryKey'[r][i] < entryKey'[r][j]
    <3> HIDE DEF n
    <3>1. ASSUME NEW i \in 1 .. n PROVE entryKey'[r][i] <= Floor(r)
      <4>1. CASE i = n
        BY <2>3, <2>6, <4>1
      <4>2. CASE i # n
        <5>1. i \in 1 .. Len(entryKey[r])
          BY <2>7, <4>2
        <5>2. entryKey[r][i] < nextEntryKey[r] /\ entryKey[r][i] \in Nat
          BY <2>4, <2>5, <5>1
        <5>3. QED
          BY <2>3, <2>6, <5>1, <5>2
      <4>3. QED
        BY <4>1, <4>2
    <3>2. ASSUME NEW i \in 1 .. n, NEW j \in 1 .. n, i < j
          PROVE  entryKey'[r][i] < entryKey'[r][j]
      <4>1. i \in 1 .. Len(entryKey[r])
        BY <2>7, <3>2
      <4>2. CASE j = n
        BY <2>3, <2>4, <4>1, <4>2
      <4>3. CASE j # n
        <5>1. j \in 1 .. Len(entryKey[r])
          BY <2>7, <4>3
        <5>2. QED
          BY <2>3, <2>4, <3>2, <4>1, <5>1
      <4>4. QED
        BY <4>2, <4>3
    <3>3. QED
      BY <3>1, <3>2
  <2>9. newKV[r][n] = Empty
    <3>1. \A k \in Key : newKV[r][n][k] = None
      BY <1>1, <2>2 DEF RangeInv, EntriesOf, NewKeyAt, KeysOf
    <3>2. newKV[r][n] \in Content
      BY <1>1, <2>2
    <3>3. QED
      BY <3>1, <3>2 DEF Empty, Content
  <2>10. newKV'[r][n] = buf[r]
    BY <1>1, <2>1, <2>2
  <2>11. Overlay(Empty, buf[r]) = buf[r]
    BY <1>1 DEF Overlay, Empty, Content
  <2>12. \A i \in 1 .. Capacity[r] : i # n => newKV'[r][i] = newKV[r][i]
    BY <1>1, <2>1, <2>2
  <2>13. \A s \in Ranges : s # r => newKV'[s] = newKV[s] /\ buf'[s] = buf[s]
    BY <1>1, <2>1 DEF TypeOK
  <2>14. buf'[r] = Empty
    BY <2>1 DEF TypeOK
  <2>15. QED
    BY <2>2, <2>3, <2>8, <2>9, <2>10, <2>11, <2>12, <2>13, <2>14
<1>3. CASE Spill(r)
  <2>1. /\ ~ HasRoom(r)
        /\ entryKey' = entryKey
        /\ newKV' = [newKV EXCEPT ![r][Len(entryKey[r])] = Overlay(@, buf[r])]
        /\ buf' = [buf EXCEPT ![r] = Empty]
    BY <1>3 DEF Spill
  <2>2. n = Len(entryKey[r]) /\ n = Capacity[r] /\ n \in 1 .. Capacity[r]
    BY <1>1, <2>1 DEF HasRoom, TypeOK
  <2>3. Floor(r) = entryKey[r][n]
    BY <2>1, <2>2 DEF Floor
  <2>4. \A i, j \in 1 .. n : i < j => entryKey[r][i] < entryKey[r][j]
    BY <2>2 DEF RangeInv, OrderOf
  <2>5. \A i \in 1 .. n : entryKey[r][i] \in Nat
    <3>1. \A i \in 1 .. Len(entryKey[r]) : entryKey[r][i] \in Key
      BY <1>1
    <3>2. QED
      BY <1>1, <2>2, <3>1
  <2>6. ASSUME NEW i \in 1 .. n PROVE entryKey[r][i] <= Floor(r)
    <3>1. n \in 1 .. n /\ (i < n \/ i = n)
      <4>1. n \in Nat /\ 1 <= n
        BY <1>1, <2>2
      <4> HIDE DEF n
      <4>2. QED
        BY <4>1
    <3>2. i < n => entryKey[r][i] < entryKey[r][n]
      BY <2>4, <3>1
    <3>3. entryKey[r][i] \in Nat /\ entryKey[r][n] \in Nat
      BY <2>5, <3>1
    <3> HIDE DEF n
    <3>4. QED
      BY <2>3, <3>1, <3>2, <3>3
  <2>7. newKV'[r][n] = Overlay(newKV[r][n], buf[r])
    BY <1>1, <2>1, <2>2
  <2>8. \A i \in 1 .. Capacity[r] : i # n => newKV'[r][i] = newKV[r][i]
    BY <1>1, <2>1, <2>2
  <2>9. \A s \in Ranges : s # r => newKV'[s] = newKV[s] /\ buf'[s] = buf[s]
    BY <1>1, <2>1 DEF TypeOK
  <2>10. buf'[r] = Empty
    BY <2>1 DEF TypeOK
  <2>11. QED
    BY <2>1, <2>2, <2>3, <2>4, <2>6, <2>7, <2>8, <2>9, <2>10
<1>4. QED
  BY <1>2, <1>3

(* The keys that it adds, and where all keys are afterwards. *)
LEMMA FlushValues ==
  ASSUME TypeOK, Frontier, NEW r \in Ranges, RangeInv(r), ~ Ended(r),
         Flush(r) \/ Spill(r)
  PROVE  /\ NewKeys(r)' = NewKeys(r) \cup KeysOf(buf[r])
         /\ \A i \in 1 .. Capacity[r] : \A k \in KeysOf(newKV'[r][i]) :
              /\ i <= Len(entryKey'[r])
              /\ k \in Key
              /\ k \in Passed(r)
              /\ entryKey'[r][i] <= k
              /\ \A j \in i + 1 .. Len(entryKey'[r]) : k < entryKey'[r][j]
              /\ \A j \in todo[r] : k < j
              /\ IF k \in NewKeys(r) THEN newKV'[r][i][k] = newKV[r][i][k]
                                     ELSE newKV'[r][i][k] = buf[r][k]
<1> DEFINE n == Len(entryKey'[r])
<1>1. /\ n \in 1 .. Capacity[r]
      /\ \A i \in 1 .. Capacity[r] : i # n => newKV'[r][i] = newKV[r][i]
      /\ newKV'[r][n] = Overlay(newKV[r][n], buf[r])
      /\ \A i \in 1 .. Len(entryKey[r]) : entryKey'[r][i] = entryKey[r][i]
      /\ entryKey'[r][n] = Floor(r)
  BY FlushEntries
<1>2. /\ Capacity[r] \in Nat
      /\ newKV[r] \in [1 .. Capacity[r] -> Content]
      /\ buf[r] \in Content
      /\ entryKey[r] \in Seq(Key)
      /\ Len(entryKey[r]) = n \/ Len(entryKey[r]) + 1 = n
  BY <1>1, SizeAssumption DEF TypeOK, Flush, Spill
<1>3. \A k \in Key : newKV'[r][n][k] = IF buf[r][k] # None THEN buf[r][k] ELSE newKV[r][n][k]
  BY <1>1 DEF Overlay
<1>4. \A k \in KeysOf(buf[r]) :
        /\ k \in Key /\ k \in Passed(r) /\ k \notin NewKeys(r) /\ Floor(r) <= k
        /\ \A j \in todo[r] : k < j
  BY DEF RangeInv, BufOf, KeysOf
<1>5. \A i \in 1 .. Capacity[r] : \A k \in KeysOf(newKV[r][i]) : NewKeyAt(r, i, k) /\ k \in Key
  BY DEF RangeInv, EntriesOf, KeysOf
<1> HIDE DEF n
<1>6. NewKeys(r)' = NewKeys(r) \cup KeysOf(buf[r])
  <2>1. ASSUME NEW i \in 1 .. Capacity[r], NEW k \in KeysOf(newKV'[r][i])
        PROVE  k \in NewKeys(r) \cup KeysOf(buf[r])
    BY <1>1, <1>3, <2>1 DEF KeysOf, NewKeys
  <2>2. ASSUME NEW i \in 1 .. Capacity[r], NEW k \in KeysOf(newKV[r][i])
        PROVE  k \in KeysOf(newKV'[r][i])
    BY <1>1, <1>3, <2>2 DEF KeysOf
  <2>3. \A k \in KeysOf(buf[r]) : k \in KeysOf(newKV'[r][n])
    BY <1>3 DEF KeysOf
  <2>4. QED
    BY <1>1, <2>1, <2>2, <2>3 DEF NewKeys
<1>7. ASSUME NEW i \in 1 .. Capacity[r], NEW k \in KeysOf(newKV'[r][i])
      PROVE  /\ i <= n
             /\ k \in Key
             /\ k \in Passed(r)
             /\ entryKey'[r][i] <= k
             /\ \A j \in i + 1 .. n : k < entryKey'[r][j]
             /\ \A j \in todo[r] : k < j
             /\ IF k \in NewKeys(r) THEN newKV'[r][i][k] = newKV[r][i][k]
                                    ELSE newKV'[r][i][k] = buf[r][k]
  <2>1. CASE k \in KeysOf(newKV[r][i])
    <3>1. NewKeyAt(r, i, k) /\ k \in Key /\ k \in NewKeys(r)
      BY <1>5, <2>1 DEF NewKeys
    <3>2. /\ i \in 1 .. Len(entryKey[r])
          /\ entryKey[r][i] <= k
          /\ \A j \in i + 1 .. Len(entryKey[r]) : k < entryKey[r][j]
          /\ HasRoom(r) => k < nextEntryKey[r]
          /\ \A j \in todo[r] : k < j
          /\ k \in Passed(r)
      BY <1>2, <3>1 DEF NewKeyAt
    <3>3. k \notin KeysOf(buf[r])
      BY <1>4, <3>1
    <3>4. newKV'[r][i][k] = newKV[r][i][k]
      BY <1>1, <1>3, <3>1, <3>3 DEF KeysOf
    <3>5. \A j \in i + 1 .. n : k < entryKey'[r][j]
      <4>1. CASE Len(entryKey[r]) = n
        BY <1>1, <1>2, <3>2, <4>1
      <4>2. CASE Len(entryKey[r]) + 1 = n
        <5>1. HasRoom(r) /\ Floor(r) = nextEntryKey[r]
          <6>1. Len(entryKey[r]) < Capacity[r]
            <7>1. n <= Capacity[r] /\ n \in Nat
              BY <1>1, <1>2
            <7>2. QED
              BY <1>2, <4>2, <7>1
          <6>2. QED
            BY <6>1 DEF HasRoom, Floor
        <5>2. \A j \in i + 1 .. n : j = n \/ j \in i + 1 .. Len(entryKey[r])
          <6>1. Len(entryKey[r]) \in Nat /\ i \in Nat
            BY <1>2
          <6>2. QED
            BY <4>2, <6>1
        <5>3. \A j \in i + 1 .. Len(entryKey[r]) :
                k < entryKey[r][j] /\ entryKey'[r][j] = entryKey[r][j]
          BY <1>1, <1>2, <3>2
        <5>4. k < entryKey'[r][n]
          BY <1>1, <1>2, <3>2, <5>1
        <5>5. QED
          BY <5>2, <5>3, <5>4
      <4>3. QED
        BY <1>2, <4>1, <4>2
    <3>6. i <= n /\ entryKey'[r][i] <= k
      BY <1>1, <1>2, <3>2
    <3>7. QED
      BY <3>1, <3>2, <3>4, <3>5, <3>6
  <2>2. CASE k \notin KeysOf(newKV[r][i])
    <3>1. i = n /\ k \in KeysOf(buf[r]) /\ newKV'[r][i][k] = buf[r][k]
      BY <1>1, <1>3, <1>7, <2>2 DEF KeysOf
    <3>2. QED
      BY <1>1, <1>4, <3>1
  <2>3. QED
    BY <2>1, <2>2
<1>8. QED
  BY <1>6, <1>7 DEF n

LEMMA ExpandPutFlushValues ==
  ASSUME TypeOK, ControlInv, Frontier, NEW r \in Ranges, RangeInv(r), ExpandPutFlush(r)
  PROVE  RangeInv(r)'
<1> USE DEF oldVars, newVars, markVars, writerVars
<1> DEFINE n == Len(entryKey'[r])
           least == Least(todo[r])
<1>1. /\ expPc[r] = "copy" /\ expPc'[r] = "publish"
      /\ todo[r] # {}
      /\ BufFull(r)
      /\ Flush(r) \/ Spill(r)
      /\ Flush(r) => nextEntryKey'[r] = least
      /\ Spill(r) => nextEntryKey'[r] = nextEntryKey[r]
      /\ UNCHANGED <<oldKV, oldValid, maxKey, cur, todo>>
  BY DEF ExpandPutFlush, TypeOK, Flush, Spill
<1>2. Copying(r) /\ Copying(r)' /\ ~ Ended(r)
  BY <1>1 DEF Copying, Ended
<1>3. Passed(r)' = Passed(r)
  BY <1>1, <1>2 DEF Passed
<1>4. /\ n \in 1 .. Capacity[r]
      /\ buf'[r] = Empty
      /\ entryKey'[r][n] = Floor(r)
      /\ \A i \in 1 .. n : entryKey'[r][i] <= Floor(r)
      /\ \A i, j \in 1 .. n : i < j => entryKey'[r][i] < entryKey'[r][j]
  BY <1>1, <1>2, FlushEntries
<1>5. /\ NewKeys(r)' = NewKeys(r) \cup KeysOf(buf[r])
      /\ \A i \in 1 .. Capacity[r] : \A k \in KeysOf(newKV'[r][i]) :
           /\ i <= n
           /\ k \in Key
           /\ k \in Passed(r)
           /\ entryKey'[r][i] <= k
           /\ \A j \in i + 1 .. n : k < entryKey'[r][j]
           /\ \A j \in todo[r] : k < j
  BY <1>1, <1>2, FlushValues
<1>6. least \in todo[r] /\ least \in Key /\ \A j \in todo[r] : least <= j
  BY <1>1, NextKey
<1>7. PICK b \in Key : b \in KeysOf(buf[r]) /\ Floor(r) <= b /\ \A j \in todo[r] : b < j
  <2>1. KeysOf(buf[r]) # {}
    BY <1>1, SizeAssumption, FS_EmptySet DEF BufFull
  <2>2. QED
    BY <2>1 DEF RangeInv, BufOf, KeysOf
<1>8. Floor(r) \in Key
  <2>1. CASE HasRoom(r)
    BY <2>1 DEF Floor, TypeOK
  <2>2. CASE ~ HasRoom(r)
    <3>1. entryKey[r] \in Seq(Key) /\ Len(entryKey[r]) > 0
      BY <2>2, SizeAssumption DEF HasRoom, TypeOK
    <3>2. QED
      BY <2>2, <3>1 DEF Floor
  <2>3. QED
    BY <2>1, <2>2
<1>9. HasRoom(r)' => nextEntryKey'[r] = least
  <2>1. Spill(r) => ~ HasRoom(r)'
    BY DEF Spill, HasRoom
  <2>2. QED
    BY <1>1, <2>1
<1> HIDE DEF least
<1>10. Floor(r)' = IF HasRoom(r)' THEN least ELSE Floor(r)
  BY <1>4, <1>9 DEF Floor
<1>11. Floor(r) < least /\ least \in Nat /\ Floor(r) \in Nat
  BY <1>6, <1>7, <1>8, Geometry DEF Key
<1> HIDE DEF n
<1>12. TodoOf(r)'
  <2>1. ASSUME NEW k \in todo[r] PROVE k \notin NewKeys(r) \cup KeysOf(buf[r])
    <3>1. k \notin NewKeys(r)
      BY <2>1 DEF RangeInv, TodoOf
    <3>2. k \in KeysOf(buf[r]) => k < k
      BY <2>1 DEF RangeInv, BufOf
    <3>3. k \in Nat
      BY <2>1, Geometry DEF TypeOK, Key
    <3>4. QED
      BY <3>1, <3>2, <3>3
  <2>2. ASSUME NEW k \in todo[r] PROVE Floor(r)' <= k
    BY <1>6, <1>10, <2>2 DEF RangeInv, TodoOf
  <2>3. ASSUME NEW k \in todo[r] PROVE k \in Passed(r)
    BY <2>3 DEF RangeInv, TodoOf
  <2>4. QED
    BY <1>1, <1>3, <1>5, <2>1, <2>2, <2>3 DEF TodoOf
<1>13. BufOf(r)'
  BY <1>4 DEF BufOf, KeysOf, Empty
<1>14. FloorOf(r)'
  <2>1. least <= OldBound(cur[r] + 1)
    <3>1. cur[r] < FirstOld[r + 1] /\ InOldEntry(least, cur[r])
      BY <1>1, <1>6 DEF ControlInv
    <3>2. QED
      BY <1>6, <3>1, CurrentEntry
  <2>2. Floor(r) <= OldBound(cur[r] + 1)
    BY <1>2 DEF RangeInv, FloorOf
  <2>3. QED
    BY <1>1, <1>10, <2>1, <2>2 DEF FloorOf
<1>15. OrderOf(r)'
  <2>1. \A i \in 1 .. n : entryKey'[r][i] < least
    <3>1. entryKey' \in [Ranges -> Seq(Key)]
      BY <1>1, FlushTypes
    <3>2. ASSUME NEW i \in 1 .. n PROVE entryKey'[r][i] \in Nat
      BY <1>4, <3>1, Geometry DEF Key, n
    <3>3. QED
      BY <1>4, <1>11, <3>2
  <2>2. QED
    BY <1>4, <1>9, <2>1 DEF OrderOf, n
<1>16. EntriesOf(r)'
  <2>1. ASSUME NEW i \in 1 .. Capacity[r], NEW k \in KeysOf(newKV'[r][i])
        PROVE  k < least
    BY <1>5, <1>6, <2>1
  <2>2. QED
    BY <1>1, <1>3, <1>5, <1>9, <2>1 DEF EntriesOf, NewKeyAt, n
<1>17. OldOf(r)'
  BY <1>1, <1>3, <1>5 DEF RangeInv, OldOf
<1>18. QED
  BY <1>12, <1>13, <1>14, <1>15, <1>16, <1>17 DEF RangeInv

LEMMA ExpandPutPublishValues ==
  ASSUME TypeOK, ControlInv, Frontier, NEW r \in Ranges, RangeInv(r), ExpandPutPublish(r)
  PROVE  RangeInv(r)'
<1> USE DEF oldVars, newVars, markVars, writerVars
<1> DEFINE k == Least(todo[r])
<1>1. /\ expPc[r] = "publish" /\ expPc'[r] = "copy"
      /\ todo[r] # {}
      /\ todo'[r] = todo[r] \ {k}
      /\ buf'[r] = [buf[r] EXCEPT ![k] = oldKV[k]]
      /\ maxKey'[r] = k
      /\ UNCHANGED <<oldKV, oldValid, entryKey, newKV, cur, nextEntryKey>>
  BY DEF ExpandPutPublish, Buffer, TypeOK, ControlInv
<1>2. k \in todo[r] /\ k \in Key /\ \A j \in todo[r] : k <= j
  BY <1>1, NextKey
<1>3. /\ HasRoom(r)' = HasRoom(r)
      /\ Floor(r)' = Floor(r)
      /\ NewKeys(r)' = NewKeys(r)
      /\ Copying(r) /\ Copying(r)'
      /\ ~ Ended(r) /\ ~ Ended(r)'
  BY <1>1 DEF HasRoom, Floor, NewKeys, Copying, Ended
<1>4. Passed(r)' = Passed(r)
  BY <1>1, <1>3 DEF Passed
<1>5. \A j \in todo'[r] : j \in todo[r] /\ k < j
  <2>1. todo[r] \subseteq Nat
    BY Geometry DEF TypeOK, Key
  <2> HIDE DEF k
  <2>2. QED
    BY <1>1, <1>2, <2>1
<1> HIDE DEF k
<1>6. buf[r] = Empty
  BY <1>1 DEF RangeInv, BufOf
<1>7. /\ buf'[r][k] = oldKV[k]
      /\ \A j \in KeysOf(buf'[r]) : j = k
  BY <1>1, <1>2, <1>6 DEF KeysOf, Empty
<1>8. TodoOf(r)'
  BY <1>3, <1>4, <1>5 DEF RangeInv, TodoOf
<1>9. BufOf(r)'
  <2>1. /\ k \in Passed(r) /\ k \notin NewKeys(r) /\ Floor(r) <= k
    BY <1>2 DEF RangeInv, TodoOf
  <2>2. maxKey'[r] <= k
    BY <1>1, <1>2, Geometry DEF Key
  <2>3. QED
    BY <1>1, <1>3, <1>4, <1>5, <1>7, <2>1, <2>2 DEF BufOf
<1>10. FloorOf(r)'
  <2>1. Floor(r) <= OldBound(cur[r] + 1)
    BY <1>3 DEF RangeInv, FloorOf
  <2>2. Floor(r)' <= OldBound(cur'[r] + 1)
    BY <1>1, <1>3, <2>1
  <2>3. QED
    BY <1>1, <2>2 DEF FloorOf
<1>11. OrderOf(r)'
  BY <1>1, <1>3 DEF RangeInv, OrderOf
<1>12. EntriesOf(r)'
  <2>1. ASSUME NEW i \in 1 .. Capacity[r], NEW m \in KeysOf(newKV[r][i])
        PROVE  NewKeyAt(r, i, m)'
    <3>1. NewKeyAt(r, i, m)
      BY DEF RangeInv, EntriesOf
    <3>2. \A j \in todo'[r] : m < j
      BY <1>1, <3>1 DEF NewKeyAt
    <3>3. QED
      BY <1>1, <1>3, <1>4, <1>5, <3>1, <3>2 DEF NewKeyAt
  <2>2. QED
    BY <1>1, <2>1 DEF EntriesOf
<1>13. OldOf(r)'
  <2>1. ASSUME NEW j \in Passed(r), oldKV[j] # None
        PROVE  j \in todo'[r] \cup KeysOf(buf'[r]) \cup NewKeys(r)
    <3>1. j \in todo[r] \cup NewKeys(r)
      BY <1>6, <2>1 DEF RangeInv, OldOf, KeysOf, Empty
    <3>2. j = k => j \in KeysOf(buf'[r])
      BY <1>2, <1>7, <2>1 DEF KeysOf
    <3>3. QED
      BY <1>1, <3>1, <3>2
  <2>2. QED
    BY <1>1, <1>3, <1>4, <2>1 DEF RangeInv, OldOf
<1>14. QED
  BY <1>8, <1>9, <1>10, <1>11, <1>12, <1>13 DEF RangeInv

LEMMA InvalidateValues ==
  ASSUME TypeOK, ControlInv, Frontier, NEW r \in Ranges, RangeInv(r), Invalidate(r)
  PROVE  RangeInv(r)'
<1> USE DEF oldVars, newVars, markVars, writerVars
<1>1. /\ expPc[r] = "copy" /\ expPc'[r] = "next"
      /\ todo[r] = {}
      /\ oldValid' = [oldValid EXCEPT ![cur[r]] = FALSE]
      /\ cur'[r] = cur[r] + 1
      /\ cur[r] \in OldEntry /\ cur[r] \in Nat
      /\ UNCHANGED <<oldKV, entryKey, newKV, maxKey, todo, buf, nextEntryKey>>
  BY Geometry DEF Invalidate, TypeOK, ControlInv, OldEntry
<1>2. /\ HasRoom(r)' = HasRoom(r)
      /\ Floor(r)' = Floor(r)
      /\ NewKeys(r)' = NewKeys(r)
      /\ Copying(r) /\ ~ Copying(r)'
      /\ ~ Ended(r) /\ ~ Ended(r)'
  BY <1>1 DEF HasRoom, Floor, NewKeys, Copying, Ended
<1>3. Passed(r)' = Passed(r)
  <2>1. ASSUME NEW k \in Key
        PROVE  /\ OldEntryOf(k) <= cur[r]
               /\ OldEntryOf(k) = cur[r] => Copying(r)
               <=> /\ OldEntryOf(k) <= cur'[r]
                   /\ OldEntryOf(k) = cur'[r] => Copying(r)'
    <3>1. OldEntryOf(k) \in Nat
      BY OldEntryOfKey, Geometry DEF OldEntry
    <3>2. QED
      BY <1>1, <1>2, <3>1
  <2>2. QED
    BY <2>1 DEF Passed
<1>4. TodoOf(r)'
  BY <1>1 DEF TodoOf
<1>5. BufOf(r)'
  BY <1>1, <1>2, <1>3 DEF RangeInv, BufOf
<1>6. FloorOf(r)'
  BY <1>1, <1>2 DEF RangeInv, FloorOf
<1>7. OrderOf(r)'
  BY <1>1, <1>2 DEF RangeInv, OrderOf
<1>8. EntriesOf(r)'
  BY <1>1, <1>2, <1>3 DEF RangeInv, EntriesOf, NewKeyAt
<1>9. OldOf(r)'
  <2>1. ASSUME NEW i \in FirstOld[r] .. FirstOld[r + 1] - 1
        PROVE  oldValid'[i] <=> cur'[r] <= i
    <3>1. (oldValid[i] <=> cur[r] <= i) /\ i \in OldEntry
      BY <2>1, Geometry DEF RangeInv, OldOf, OldEntry
    <3>2. CASE i = cur[r]
      BY <1>1, <3>2 DEF TypeOK
    <3>3. CASE i # cur[r]
      <4>1. oldValid'[i] = oldValid[i]
        BY <1>1, <3>1, <3>3 DEF TypeOK
      <4>2. cur[r] <= i <=> cur[r] + 1 <= i
        BY <1>1, <2>1, <3>3, Geometry DEF OldEntry
      <4>3. QED
        BY <1>1, <3>1, <4>1, <4>2
    <3>4. QED
      BY <3>2, <3>3
  <2>2. QED
    BY <1>1, <1>2, <1>3, <2>1 DEF RangeInv, OldOf
<1>10. QED
  BY <1>4, <1>5, <1>6, <1>7, <1>8, <1>9 DEF RangeInv

LEMMA ExpandFinishValues ==
  ASSUME TypeOK, ControlInv, Frontier, NEW r \in Ranges, RangeInv(r), ExpandFinish(r)
  PROVE  RangeInv(r)'
<1> USE DEF oldVars, newVars, markVars, writerVars
<1>1. /\ expPc[r] = "next" /\ expPc'[r] = "finish"
      /\ todo[r] = {}
      /\ Flush(r) \/ Spill(r)
      /\ UNCHANGED <<oldKV, oldValid, maxKey, cur, todo, nextEntryKey>>
  BY DEF ExpandFinish, TypeOK, ControlInv
<1>2. ~ Copying(r) /\ ~ Copying(r)' /\ ~ Ended(r) /\ Ended(r)'
  BY <1>1 DEF Copying, Ended
<1>3. Passed(r)' = Passed(r)
  BY <1>1, <1>2 DEF Passed
<1>4. /\ buf'[r] = Empty
      /\ \A i, j \in 1 .. Len(entryKey'[r]) : i < j => entryKey'[r][i] < entryKey'[r][j]
  BY <1>1, <1>2, FlushEntries
<1>5. /\ NewKeys(r)' = NewKeys(r) \cup KeysOf(buf[r])
      /\ \A i \in 1 .. Capacity[r] : \A k \in KeysOf(newKV'[r][i]) :
           /\ i <= Len(entryKey'[r])
           /\ k \in Passed(r)
           /\ entryKey'[r][i] <= k
           /\ \A j \in i + 1 .. Len(entryKey'[r]) : k < entryKey'[r][j]
  BY <1>1, <1>2, FlushValues
<1>6. TodoOf(r)'
  BY <1>1 DEF TodoOf
<1>7. BufOf(r)'
  BY <1>4 DEF BufOf, KeysOf, Empty
<1>8. FloorOf(r)'
  BY <1>1, <1>2 DEF FloorOf
<1>9. OrderOf(r)'
  BY <1>2, <1>4 DEF OrderOf
<1>10. EntriesOf(r)'
  BY <1>1, <1>2, <1>3, <1>5 DEF EntriesOf, NewKeyAt
<1>11. OldOf(r)'
  BY <1>1, <1>3, <1>5 DEF RangeInv, OldOf
<1>12. QED
  BY <1>6, <1>7, <1>8, <1>9, <1>10, <1>11 DEF RangeInv

LEMMA ExpandFinishPublishValues ==
  ASSUME TypeOK, ControlInv, Frontier, NEW r \in Ranges, RangeInv(r),
         ExpandFinishPublish(r)
  PROVE  RangeInv(r)'
<1> USE DEF oldVars, newVars, markVars, writerVars
<1>1. /\ expPc[r] = "finish" /\ expPc'[r] = "done"
      /\ todo[r] = {}
      /\ UNCHANGED <<oldKV, oldValid, entryKey, newKV, cur, todo, buf, nextEntryKey>>
  BY DEF ExpandFinishPublish, TypeOK, ControlInv
<1>2. /\ HasRoom(r)' = HasRoom(r)
      /\ NewKeys(r)' = NewKeys(r)
      /\ ~ Copying(r) /\ ~ Copying(r)'
      /\ Ended(r) /\ Ended(r)'
  BY <1>1 DEF HasRoom, NewKeys, Copying, Ended
<1>3. Passed(r)' = Passed(r)
  BY <1>1, <1>2 DEF Passed
<1>4. TodoOf(r)'
  BY <1>1 DEF TodoOf
<1>5. BufOf(r)'
  BY <1>1 DEF RangeInv, BufOf, KeysOf, Empty
<1>6. FloorOf(r)'
  BY <1>1, <1>2 DEF FloorOf
<1>7. OrderOf(r)'
  BY <1>1, <1>2 DEF RangeInv, OrderOf
<1>8. EntriesOf(r)'
  BY <1>1, <1>2, <1>3 DEF RangeInv, EntriesOf, NewKeyAt
<1>9. OldOf(r)'
  BY <1>1, <1>2, <1>3 DEF RangeInv, OldOf
<1>10. QED
  BY <1>4, <1>5, <1>6, <1>7, <1>8, <1>9 DEF RangeInv

(***************************************************************************)
(* Every step of an expander keeps the invariant of all ranges: it touches *)
(* nothing of another range, whose old entries are not its own.            *)
(***************************************************************************)
LEMMA ExpanderFrame ==
  ASSUME TypeOK, ControlInv, Frontier, NEW r \in Ranges, RangeInv(r), Expander(r)
  PROVE  /\ UNCHANGED <<oldKV, writerVars, installed>>
         /\ \A s \in Ranges : s # r =>
              /\ entryKey'[s] = entryKey[s] /\ newKV'[s] = newKV[s]
              /\ maxKey'[s] = maxKey[s] /\ expPc'[s] = expPc[s] /\ cur'[s] = cur[s]
              /\ todo'[s] = todo[s] /\ buf'[s] = buf[s]
              /\ nextEntryKey'[s] = nextEntryKey[s]
              /\ \A i \in FirstOld[s] .. FirstOld[s + 1] - 1 : oldValid'[i] = oldValid[i]
<1> USE DEF oldVars, newVars, markVars, expVars, writerVars
<1>1. CASE LockEntry(r)
  BY <1>1 DEF LockEntry, TypeOK
<1>2. CASE ExpandPut(r)
  BY <1>2 DEF ExpandPut, Buffer, TypeOK
<1>3. CASE ExpandPutFlush(r) \/ ExpandFinish(r)
  <2>1. Flush(r) \/ Spill(r)
    BY <1>3 DEF ExpandPutFlush, ExpandFinish
  <2>2. ~ Ended(r)
    BY <1>3 DEF ExpandPutFlush, ExpandFinish, Ended
  <2>3. \A s \in Ranges : s # r => newKV'[s] = newKV[s] /\ buf'[s] = buf[s]
    BY <2>1, <2>2, FlushEntries
  <2>4. \A s \in Ranges : s # r => entryKey'[s] = entryKey[s]
    BY <2>1 DEF Flush, Spill, TypeOK
  <2>5. /\ UNCHANGED <<oldKV, oldValid, writerVars, installed, maxKey, cur, todo>>
        /\ \A s \in Ranges : s # r => /\ expPc'[s] = expPc[s]
                                     /\ nextEntryKey'[s] = nextEntryKey[s]
    BY <1>3 DEF ExpandPutFlush, ExpandFinish, TypeOK
  <2>6. QED
    BY <2>3, <2>4, <2>5
<1>4. CASE ExpandPutPublish(r)
  BY <1>4 DEF ExpandPutPublish, Buffer, TypeOK
<1>5. CASE Invalidate(r)
  <2>1. /\ oldValid' = [oldValid EXCEPT ![cur[r]] = FALSE]
        /\ cur[r] \in FirstOld[r] .. FirstOld[r + 1] - 1
        /\ \A s \in Ranges : s # r => expPc'[s] = expPc[s] /\ cur'[s] = cur[s]
        /\ UNCHANGED <<oldKV, entryKey, newKV, maxKey, todo, buf, nextEntryKey,
                       installed, writerVars>>
    BY <1>5, Geometry DEF Invalidate, TypeOK, ControlInv, OldEntry
  <2>2. ASSUME NEW s \in Ranges, s # r, NEW i \in FirstOld[s] .. FirstOld[s + 1] - 1
        PROVE  oldValid'[i] = oldValid[i]
    <3>1. i # cur[r]
      <4>1. CASE s < r
        <5>1. s + 1 <= r /\ s + 1 \in Ranges
          BY <4>1, Geometry DEF Ranges
        <5>2. FirstOld[s + 1] <= FirstOld[r]
          <6>1. FirstOld[s + 1] \in Nat /\ FirstOld[r] \in Nat
            BY <5>1, Geometry DEF OldEntry
          <6>2. s + 1 < r => FirstOld[s + 1] < FirstOld[r]
            BY <5>1, GeometryAssumption DEF Ranges
          <6>3. s + 1 \in Nat /\ r \in Nat
            BY Geometry DEF Ranges
          <6>4. QED
            BY <5>1, <6>1, <6>2, <6>3
        <5>3. QED
          BY <2>1, <2>2, <5>1, <5>2, Geometry DEF OldEntry
      <4>2. CASE r < s
        <5>1. r + 1 <= s /\ r + 1 \in Ranges
          BY <4>2, Geometry DEF Ranges
        <5>2. FirstOld[r + 1] <= FirstOld[s]
          <6>1. FirstOld[r + 1] \in Nat /\ FirstOld[s] \in Nat
            BY <5>1, Geometry DEF OldEntry
          <6>2. r + 1 < s => FirstOld[r + 1] < FirstOld[s]
            BY <5>1, GeometryAssumption DEF Ranges
          <6>3. r + 1 \in Nat /\ s \in Nat
            BY Geometry DEF Ranges
          <6>4. QED
            BY <5>1, <6>1, <6>2, <6>3
        <5>3. QED
          BY <2>1, <2>2, <5>1, <5>2, Geometry DEF OldEntry
      <4>3. QED
        BY <2>2, <4>1, <4>2, Geometry DEF Ranges
    <3>2. i \in OldEntry
      BY <2>2, Geometry DEF OldEntry
    <3>3. QED
      BY <2>1, <3>1, <3>2 DEF TypeOK
  <2>3. QED
    BY <2>1, <2>2
<1>6. CASE ExpandFinishPublish(r)
  BY <1>6 DEF ExpandFinishPublish, TypeOK
<1>7. QED
  BY <1>1, <1>2, <1>3, <1>4, <1>5, <1>6 DEF Expander

LEMMA ExpanderValues ==
  ASSUME TypeOK, ControlInv, Frontier, Values, NEW r \in Ranges, Expander(r)
  PROVE  Values'
<1>1. RangeInv(r)
  BY DEF Values
<1>2. RangeInv(r)'
  BY <1>1, LockEntryValues, ExpandPutValues, ExpandPutFlushValues, ExpandPutPublishValues,
     InvalidateValues, ExpandFinishValues, ExpandFinishPublishValues DEF Expander
<1>3. ASSUME NEW s \in Ranges, s # r PROVE RangeInv(s)'
  <2>1. RangeInv(s)
    BY DEF Values
  <2>2. oldKV' = oldKV
    BY <1>1, ExpanderFrame
  <2>3. QED
    BY <1>1, <1>3, <2>1, <2>2, ExpanderFrame, RangeStays
<1>4. ASSUME NEW w \in Writers PROVE IdleOf(w)'
  BY <1>1, ExpanderFrame DEF writerVars, Values, IdleOf
<1>5. ~ installed /\ installed' = installed
  <2>1. expPc[r] # "done"
    BY DEF Expander, LockEntry, ExpandPut, ExpandPutFlush, ExpandPutPublish, Invalidate,
       ExpandFinish, ExpandFinishPublish
  <2>2. QED
    BY <1>1, <2>1, ExpanderFrame DEF Values, AllDone
<1>6. QED
  BY <1>2, <1>3, <1>4, <1>5 DEF Values

-----------------------------------------------------------------------------
(***************************************************************************)
(* Writers.  A key below expanded_max_key_ is one that its expander has    *)
(* left behind, and none that it still has to write.                       *)
(***************************************************************************)
LEMMA ExpandedKeyPassed ==
  ASSUME TypeOK, ControlInv, Frontier, NEW r \in Ranges, RangeInv(r),
         NEW k \in Key, InRange(k, r), k < maxKey[r] \/ expPc[r] = "done"
  PROVE  /\ k \in Passed(r)
         /\ k \notin todo[r]
         /\ k \notin KeysOf(buf[r])
         /\ HasRoom(r) /\ ~ Ended(r) => k < nextEntryKey[r]
         /\ \A j \in todo[r] : k < j
<1>1. k \in Nat /\ maxKey[r] \in Nat /\ cur[r] \in Nat /\ OldEntryOf(k) \in Nat
  <2>1. maxKey[r] \in Key /\ cur[r] \in Nat
    BY DEF TypeOK
  <2>2. OldEntryOf(k) \in 1 .. Len(OldKey)
    BY OldEntryOfKey DEF OldEntry
  <2>3. QED
    BY <2>1, <2>2, Geometry DEF Key
<1>2. CASE expPc[r] = "done"
  <2>1. /\ cur[r] = FirstOld[r + 1] /\ todo[r] = {} /\ buf[r] = Empty
        /\ Ended(r) /\ ~ Copying(r)
    BY <1>2 DEF ControlInv, RangeInv, BufOf, Ended, Copying
  <2>2. OldEntryOf(k) < cur[r]
    BY <2>1, EntryInRange
  <2>3. k \in Passed(r)
    BY <1>1, <2>2 DEF Passed
  <2>4. k \notin KeysOf(buf[r])
    BY <2>1 DEF KeysOf, Empty
  <2>5. QED
    BY <2>1, <2>3, <2>4
<1>3. CASE expPc[r] # "done"
  <2>1. k < maxKey[r]
    BY <1>3
  <2>2. k \in Passed(r)
    <3>1. CASE Copying(r)
      <4>1. cur[r] + 1 \in 1 .. Len(OldKey) + 1 /\ maxKey[r] <= OldBound(cur[r] + 1)
        BY <1>1, <3>1, Geometry DEF Copying, ControlInv, Frontier, FrontierOf, OldEntry
      <4>2. k < OldBound(cur[r] + 1)
        BY <1>1, <2>1, <4>1, BoundOrder, Geometry DEF Key
      <4>3. OldEntryOf(k) < cur[r] + 1
        BY <4>1, <4>2, BelowBound
      <4>4. QED
        BY <1>1, <3>1, <4>3 DEF Passed
    <3>2. CASE ~ Copying(r)
      <4>1. expPc[r] \in {"next", "finish", "fault"}
        BY <1>3, <3>2 DEF Copying, TypeOK
      <4>2. cur[r] \in 1 .. Len(OldKey) + 1 /\ maxKey[r] <= OldBound(cur[r])
        BY <4>1 DEF TypeOK, Frontier, FrontierOf, RangeInv, FloorOf
      <4>3. k < OldBound(cur[r])
        BY <1>1, <2>1, <4>2, BoundOrder, Geometry DEF Key
      <4>4. OldEntryOf(k) < cur[r]
        BY <4>2, <4>3, BelowBound
      <4>5. QED
        BY <1>1, <4>4 DEF Passed
    <3>3. QED
      BY <3>1, <3>2
  <2>3. \A j \in todo[r] : maxKey[r] <= j /\ j \in Nat
    BY Geometry DEF Frontier, FrontierOf, TypeOK, Key
  <2>4. \A j \in KeysOf(buf[r]) : maxKey[r] <= j /\ j \in Nat
    BY Geometry DEF RangeInv, BufOf, KeysOf, Key
  <2>5. HasRoom(r) => maxKey[r] <= nextEntryKey[r]
    BY <1>3 DEF Frontier, FrontierOf
  <2>6. nextEntryKey[r] \in Nat
    BY Geometry DEF TypeOK, Key
  <2>7. k \notin todo[r]
    BY <1>1, <2>1, <2>3
  <2>8. k \notin KeysOf(buf[r])
    BY <1>1, <2>1, <2>4
  <2>9. \A j \in todo[r] : k < j
    BY <1>1, <2>1, <2>3
  <2>10. HasRoom(r) => k < nextEntryKey[r]
    BY <1>1, <2>1, <2>5, <2>6
  <2>11. QED
    BY <2>2, <2>7, <2>8, <2>9, <2>10
<1>4. QED
  BY <1>2, <1>3

(* A Put into the new level, at the entry where a search for its key ends. *)
LEMMA PutNewValues ==
  ASSUME TypeOK, ControlInv, Frontier, NEW r \in Ranges, RangeInv(r),
         NEW k \in Key, InRange(k, r), k < maxKey[r] \/ expPc[r] = "done",
         NEW i \in 1 .. Len(entryKey[r]), NEW v \in Value,
         entryKey[r][i] <= k,
         \A j \in i + 1 .. Len(entryKey[r]) : k < entryKey[r][j],
         newKV' = [newKV EXCEPT ![r][i][k] = v],
         UNCHANGED <<oldVars, entryKey, markVars, expVars>>
  PROVE  RangeInv(r)'
<1> USE DEF oldVars, markVars, expVars
<1>1. /\ i \in 1 .. Capacity[r]
      /\ newKV[r] \in [1 .. Capacity[r] -> Content]
  <2>1. /\ entryKey[r] \in Seq(Key)
        /\ Len(entryKey[r]) <= Capacity[r]
        /\ Capacity[r] \in Nat
        /\ newKV[r] \in [1 .. Capacity[r] -> Content]
    BY SizeAssumption DEF TypeOK
  <2>2. QED
    BY <2>1
<1>2. /\ newKV'[r][i][k] = v
      /\ \A m \in 1 .. Capacity[r], j \in Key :
           m # i \/ j # k => newKV'[r][m][j] = newKV[r][m][j]
  BY <1>1 DEF TypeOK, Content
<1>3. /\ k \in Passed(r) /\ k \notin todo[r] /\ k \notin KeysOf(buf[r])
      /\ HasRoom(r) /\ ~ Ended(r) => k < nextEntryKey[r]
      /\ \A j \in todo[r] : k < j
  BY ExpandedKeyPassed
<1>4. /\ HasRoom(r)' = HasRoom(r) /\ Floor(r)' = Floor(r)
      /\ Copying(r)' = Copying(r) /\ Ended(r)' = Ended(r)
  BY DEF HasRoom, Floor, Copying, Ended
<1>5. Passed(r)' = Passed(r)
  BY <1>4 DEF Passed
<1>6. \A j \in Key : j \in NewKeys(r)' <=> j \in NewKeys(r) \/ j = k
  <2>1. v # None
    BY ContentAssumption
  <2>2. ASSUME NEW j \in Key, j # k
        PROVE  j \in NewKeys(r)' <=> j \in NewKeys(r)
    BY <1>2, <2>2 DEF NewKeys, KeysOf
  <2>3. k \in NewKeys(r)'
    BY <1>1, <1>2, <2>1 DEF NewKeys, KeysOf
  <2>4. QED
    BY <2>2, <2>3
<1>7. TodoOf(r)'
  <2>1. \A j \in todo[r] : j \in Key
    BY DEF TypeOK
  <2>2. QED
    BY <1>3, <1>4, <1>5, <1>6, <2>1 DEF RangeInv, TodoOf
<1>8. BufOf(r)'
  <2>1. \A j \in KeysOf(buf[r]) : j \in Key
    BY DEF KeysOf
  <2>2. QED
    BY <1>3, <1>4, <1>5, <1>6, <2>1 DEF RangeInv, BufOf
<1>9. FloorOf(r)'
  BY <1>4 DEF RangeInv, FloorOf
<1>10. OrderOf(r)'
  BY <1>4 DEF RangeInv, OrderOf
<1>11. EntriesOf(r)'
  <2>1. ASSUME NEW m \in 1 .. Capacity[r], NEW j \in KeysOf(newKV'[r][m])
        PROVE  NewKeyAt(r, m, j)'
    <3>1. CASE m = i /\ j = k
      <4>1. i <= Len(entryKey[r])
        BY DEF TypeOK
      <4>2. QED
        BY <1>3, <1>4, <1>5, <3>1, <4>1 DEF NewKeyAt
    <3>2. CASE m # i \/ j # k
      <4>1. j \in KeysOf(newKV[r][m])
        BY <1>2, <2>1, <3>2 DEF KeysOf
      <4>2. NewKeyAt(r, m, j)
        BY <4>1 DEF RangeInv, EntriesOf
      <4>3. QED
        BY <1>4, <1>5, <4>2 DEF NewKeyAt
    <3>3. QED
      BY <3>1, <3>2
  <2>2. QED
    BY <2>1 DEF EntriesOf
<1>12. OldOf(r)'
  <2>1. \A j \in Passed(r) : j \in Key
    BY DEF Passed
  <2>2. QED
    BY <1>5, <1>6, <2>1 DEF RangeInv, OldOf
<1>13. QED
  BY <1>7, <1>8, <1>9, <1>10, <1>11, <1>12 DEF RangeInv

(* Where PutNew puts its key. *)
PutsAt(w, end, r, i) ==
  LET k == request[w].key IN
  /\ k \in Key /\ request[w].value \in Value
  /\ r = RangeOf(k) /\ r \in Ranges /\ InRange(k, r)
  /\ k < maxKey[r] \/ expPc[r] = "done"
  /\ i = FindByRange(k, r, end)
  /\ i \in 1 .. Len(entryKey[r])
  /\ entryKey[r][i] <= k
  /\ \A j \in i + 1 .. Len(entryKey[r]) : k < entryKey[r][j]
  /\ newKV' = [newKV EXCEPT ![r][i][k] = request[w].value]
  /\ UNCHANGED <<oldVars, entryKey, markVars, expVars, installed>>

LEMMA PutRangeAt ==
  ASSUME TypeOK, ControlInv, Frontier, WriterInv, NEW w \in Writers, PutRange(w)
  PROVE  \E r, i \in Nat : PutsAt(w, wEnd[w], r, i)
<1> DEFINE k == request[w].key
           r == RangeOf(k)
           end == wEnd[w]
           i == FindByRange(k, r, end)
<1>1. wPc[w] = "new" /\ PutNew(request[w], end)
  BY DEF PutRange
<1>2. k \in Key /\ request[w].value \in Value
  BY <1>1 DEF ControlInv, Requests
<1>3. r \in Ranges /\ InRange(k, r) /\ StartKey(r) <= k
  BY <1>2, RangeOfKey DEF InRange
<1>4. /\ k < maxKey[r]
      /\ end \in 1 .. Len(entryKey[r])
      /\ \A j \in end + 1 .. Len(entryKey[r]) : k < entryKey[r][j]
  BY <1>1 DEF WriterInv, WriterOf
<1>5. entryKey[r] \in Seq(Key) /\ Len(entryKey[r]) \in Nat
  BY <1>3 DEF TypeOK
<1>6. entryKey[r][1] <= k
  BY <1>3, <1>4, <1>5 DEF Frontier, FrontierOf
<1>7. /\ newKV' = [newKV EXCEPT ![r][i][k] = request[w].value]
      /\ UNCHANGED <<oldVars, entryKey, markVars, expVars, installed>>
  BY <1>1 DEF PutNew
<1> HIDE DEF k, r, end
<1>8. PICK m \in 1 .. end :
        /\ entryKey[r][m] <= k
        /\ \A j \in m + 1 .. end : k < entryKey[r][j]
        /\ FindByRange(k, r, end) = m
  BY <1>2, <1>3, <1>4, <1>6, FindByRangeAnswer
<1>9. /\ m \in 1 .. Len(entryKey[r])
      /\ \A j \in m + 1 .. Len(entryKey[r]) : k < entryKey[r][j]
  BY <1>4, <1>5, <1>8
<1>10. r \in Nat /\ m \in Nat
  BY <1>3, <1>8, Geometry DEF Ranges
<1>11. PutsAt(w, end, r, m)
  BY <1>2, <1>3, <1>4, <1>7, <1>8, <1>9 DEF PutsAt, k, r
<1>12. QED
  BY <1>10, <1>11 DEF end

LEMMA PutInstalledAt ==
  ASSUME TypeOK, ControlInv, Frontier, installed, AllDone, NEW w \in Writers, PutInstalled(w)
  PROVE  \E r, i \in Nat : PutsAt(w, expandedEntries[r], r, i)
<1> DEFINE k == request[w].key
           r == RangeOf(k)
           end == expandedEntries[r]
           i == FindByRange(k, r, end)
<1>1. wPc[w] = "old" /\ PutNew(request[w], end)
  BY DEF PutInstalled
<1>2. k \in Key /\ request[w].value \in Value
  BY <1>1 DEF ControlInv, Requests
<1>3. r \in Ranges /\ InRange(k, r) /\ StartKey(r) <= k
  BY <1>2, RangeOfKey DEF InRange
<1>4. entryKey[r] \in Seq(Key) /\ Len(entryKey[r]) \in Nat
  BY <1>3 DEF TypeOK
<1>5. expPc[r] = "done" /\ end = Len(entryKey[r]) /\ end \in 1 .. Len(entryKey[r])
  BY <1>3, <1>4 DEF AllDone, Frontier, FrontierOf
<1>6. entryKey[r][1] <= k
  BY <1>3, <1>4, <1>5 DEF Frontier, FrontierOf
<1>7. /\ newKV' = [newKV EXCEPT ![r][i][k] = request[w].value]
      /\ UNCHANGED <<oldVars, entryKey, markVars, expVars, installed>>
  BY <1>1 DEF PutNew
<1> HIDE DEF k, r, end
<1>8. PICK m \in 1 .. end :
        /\ entryKey[r][m] <= k
        /\ \A j \in m + 1 .. end : k < entryKey[r][j]
        /\ FindByRange(k, r, end) = m
  BY <1>2, <1>3, <1>5, <1>6, FindByRangeAnswer
<1>9. /\ m \in 1 .. Len(entryKey[r])
      /\ \A j \in m + 1 .. Len(entryKey[r]) : k < entryKey[r][j]
  BY <1>4, <1>5, <1>8
<1>10. r \in Nat /\ m \in Nat
  BY <1>3, <1>8, Geometry DEF Ranges
<1>11. PutsAt(w, end, r, m)
  BY <1>2, <1>3, <1>5, <1>7, <1>8, <1>9 DEF PutsAt, k, r
<1>12. QED
  BY <1>10, <1>11 DEF end

(* Such a Put keeps the invariant of every range. *)
LEMMA PutsAtValues ==
  ASSUME TypeOK, ControlInv, Frontier, Values, NEW w \in Writers, NEW end,
         NEW r \in Nat, NEW i \in Nat, PutsAt(w, end, r, i)
  PROVE  \A s \in Ranges : RangeInv(s)'
<1>1. r \in Ranges
  BY DEF PutsAt
<1>2. RangeInv(r)'
  BY <1>1, PutNewValues DEF PutsAt, Values
<1>3. ASSUME NEW s \in Ranges, s # r PROVE RangeInv(s)'
  <2>1. newKV'[s] = newKV[s]
    BY <1>1, <1>3 DEF PutsAt, TypeOK
  <2>2. RangeInv(s) /\ UNCHANGED <<oldVars, entryKey, markVars, expVars>>
    BY DEF PutsAt, Values
  <2>3. QED
    BY <2>1, <2>2, RangeStays DEF oldVars, markVars, expVars
<1>4. QED
  BY <1>2, <1>3

(* A Put into a valid, unlocked entry of the old level changes a key that  *)
(* no expander has come to.                                                *)
LEMMA PutOldUnpassed ==
  ASSUME TypeOK, ControlInv, Values, NEW w \in Writers, PutOld(w)
  PROVE  LET k == request[w].key IN
         /\ k \in Key /\ request[w].value \in Value
         /\ oldKV' = [oldKV EXCEPT ![k] = request[w].value]
         /\ UNCHANGED <<oldValid, entryKey, newKV, markVars, expVars, installed>>
         /\ \A s \in Ranges : k \notin Passed(s)
<1> DEFINE k == request[w].key
<1>1. k \in Key /\ request[w].value \in Value
  BY DEF PutOld, ControlInv, Requests
<1>2. ASSUME NEW s \in Ranges, k \in Passed(s) PROVE FALSE
  <2>1. InRange(k, s) /\ OldEntryOf(k) <= cur[s] /\ (OldEntryOf(k) = cur[s] => Copying(s))
    BY <1>2 DEF Passed
  <2>2. OldEntryOf(k) \in FirstOld[s] .. FirstOld[s + 1] - 1
    BY <1>1, <2>1, EntryInRange, OldEntryOfKey, Geometry DEF OldEntry
  <2>3. oldValid[OldEntryOf(k)]
    BY DEF PutOld
  <2>4. cur[s] <= OldEntryOf(k)
    BY <2>2, <2>3 DEF Values, RangeInv, OldOf
  <2>5. OldEntryOf(k) = cur[s]
    BY <2>1, <2>2, <2>4, Geometry DEF TypeOK, OldEntry
  <2>6. Locked(OldEntryOf(k))
    BY <2>1, <2>5 DEF Locked, Copying
  <2>7. QED
    BY <2>6 DEF PutOld
<1>3. QED
  BY <1>1, <1>2 DEF PutOld, newVars

LEMMA StepValues ==
  ASSUME TypeOK, ControlInv, Frontier, WriterInv, Values, [Next]_vars
  PROVE  Values'
<1> USE DEF oldVars, newVars, markVars, expVars, writerVars
<1>1. ASSUME NEW r \in Ranges, Expander(r) PROVE Values'
  BY <1>1, ExpanderValues
<1>2. ASSUME UNCHANGED <<oldKV, oldValid, entryKey, newKV, maxKey, expVars>>
      PROVE  \A r \in Ranges : RangeInv(r)'
  BY <1>2, RangeStays DEF Values
<1>3. CASE Install
  BY <1>2, <1>3 DEF Install, Values, AllDone, IdleOf
<1>4. ASSUME NEW w \in Writers, Call(w) \/ Put(w) PROVE Values'
  <2>1. \A r \in Ranges : RangeInv(r)'
    <3>1. CASE Call(w) \/ CheckExpanded(w) \/ LoadEnd(w) \/ PutOldFails(w)
      BY <1>2, <3>1 DEF Call, CheckExpanded, LoadEnd, PutOldFails
    <3>2. CASE PutRange(w)
      <4>1. PICK r, i \in Nat : PutsAt(w, wEnd[w], r, i)
        BY <3>2, PutRangeAt
      <4>2. QED
        BY <4>1, PutsAtValues
    <3>3. CASE PutInstalled(w)
      <4>1. installed /\ AllDone
        BY <3>3 DEF PutInstalled, Values
      <4>2. PICK r, i \in Nat : PutsAt(w, expandedEntries[r], r, i)
        BY <3>3, <4>1, PutInstalledAt
      <4>3. QED
        BY <4>2, PutsAtValues
    <3>4. CASE PutOld(w)
      <4> DEFINE k == request[w].key
      <4>1. /\ oldKV' = [oldKV EXCEPT ![k] = request[w].value]
            /\ UNCHANGED <<oldValid, entryKey, newKV, markVars, expVars>>
            /\ \A s \in Ranges : k \notin Passed(s)
        BY <3>4, PutOldUnpassed
      <4>2. \A s \in Ranges : \A j \in Passed(s) : j \in Key /\ j # k
        BY <4>1 DEF Passed
      <4>3. \A j \in Key : j # k => oldKV'[j] = oldKV[j]
        BY <4>1 DEF TypeOK, Content
      <4> HIDE DEF k
      <4>4. ASSUME NEW s \in Ranges PROVE RangeInv(s)'
        BY <4>1, <4>2, <4>3, RangeStays DEF Values
      <4>5. QED
        BY <4>4
    <3>5. QED
      BY <1>4, <3>1, <3>2, <3>3, <3>4 DEF Put
  <2>2. UNCHANGED <<expPc, installed>>
    BY <1>4 DEF Call, Put, CheckExpanded, LoadEnd, PutRange, PutNew, PutOld, PutOldFails,
       PutInstalled
  <2>3. \A v \in Writers : IdleOf(v)'
    BY <1>4 DEF Call, Put, CheckExpanded, LoadEnd, PutRange, PutOld, PutOldFails,
       PutInstalled, Finish, TypeOK, Values, IdleOf
  <2>4. QED
    BY <2>1, <2>2, <2>3 DEF Values, AllDone
<1>5. CASE UNCHANGED vars
  BY <1>2, <1>5 DEF vars, Values, AllDone, IdleOf
<1>6. QED
  BY <1>1, <1>3, <1>4, <1>5 DEF Next, Terminated

-----------------------------------------------------------------------------
(* The invariant of the whole expansion. *)
IInv == Expansion_Inv /\ Values

(***************************************************************************)
(* What holds of keys and values between any two steps of the expanders    *)
(* and the writers (blevel.cc:190-237, 375-511).                           *)
(***************************************************************************)
THEOREM ValuesInvariance == Spec => []IInv
<1>1. Init => Values
  BY InitValues
<1>2. Expansion_Inv /\ Values /\ [Next]_vars => Values'
  BY StepValues DEF Expansion_Inv
<1>3. QED
  BY <1>1, <1>2, Invariance, PTL DEF Spec, IInv

(***************************************************************************)
(* No copy is ever stale: a key on its way has no value in the new level,  *)
(* so neither a flush nor a spill overwrites a writer's newer value        *)
(* (blevel.cc:196, 206-207).                                               *)
(***************************************************************************)
THEOREM NoStaleCopyAlways == Spec => []NoStaleCopy
<1>1. ASSUME IInv PROVE NoStaleCopy
  <2>1. ASSUME NEW r \in Ranges, NEW k \in todo[r] \cup KeysOf(buf[r])
        PROVE  /\ InRange(k, r)
               /\ maxKey[r] <= k
               /\ \A i \in 1 .. Capacity[r] : newKV[r][i][k] = None
    <3>1. k \in Key /\ k \in Passed(r) /\ k \notin NewKeys(r)
      BY <1>1, <2>1 DEF IInv, Values, RangeInv, TodoOf, BufOf, KeysOf, Passed
    <3>2. maxKey[r] <= k
      BY <1>1, <2>1 DEF IInv, Expansion_Inv, Frontier, FrontierOf, Values, RangeInv, BufOf
    <3>3. QED
      BY <3>1, <3>2, NewKeysMember DEF Passed
  <2>2. QED
    BY <2>1 DEF NoStaleCopy
<1>2. QED
  BY <1>1, ValuesInvariance, PTL

(* A key of the new level is where a search of its whole range ends. *)
LEMMA NewKeyHome ==
  ASSUME TypeOK, Frontier, NEW r \in Ranges, RangeInv(r),
         NEW i \in 1 .. Capacity[r], NEW k \in KeysOf(newKV[r][i])
  PROVE  /\ k \in Key
         /\ InRange(k, r)
         /\ r = RangeOf(k)
         /\ i <= Len(entryKey[r])
         /\ FindByRange(k, r, Len(entryKey[r])) = i
<1> DEFINE n == Len(entryKey[r])
<1>1. k \in Key /\ NewKeyAt(r, i, k)
  BY DEF RangeInv, EntriesOf, KeysOf
<1>2. InRange(k, r) /\ r = RangeOf(k) /\ StartKey(r) <= k
  BY <1>1, RangeOfKey DEF NewKeyAt, Passed, InRange
<1>3. /\ entryKey[r] \in Seq(Key) /\ n \in Nat
      /\ i \in 1 .. n
      /\ n \in 1 .. n
      /\ k \in Nat
  <2>1. entryKey[r] \in Seq(Key) /\ k \in Nat
    BY <1>1, Geometry DEF TypeOK, Key
  <2>2. n \in Nat /\ i <= n /\ i \in Nat /\ 1 <= i
    BY <1>1, <2>1 DEF NewKeyAt
  <2> HIDE DEF n
  <2>3. QED
    BY <2>1, <2>2 DEF n
<1>4. entryKey[r][1] <= k
  BY <1>2, <1>3 DEF Frontier, FrontierOf
<1>5. \A j \in 1 .. n : entryKey[r][j] \in Nat
  <2>1. \A j \in 1 .. n : entryKey[r][j] \in Key
    BY <1>3
  <2>2. QED
    BY <2>1, Geometry DEF Key
<1>6. PICK m \in 1 .. n :
        /\ entryKey[r][m] <= k
        /\ \A j \in m + 1 .. n : k < entryKey[r][j]
        /\ FindByRange(k, r, n) = m
  BY <1>1, <1>3, <1>4, FindByRangeAnswer
<1>7. entryKey[r][i] <= k /\ \A j \in i + 1 .. n : k < entryKey[r][j]
  BY <1>1 DEF NewKeyAt
<1> HIDE DEF n
<1>8. i = m
  <2>1. i \in Nat /\ m \in Nat
    BY <1>3, <1>6
  <2>2. ~ i < m
    <3>1. i < m => m \in i + 1 .. n
      BY <1>3, <1>6, <2>1
    <3>2. QED
      BY <1>3, <1>5, <1>6, <1>7, <3>1
  <2>3. ~ m < i
    <3>1. m < i => i \in m + 1 .. n
      BY <1>3, <1>6, <2>1
    <3>2. QED
      BY <1>3, <1>5, <1>6, <1>7, <3>1
  <2>4. QED
    BY <2>1, <2>2, <2>3
<1>9. QED
  BY <1>1, <1>2, <1>3, <1>6, <1>8 DEF n

(***************************************************************************)
(* Every key of the new level is in the entry where searches look for it   *)
(* (blevel.cc:819-844).                                                    *)
(***************************************************************************)
THEOREM KeysInPlaceAlways == Spec => []KeysInPlace
<1>1. IInv => KeysInPlace
  BY NewKeyHome DEF IInv, Expansion_Inv, Values, KeysInPlace
<1>2. QED
  BY <1>1, ValuesInvariance, PTL

-----------------------------------------------------------------------------
(***************************************************************************)
(* The refinement.  What a search answers is the value in the new level,   *)
(* if the key is there, and else the one in the old entry, valid or not.   *)
(***************************************************************************)
LEMMA LookupNew ==
  ASSUME IInv, NEW r \in Ranges, NEW i \in 1 .. Capacity[r],
         NEW k \in KeysOf(newKV[r][i])
  PROVE  Lookup(k) = newKV[r][i][k] /\ RangeOf(k) = r /\ k \in Key
<1>1. /\ k \in Key /\ r = RangeOf(k)
      /\ FindByRange(k, r, Len(entryKey[r])) = i
  BY NewKeyHome DEF IInv, Expansion_Inv, Values
<1>2. newKV[r][i][k] # None /\ i # 0
  BY DEF KeysOf
<1>3. NewValue(k) = newKV[r][i][k]
  BY <1>1, <1>2 DEF NewValue
<1>4. QED
  BY <1>1, <1>2, <1>3 DEF Lookup

LEMMA LookupOld ==
  ASSUME IInv, NEW k \in Key, k \notin NewKeys(RangeOf(k))
  PROVE  Lookup(k) = oldKV[k]
<1> DEFINE r == RangeOf(k)
           n == Len(entryKey[r])
           i == FindByRange(k, r, n)
<1>1. r \in Ranges /\ InRange(k, r)
  BY RangeOfKey
<1>2. RangeInv(r) /\ TypeOK /\ ControlInv
  BY <1>1 DEF IInv, Expansion_Inv, Values
<1>3. NewValue(k) = None
  <2>1. \A j \in 1 .. Capacity[r] : newKV[r][j][k] = None
    BY <1>1, NewKeysMember
  <2>2. CASE \E j \in 1 .. n : entryKey[r][j] <= k
    <3>1. StartKey(r) <= k
      BY <1>1 DEF InRange
    <3>2. entryKey[r] \in Seq(Key) /\ n \in Nat /\ n <= Capacity[r] /\ Capacity[r] \in Nat
      BY <1>1, <1>2, SizeAssumption DEF TypeOK
    <3>3. n \in 1 .. n
      BY <2>2, <3>2
    <3>4. entryKey[r][1] <= k
      BY <1>1, <3>1, <3>3 DEF IInv, Expansion_Inv, Frontier, FrontierOf
    <3>5. i \in 1 .. n
      BY <1>1, <1>2, <3>3, <3>4, FindByRangeAnswer
    <3>6. i \in 1 .. Capacity[r] /\ i # 0
      BY <3>2, <3>5
    <3>7. NewValue(k) = newKV[r][i][k]
      BY <3>6 DEF NewValue
    <3>8. QED
      BY <2>1, <3>6, <3>7
  <2>3. CASE ~ \E j \in 1 .. n : entryKey[r][j] <= k
    BY <2>3 DEF NewValue, FindByRange
  <2>4. QED
    BY <2>2, <2>3
<1>4. CASE buf[r][k] # None
  <2>1. buf[r][k] = oldKV[k]
    BY <1>2, <1>4 DEF RangeInv, BufOf, KeysOf
  <2>2. QED
    BY <1>3, <1>4, <2>1 DEF Lookup
<1>5. CASE buf[r][k] = None /\ oldValid[OldEntryOf(k)]
  BY <1>3, <1>5 DEF Lookup
<1>6. CASE buf[r][k] = None /\ ~ oldValid[OldEntryOf(k)]
  <2>1. OldEntryOf(k) \in FirstOld[r] .. FirstOld[r + 1] - 1
    BY <1>1, EntryInRange, OldEntryOfKey, Geometry DEF OldEntry
  <2>2. OldEntryOf(k) < cur[r]
    BY <1>1, <1>2, <1>6, <2>1, Geometry DEF RangeInv, OldOf, TypeOK, OldEntry
  <2>3. k \in Passed(r)
    BY <1>1, <1>2, <2>1, <2>2, Geometry DEF Passed, TypeOK, OldEntry
  <2>4. k \notin todo[r]
    <3>1. ASSUME k \in todo[r] PROVE FALSE
      <4>1. InOldEntry(k, cur[r]) /\ expPc[r] \in {"copy", "publish"}
        BY <1>1, <1>2, <3>1 DEF ControlInv
      <4>2. cur[r] < FirstOld[r + 1]
        BY <1>1, <1>2, <4>1 DEF ControlInv
      <4>3. OldEntryOf(k) = cur[r]
        BY <1>1, <1>2, <4>1, <4>2, CurrentEntry
      <4>4. QED
        BY <1>1, <1>2, <2>2, <4>3 DEF TypeOK
    <3>2. QED
      BY <3>1
  <2>5. oldKV[k] = None
    BY <1>2, <1>6, <2>3, <2>4 DEF RangeInv, OldOf, KeysOf
  <2>6. QED
    BY <1>3, <1>6, <2>5 DEF Lookup
<1>7. QED
  BY <1>4, <1>5, <1>6

(* Both in one predicate, now and after a step. *)
LookupAnswers ==
  \A r \in Ranges : \A k \in Key :
    /\ \A i \in 1 .. Capacity[r] :
         k \in KeysOf(newKV[r][i]) => Lookup(k) = newKV[r][i][k] /\ RangeOf(k) = r
    /\ RangeOf(k) = r /\ k \notin NewKeys(r) => Lookup(k) = oldKV[k]

LEMMA LookupAnswered == IInv => LookupAnswers
<1> SUFFICES ASSUME IInv PROVE LookupAnswers
  OBVIOUS
<1>1. ASSUME NEW r \in Ranges, NEW k \in Key, NEW i \in 1 .. Capacity[r],
             k \in KeysOf(newKV[r][i])
      PROVE  Lookup(k) = newKV[r][i][k] /\ RangeOf(k) = r
  BY <1>1, LookupNew
<1>2. ASSUME NEW r \in Ranges, NEW k \in Key, RangeOf(k) = r, k \notin NewKeys(r)
      PROVE  Lookup(k) = oldKV[k]
  BY <1>2, LookupOld
<1>3. QED
  BY <1>1, <1>2 DEF LookupAnswers

LEMMA LookupAnsweredNext == IInv' => LookupAnswers'
BY LookupAnswered, PTL

(***************************************************************************)
(* A search for k answers the same after a step that leaves the old value  *)
(* of k alone and adds at most this value to the new level.                *)
(***************************************************************************)
LEMMA LookupStays ==
  ASSUME IInv, IInv', NEW k \in Key, oldKV'[k] = oldKV[k],
         \A r \in Ranges : \A i \in 1 .. Capacity[r] :
           /\ k \in KeysOf(newKV[r][i]) => newKV'[r][i][k] = newKV[r][i][k]
           /\ k \in KeysOf(newKV'[r][i]) /\ k \notin NewKeys(r)
                => newKV'[r][i][k] = oldKV[k]
  PROVE  Lookup(k)' = Lookup(k)
<1> DEFINE r == RangeOf(k)
<1>1. r \in Ranges
  BY RangeOfKey
<1> HIDE DEF r
<1> USE LookupAnswered, LookupAnsweredNext DEF LookupAnswers
<1>2. CASE k \in NewKeys(r)
  <2>1. PICK i \in 1 .. Capacity[r] : k \in KeysOf(newKV[r][i])
    BY <1>2 DEF NewKeys
  <2>2. newKV'[r][i][k] = newKV[r][i][k]
    BY <1>1, <2>1
  <2>3. k \in KeysOf(newKV'[r][i])
    BY <2>1, <2>2 DEF KeysOf
  <2>4. Lookup(k) = newKV[r][i][k]
    BY <1>1, <2>1
  <2>5. Lookup(k)' = newKV'[r][i][k]
    BY <1>1, <2>1, <2>3
  <2>6. QED
    BY <2>2, <2>4, <2>5
<1>3. CASE k \notin NewKeys(r)
  <2>1. Lookup(k) = oldKV[k]
    BY <1>1, <1>3 DEF r
  <2>2. CASE k \in NewKeys(r)'
    <3>1. PICK i \in 1 .. Capacity[r] : k \in KeysOf(newKV'[r][i])
      BY <2>2 DEF NewKeys
    <3>2. newKV'[r][i][k] = oldKV[k]
      BY <1>1, <1>3, <3>1
    <3>3. Lookup(k)' = newKV'[r][i][k]
      BY <1>1, <3>1
    <3>4. QED
      BY <2>1, <3>2, <3>3
  <2>3. CASE k \notin NewKeys(r)'
    <3>1. Lookup(k)' = oldKV'[k]
      BY <1>1, <2>3 DEF r
    <3>2. QED
      BY <2>1, <3>1
  <2>4. QED
    BY <2>2, <2>3
<1>4. QED
  BY <1>2, <1>3

(* No step of an expander changes what a search answers. *)
LEMMA ExpanderLookup ==
  ASSUME IInv, IInv', NEW r \in Ranges, Expander(r)
  PROVE  request' = request /\ \A k \in Key : Lookup(k)' = Lookup(k)
<1>1. TypeOK /\ ControlInv /\ Frontier /\ RangeInv(r)
  BY DEF IInv, Expansion_Inv, Values
<1>2. /\ oldKV' = oldKV /\ request' = request
      /\ \A s \in Ranges : s # r => newKV'[s] = newKV[s]
  BY <1>1, ExpanderFrame DEF writerVars
<1>3. ASSUME NEW i \in 1 .. Capacity[r], NEW k \in Key
      PROVE  /\ k \in KeysOf(newKV[r][i]) => newKV'[r][i][k] = newKV[r][i][k]
             /\ k \in KeysOf(newKV'[r][i]) /\ k \notin NewKeys(r)
                  => newKV'[r][i][k] = oldKV[k]
  <2>1. CASE newKV' = newKV
    BY <2>1 DEF NewKeys
  <2>2. CASE ExpandPutFlush(r) \/ ExpandFinish(r)
    <3> DEFINE n == Len(entryKey'[r])
    <3>1. (Flush(r) \/ Spill(r)) /\ ~ Ended(r)
      BY <2>2 DEF ExpandPutFlush, ExpandFinish, Ended
    <3>2. /\ n \in 1 .. Capacity[r]
          /\ newKV'[r][n] = Overlay(newKV[r][n], buf[r])
          /\ \A j \in 1 .. Capacity[r] : j # n => newKV'[r][j] = newKV[r][j]
      BY <1>1, <3>1, FlushEntries
    <3> HIDE DEF n
    <3>3. newKV'[r][n][k] = IF buf[r][k] # None THEN buf[r][k] ELSE newKV[r][n][k]
      BY <3>2 DEF Overlay
    <3>4. k \in KeysOf(newKV[r][i]) => buf[r][k] = None
      BY <1>1, <3>2 DEF RangeInv, BufOf, KeysOf, NewKeys
    <3>5. buf[r][k] # None => buf[r][k] = oldKV[k]
      BY <1>1 DEF RangeInv, BufOf, KeysOf
    <3>6. k \notin NewKeys(r) => newKV[r][i][k] = None
      BY DEF KeysOf, NewKeys
    <3>7. CASE i = n
      BY <3>3, <3>4, <3>5, <3>6, <3>7 DEF KeysOf
    <3>8. CASE i # n
      BY <3>2, <3>6, <3>8 DEF KeysOf
    <3>9. QED
      BY <3>7, <3>8
  <2>3. QED
    BY <2>1, <2>2 DEF Expander, LockEntry, ExpandPut, ExpandPutPublish, Invalidate,
       ExpandFinishPublish, newVars
<1>4. ASSUME NEW s \in Ranges, s # r, NEW i \in 1 .. Capacity[s], NEW k \in Key
      PROVE  /\ k \in KeysOf(newKV[s][i]) => newKV'[s][i][k] = newKV[s][i][k]
             /\ k \in KeysOf(newKV'[s][i]) => k \in NewKeys(s)
  BY <1>2, <1>4 DEF NewKeys
<1>5. QED
  BY <1>2, <1>3, <1>4, LookupStays

(* A Put that returns has changed what a search for its key answers, and   *)
(* nothing else.                                                           *)
LEMMA PutsAtLookup ==
  ASSUME IInv, IInv', NEW w \in Writers, NEW end, NEW r \in Nat, NEW i \in Nat,
         PutsAt(w, end, r, i)
  PROVE  \A j \in Key :
           Lookup(j)' = IF j = request[w].key THEN request[w].value ELSE Lookup(j)
<1>0. PICK k, v : k = request[w].key /\ v = request[w].value
  OBVIOUS
<1>1. /\ TypeOK
      /\ k \in Key /\ v \in Value
      /\ r \in Ranges
      /\ i \in 1 .. Len(entryKey[r])
      /\ newKV' = [newKV EXCEPT ![r][i][k] = v]
      /\ oldKV' = oldKV
  BY <1>0 DEF IInv, Expansion_Inv, PutsAt, oldVars
<1>2. /\ i \in 1 .. Capacity[r]
      /\ newKV[r] \in [1 .. Capacity[r] -> Content]
      /\ DOMAIN newKV = Ranges
  <2>1. /\ entryKey[r] \in Seq(Key)
        /\ Len(entryKey[r]) <= Capacity[r]
        /\ Capacity[r] \in Nat
        /\ newKV[r] \in [1 .. Capacity[r] -> Content]
        /\ DOMAIN newKV = Ranges
    BY <1>1, SizeAssumption DEF TypeOK
  <2>2. QED
    BY <1>1, <2>1
<1>3. newKV'[r][i][k] = v
  BY <1>1, <1>2 DEF Content
<1>4. ASSUME NEW s \in Ranges, NEW m \in 1 .. Capacity[s], NEW j \in Key, j # k
      PROVE  newKV'[s][m][j] = newKV[s][m][j]
  BY <1>1, <1>2, <1>4 DEF TypeOK, Content
<1>5. Lookup(k)' = v
  <2>1. k \in KeysOf(newKV'[r][i])
    BY <1>1, <1>3, ContentAssumption DEF KeysOf
  <2>2. QED
    BY <1>1, <1>2, <1>3, <2>1, LookupAnsweredNext DEF LookupAnswers
<1>6. ASSUME NEW j \in Key, j # k PROVE Lookup(j)' = Lookup(j)
  <2>1. ASSUME NEW s \in Ranges, NEW m \in 1 .. Capacity[s], j \in KeysOf(newKV'[s][m])
        PROVE  j \in NewKeys(s)
    BY <1>4, <1>6, <2>1 DEF NewKeys, KeysOf
  <2>2. QED
    BY <1>1, <1>4, <1>6, <2>1, LookupStays
<1>7. QED
  BY <1>0, <1>5, <1>6

LEMMA PutOldLookup ==
  ASSUME IInv, IInv', NEW w \in Writers, PutOld(w)
  PROVE  \A j \in Key :
           Lookup(j)' = IF j = request[w].key THEN request[w].value ELSE Lookup(j)
<1>0. PICK k, v : k = request[w].key /\ v = request[w].value
  OBVIOUS
<1>1. TypeOK /\ ControlInv /\ Values /\ oldKV \in Content
  BY DEF IInv, Expansion_Inv, TypeOK
<1>2. /\ k \in Key
      /\ oldKV' = [oldKV EXCEPT ![k] = v]
      /\ newKV' = newKV
      /\ \A s \in Ranges : k \notin Passed(s)
  BY <1>0, <1>1, PutOldUnpassed
<1>3. \A s \in Ranges : k \notin NewKeys(s)
  BY <1>1, <1>2, NewKeysPassed DEF Values, RangeInv
<1>4. \A s \in Ranges : NewKeys(s)' = NewKeys(s)
  BY <1>2 DEF NewKeys
<1>5. Lookup(k)' = v
  <2>1. RangeOf(k) \in Ranges
    BY <1>2, RangeOfKey
  <2>2. Lookup(k)' = oldKV'[k]
    BY <1>2, <1>3, <1>4, <2>1, LookupAnsweredNext DEF LookupAnswers
  <2>3. QED
    BY <1>1, <1>2, <2>2 DEF Content
<1>6. ASSUME NEW j \in Key, j # k PROVE Lookup(j)' = Lookup(j)
  <2>1. oldKV'[j] = oldKV[j]
    BY <1>1, <1>2, <1>6 DEF Content
  <2>2. QED
    BY <1>2, <2>1, LookupStays DEF NewKeys
<1>7. QED
  BY <1>0, <1>5, <1>6

LEMMA InitRefines == Init => Store!Init
<1> SUFFICES ASSUME Init PROVE Store!Init
  OBVIOUS
<1>1. \A k \in Key : Lookup(k) = oldKV[k]
  <2>1. IInv
    BY InitValues, InitControl, InitFrontier DEF IInv, Expansion_Inv
  <2>2. ASSUME NEW k \in Key PROVE k \notin NewKeys(RangeOf(k))
    BY RangeOfKey DEF Init, NewKeys, KeysOf, Empty
  <2>3. QED
    BY <2>1, <2>2, LookupOld
<1>2. oldKV \in Content
  BY ContentAssumption DEF Init
<1>3. [k \in Key |-> Lookup(k)] \in [Key -> Value \cup {None}]
  BY <1>1, <1>2 DEF Content
<1>4. QED
  BY <1>3 DEF Store!Init, Init

LEMMA StepRefines == IInv /\ IInv' /\ [Next]_vars => [Store!Next]_(Store!vars)
<1> SUFFICES ASSUME IInv, IInv', [Next]_vars PROVE [Store!Next]_(Store!vars)
  OBVIOUS
<1> DEFINE store == [k \in Key |-> Lookup(k)]
<1>1. ASSUME request' = request, \A k \in Key : Lookup(k)' = Lookup(k)
      PROVE  UNCHANGED Store!vars
  BY <1>1 DEF Store!vars
<1>2. ASSUME UNCHANGED <<oldKV, newKV>>
      PROVE  \A k \in Key : Lookup(k)' = Lookup(k)
  BY <1>2, LookupStays DEF NewKeys
<1>3. ASSUME NEW r \in Ranges, Expander(r) PROVE UNCHANGED Store!vars
  BY <1>1, <1>3, ExpanderLookup
<1>4. CASE Install
  BY <1>1, <1>2, <1>4 DEF Install, oldVars, newVars, writerVars
<1>5. ASSUME NEW w \in Writers, Call(w) PROVE Store!Call(w)
  <2>1. /\ request[w] = None
        /\ \E q \in Requests : request' = [request EXCEPT ![w] = q]
        /\ UNCHANGED <<oldKV, newKV>>
    BY <1>5 DEF Call, oldVars, newVars, IInv, Values, IdleOf
  <2>2. store' = store
    BY <1>2, <2>1
  <2>3. QED
    BY <2>1, <2>2 DEF Store!Call, Store!Requests, Requests
<1>6. ASSUME NEW w \in Writers,
             wPc[w] # "idle",
             request' = [request EXCEPT ![w] = None],
             \A j \in Key :
               Lookup(j)' = IF j = request[w].key THEN request[w].value ELSE Lookup(j)
      PROVE  Store!Return(w)
  <2>1. request[w] # None
    BY <1>6, ContentAssumption DEF IInv, Expansion_Inv, ControlInv
  <2>2. store' = [store EXCEPT ![request[w].key] = request[w].value]
    BY <1>6
  <2>3. QED
    BY <1>6, <2>1, <2>2 DEF Store!Return
<1>7. ASSUME NEW w \in Writers, PutRange(w) PROVE Store!Return(w)
  <2>1. PICK r, i \in Nat : PutsAt(w, wEnd[w], r, i)
    BY <1>7, PutRangeAt DEF IInv, Expansion_Inv
  <2>2. wPc[w] # "idle" /\ request' = [request EXCEPT ![w] = None]
    BY <1>7 DEF PutRange, Finish
  <2>3. QED
    BY <1>6, <2>1, <2>2, PutsAtLookup
<1>8. ASSUME NEW w \in Writers, PutInstalled(w) PROVE Store!Return(w)
  <2>1. installed /\ AllDone
    BY <1>8 DEF PutInstalled, IInv, Values
  <2>2. PICK r, i \in Nat : PutsAt(w, expandedEntries[r], r, i)
    BY <1>8, <2>1, PutInstalledAt DEF IInv, Expansion_Inv
  <2>3. wPc[w] # "idle" /\ request' = [request EXCEPT ![w] = None]
    BY <1>8 DEF PutInstalled, Finish
  <2>4. QED
    BY <1>6, <2>2, <2>3, PutsAtLookup
<1>9. ASSUME NEW w \in Writers, PutOld(w) PROVE Store!Return(w)
  <2>1. wPc[w] # "idle" /\ request' = [request EXCEPT ![w] = None]
    BY <1>9 DEF PutOld, Finish
  <2>2. QED
    BY <1>6, <1>9, <2>1, PutOldLookup
<1>10. ASSUME NEW w \in Writers, CheckExpanded(w) \/ LoadEnd(w) \/ PutOldFails(w)
       PROVE  UNCHANGED Store!vars
  BY <1>1, <1>2, <1>10 DEF CheckExpanded, LoadEnd, PutOldFails, oldVars, newVars
<1>11. CASE UNCHANGED vars
  BY <1>1, <1>2, <1>11 DEF vars, oldVars, newVars, writerVars
<1>12. QED
  BY <1>3, <1>4, <1>5, <1>7, <1>8, <1>9, <1>10, <1>11
     DEF Next, Terminated, Put, Store!Next

(***************************************************************************)
(* The expansion with its writers implements the plain map: each Put that  *)
(* returns has changed its key in one step, and nothing else changes any   *)
(* (blevel.cc:190-237, 375-511, combotree.cc:342-354).                     *)
(***************************************************************************)
THEOREM ImplementsKVStore == Spec => ExpansionInvisible
<1>1. Spec => Store!Init /\ [][Store!Next]_(Store!vars)
  BY InitRefines, StepRefines, ValuesInvariance, PTL DEF Spec
<1>2. QED
  BY <1>1 DEF ExpansionInvisible, Store!Spec

-----------------------------------------------------------------------------
(* The size of the new level: cardinalities of sets of keys. *)
LEMMA KeysWithin ==
  ASSUME NEW S \in SUBSET Key, NEW T \in SUBSET Key, S \subseteq T
  PROVE  /\ Cardinality(S) \in Nat /\ Cardinality(T) \in Nat
         /\ Cardinality(S) <= Cardinality(T)
<1>1. IsFiniteSet(T)
  <2>1. IsFiniteSet(Key)
    BY Geometry, FS_Interval DEF Key
  <2>2. QED
    BY <2>1, FS_Subset
<1>2. IsFiniteSet(S) /\ Cardinality(S) <= Cardinality(T)
  BY <1>1, FS_Subset
<1>3. QED
  BY <1>1, <1>2, FS_CardinalityType

LEMMA KeysWithinUnion ==
  ASSUME NEW S \in SUBSET Key, NEW T \in SUBSET Key, NEW U \in SUBSET Key,
         S \subseteq T \cup U
  PROVE  Cardinality(S) <= Cardinality(T) + Cardinality(U)
<1>1. IsFiniteSet(T) /\ IsFiniteSet(U)
  <2>1. IsFiniteSet(Key)
    BY Geometry, FS_Interval DEF Key
  <2>2. QED
    BY <2>1, FS_Subset
<1>2. Cardinality(T \cup U) = Cardinality(T) + Cardinality(U) - Cardinality(T \cap U)
  BY <1>1, FS_Union
<1>3. Cardinality(S) <= Cardinality(T \cup U) /\ Cardinality(S) \in Nat
  BY KeysWithin
<1>4. /\ Cardinality(T) \in Nat
      /\ Cardinality(U) \in Nat
      /\ Cardinality(T \cap U) \in Nat
      /\ Cardinality(T \cup U) \in Nat
  BY KeysWithin
<1>5. QED
  BY <1>2, <1>3, <1>4

LEMMA KeysWithinAdd ==
  ASSUME NEW S \in SUBSET Key, NEW T \in SUBSET Key, NEW k \in Key,
         S \subseteq T \cup {k}
  PROVE  Cardinality(S) <= Cardinality(T) + 1
<1>1. Cardinality({k}) = 1
  BY FS_Singleton
<1>2. Cardinality(S) <= Cardinality(T) + Cardinality({k})
  BY KeysWithinUnion
<1>3. QED
  BY <1>1, <1>2

-----------------------------------------------------------------------------
(***************************************************************************)
(* Moved(r): the old keys that expander r has handed to ExpandPut_, each   *)
(* counted in the size of its ExpandData.  Counted: the new keys that some *)
(* addition to size_ stands for; an old key counts from the moment its     *)
(* expander has added its own sum.                                         *)
(***************************************************************************)
Moved(r) == {k \in KeysOf(buf[r]) \cup NewKeys(r) : oldKV[k] # None}

Counted == {k \in Key : /\ k \in NewKeys(RangeOf(k))
                        /\ oldKV[k] # None => expPc[RangeOf(k)] = "done"}

Sizes == /\ \A r \in Ranges : Cardinality(Moved(r)) <= dataSize[r]
         /\ Cardinality(Counted) <= newSize

LEMMA SetsOfKeys ==
  /\ \A r \in Ranges : Moved(r) \in SUBSET Key /\ Moved(r)' \in SUBSET Key
  /\ Counted \in SUBSET Key /\ Counted' \in SUBSET Key
BY DEF Moved, Counted, KeysOf, NewKeys

(* The sum of an expander stays right while it moves no key. *)
LEMMA MovedStays ==
  ASSUME Sizes, TypeOK, NEW r \in Ranges, dataSize'[r] = dataSize[r],
         Moved(r)' \subseteq Moved(r)
  PROVE  Cardinality(Moved(r)') <= dataSize'[r]
<1>1. Cardinality(Moved(r)') <= Cardinality(Moved(r))
  BY SetsOfKeys, KeysWithin
<1>2. Cardinality(Moved(r)) <= dataSize[r] /\ dataSize[r] \in Nat
  BY DEF Sizes, TypeOK
<1>3. Cardinality(Moved(r)') \in Nat /\ Cardinality(Moved(r)) \in Nat
  BY SetsOfKeys, KeysWithin
<1>4. QED
  BY <1>1, <1>2, <1>3

(* As long as no key enters the new level uncounted, size_ stays right. *)
LEMMA CountedStays ==
  ASSUME Sizes, TypeOK, newSize' = newSize, Counted' \subseteq Counted
  PROVE  Cardinality(Counted') <= newSize'
<1>1. Cardinality(Counted') <= Cardinality(Counted)
  BY SetsOfKeys, KeysWithin
<1>2. Cardinality(Counted) <= newSize /\ newSize \in Nat
  BY DEF Sizes, TypeOK
<1>3. Cardinality(Counted') \in Nat /\ Cardinality(Counted) \in Nat
  BY SetsOfKeys, KeysWithin
<1>4. QED
  BY <1>1, <1>2, <1>3

LEMMA InitSizes == Init => Sizes
<1> SUFFICES ASSUME Init PROVE Sizes
  OBVIOUS
<1>1. \A r \in Ranges : KeysOf(buf[r]) = {} /\ NewKeys(r) = {}
  BY DEF Init, KeysOf, NewKeys, Empty
<1>2. \A r \in Ranges : Moved(r) = {} /\ dataSize[r] = 0
  BY <1>1 DEF Moved, Init
<1>3. Counted = {}
  BY <1>1, RangeOfKey DEF Counted
<1>4. newSize = 0 /\ Cardinality({}) = 0
  BY FS_EmptySet DEF Init
<1>5. QED
  BY <1>2, <1>3, <1>4 DEF Sizes

-----------------------------------------------------------------------------
(* The steps. *)

(* Steps that move no key and count none. *)
LEMMA SizesStay ==
  ASSUME Sizes, TypeOK,
         UNCHANGED <<oldKV, newKV, newSize, buf, dataSize>>,
         \A r \in Ranges : expPc'[r] = "done" => expPc[r] = "done"
  PROVE  Sizes'
<1>1. ASSUME NEW r \in Ranges
      PROVE  NewKeys(r)' = NewKeys(r) /\ Moved(r)' = Moved(r)
  BY DEF NewKeys, Moved
<1>2. Counted' \subseteq Counted
  BY <1>1, RangeOfKey DEF Counted
<1>3. QED
  BY <1>1, <1>2, MovedStays, CountedStays DEF Sizes

(* ExpandPut_ stores one key and adds one to its sum. *)
LEMMA BufferSizes ==
  ASSUME Sizes, TypeOK, NEW r \in Ranges, todo[r] # {}, Buffer(r, buf[r]),
         UNCHANGED <<oldKV, newKV, newSize>>,
         \A s \in Ranges : expPc'[s] = "done" => expPc[s] = "done"
  PROVE  Sizes'
<1>1. PICK k \in Key :
        /\ buf' = [buf EXCEPT ![r] = [buf[r] EXCEPT ![k] = oldKV[k]]]
        /\ dataSize' = [dataSize EXCEPT ![r] = @ + 1]
  BY NextKey DEF Buffer
<1>2. \A s \in Ranges : NewKeys(s)' = NewKeys(s)
  BY DEF NewKeys
<1>3. Counted' \subseteq Counted
  BY <1>2, RangeOfKey DEF Counted
<1>4. Cardinality(Moved(r)') <= dataSize'[r]
  <2>1. Moved(r)' \subseteq Moved(r) \cup {k}
    BY <1>1, <1>2 DEF Moved, KeysOf, TypeOK, Content
  <2>2. Cardinality(Moved(r)') <= Cardinality(Moved(r)) + 1
    BY <2>1, SetsOfKeys, KeysWithinAdd
  <2>3. dataSize'[r] = dataSize[r] + 1
    BY <1>1 DEF TypeOK
  <2>4. Cardinality(Moved(r)') \in Nat /\ Cardinality(Moved(r)) \in Nat
    BY SetsOfKeys, KeysWithin
  <2>5. Cardinality(Moved(r)) <= dataSize[r] /\ dataSize[r] \in Nat
    BY DEF Sizes, TypeOK
  <2>6. QED
    BY <2>2, <2>3, <2>4, <2>5
<1>5. ASSUME NEW s \in Ranges, s # r PROVE Cardinality(Moved(s)') <= dataSize'[s]
  <2>1. buf'[s] = buf[s] /\ dataSize'[s] = dataSize[s]
    BY <1>1, <1>5 DEF TypeOK
  <2>2. Moved(s)' = Moved(s)
    BY <1>2, <2>1 DEF Moved
  <2>3. QED
    BY <2>1, <2>2, MovedStays
<1>6. QED
  BY <1>3, <1>4, <1>5, CountedStays DEF Sizes

(* A flush or a spill moves keys from key_buf to the new level: they are   *)
(* old keys of an expander that has not added its sum yet.                 *)
LEMMA FlushSizes ==
  ASSUME Sizes, TypeOK, ControlInv, Frontier, NEW r \in Ranges, RangeInv(r),
         ExpandPutFlush(r) \/ ExpandFinish(r)
  PROVE  Sizes'
<1>1. /\ ~ Ended(r)
      /\ Flush(r) \/ Spill(r)
      /\ UNCHANGED <<oldKV, newSize, dataSize>>
      /\ \A s \in Ranges : expPc'[s] = "done" => expPc[s] = "done"
      /\ expPc'[r] # "done"
  BY DEF ExpandPutFlush, ExpandFinish, Ended, oldVars, TypeOK
<1>2. /\ buf'[r] = Empty
      /\ \A s \in Ranges : s # r => newKV'[s] = newKV[s] /\ buf'[s] = buf[s]
  BY <1>1, FlushEntries
<1>3. NewKeys(r)' = NewKeys(r) \cup KeysOf(buf[r])
  BY <1>1, FlushValues
<1>4. \A s \in Ranges : s # r => NewKeys(s)' = NewKeys(s)
  BY <1>2 DEF NewKeys
<1>5. Moved(r)' \subseteq Moved(r)
  BY <1>1, <1>2, <1>3 DEF Moved, KeysOf, Empty
<1>6. \A s \in Ranges : s # r => Moved(s)' = Moved(s)
  BY <1>1, <1>2, <1>4 DEF Moved
<1>7. Counted' \subseteq Counted
  <2>1. ASSUME NEW k \in Counted' PROVE k \in Counted
    <3>1. k \in Key /\ RangeOf(k) \in Ranges
      BY <2>1, RangeOfKey DEF Counted
    <3>2. CASE RangeOf(k) # r
      BY <1>1, <1>4, <2>1, <3>1, <3>2 DEF Counted
    <3>3. CASE RangeOf(k) = r
      <4>1. oldKV[k] = None /\ k \in NewKeys(r) \cup KeysOf(buf[r])
        BY <1>1, <1>3, <2>1, <3>3 DEF Counted
      <4>2. k \notin KeysOf(buf[r])
        BY <4>1 DEF RangeInv, BufOf, KeysOf
      <4>3. QED
        BY <3>1, <3>3, <4>1, <4>2 DEF Counted
    <3>4. QED
      BY <3>2, <3>3
  <2>2. QED
    BY <2>1
<1>8. QED
  BY <1>1, <1>5, <1>6, <1>7, MovedStays, CountedStays DEF Sizes

(* At its end an expander adds its sum for the keys that it moved. *)
LEMMA FinishSizes ==
  ASSUME Sizes, TypeOK, ControlInv, NEW r \in Ranges, ExpandFinishPublish(r)
  PROVE  Sizes'
<1>1. /\ newSize' = newSize + dataSize[r]
      /\ \A s \in Ranges : s # r => expPc'[s] = expPc[s]
      /\ UNCHANGED <<oldKV, newKV, buf, dataSize>>
  BY DEF ExpandFinishPublish, oldVars, TypeOK
<1>2. \A s \in Ranges : NewKeys(s)' = NewKeys(s) /\ Moved(s)' = Moved(s)
  BY <1>1 DEF NewKeys, Moved
<1>3. Counted' \subseteq Counted \cup Moved(r)
  BY <1>1, <1>2, RangeOfKey DEF Counted, Moved
<1>4. Cardinality(Counted') <= Cardinality(Counted) + Cardinality(Moved(r))
  BY <1>3, SetsOfKeys, KeysWithinUnion
<1>5. /\ Cardinality(Counted') \in Nat
      /\ Cardinality(Counted) \in Nat
      /\ Cardinality(Moved(r)) \in Nat
  BY SetsOfKeys, KeysWithin
<1>6. /\ Cardinality(Counted) <= newSize /\ newSize \in Nat
      /\ Cardinality(Moved(r)) <= dataSize[r] /\ dataSize[r] \in Nat
  BY DEF Sizes, TypeOK
<1>7. Cardinality(Counted') <= newSize'
  BY <1>1, <1>4, <1>5, <1>6
<1>8. QED
  BY <1>1, <1>2, <1>7, MovedStays DEF Sizes

(* A Put to the new level adds one for the one key it can add. *)
LEMMA PutsAtSizes ==
  ASSUME Sizes, TypeOK, ControlInv, Frontier, Values, NEW w \in Writers, NEW end,
         NEW r \in Nat, NEW i \in Nat, PutsAt(w, end, r, i), newSize' = newSize + 1
  PROVE  Sizes'
<1>0. PICK k, v : k = request[w].key /\ v = request[w].value
  OBVIOUS
<1>1. /\ k \in Key /\ v \in Value
      /\ r \in Ranges /\ InRange(k, r)
      /\ k < maxKey[r] \/ expPc[r] = "done"
      /\ newKV' = [newKV EXCEPT ![r][i][k] = v]
      /\ UNCHANGED <<oldKV, buf, dataSize, expPc>>
  BY <1>0 DEF PutsAt, oldVars, expVars
<1>2. \A s \in Ranges : NewKeys(s)' \subseteq NewKeys(s) \cup {k}
  BY <1>1 DEF NewKeys, KeysOf, TypeOK, Content
<1>3. \A s \in Ranges : s # r => NewKeys(s)' = NewKeys(s)
  BY <1>1 DEF NewKeys, TypeOK
<1>4. oldKV[k] # None => k \in NewKeys(r)
  <2>1. RangeInv(r)
    BY <1>1 DEF Values
  <2>2. k \in Passed(r) /\ k \notin todo[r] /\ k \notin KeysOf(buf[r])
    BY <1>1, <2>1, ExpandedKeyPassed
  <2>3. QED
    BY <2>1, <2>2 DEF RangeInv, OldOf
<1>5. ASSUME NEW s \in Ranges PROVE Moved(s)' \subseteq Moved(s)
  BY <1>1, <1>2, <1>3, <1>4 DEF Moved
<1>6. Counted' \subseteq Counted \cup {k}
  BY <1>1, <1>2, RangeOfKey DEF Counted
<1>7. Cardinality(Counted') <= Cardinality(Counted) + 1
  BY <1>1, <1>6, SetsOfKeys, KeysWithinAdd
<1>8. Cardinality(Counted') \in Nat /\ Cardinality(Counted) \in Nat
  BY SetsOfKeys, KeysWithin
<1>9. Cardinality(Counted) <= newSize /\ newSize \in Nat
  BY DEF Sizes, TypeOK
<1>10. Cardinality(Counted') <= newSize'
  BY <1>7, <1>8, <1>9
<1>11. QED
  BY <1>1, <1>5, <1>10, MovedStays DEF Sizes

(* A Put to the old level meets a key that no expander has passed. *)
LEMMA PutOldSizes ==
  ASSUME Sizes, TypeOK, ControlInv, Values, NEW w \in Writers, PutOld(w)
  PROVE  Sizes'
<1>0. PICK k, v : k = request[w].key /\ v = request[w].value
  OBVIOUS
<1>1. /\ k \in Key
      /\ oldKV' = [oldKV EXCEPT ![k] = v]
      /\ UNCHANGED <<newKV, newSize, buf, dataSize, expPc>>
      /\ \A s \in Ranges : k \notin Passed(s)
  BY <1>0, PutOldUnpassed DEF PutOld, newVars, expVars
<1>2. \A s \in Ranges : NewKeys(s)' = NewKeys(s) /\ k \notin NewKeys(s)
  <2>1. \A s \in Ranges : k \notin NewKeys(s)
    BY <1>1, NewKeysPassed DEF Values, RangeInv
  <2>2. QED
    BY <1>1, <2>1 DEF NewKeys
<1>3. \A s \in Ranges : k \notin KeysOf(buf[s])
  BY <1>1 DEF Values, RangeInv, BufOf
<1>4. \A j \in Key : j # k => oldKV'[j] = oldKV[j]
  BY <1>1 DEF TypeOK, Content
<1>5. ASSUME NEW s \in Ranges PROVE Moved(s)' \subseteq Moved(s)
  <2>1. ASSUME NEW j \in Moved(s)' PROVE j \in Moved(s)
    <3>1. j \in KeysOf(buf[s]) \cup NewKeys(s) /\ oldKV'[j] # None
      BY <1>1, <1>2, <2>1 DEF Moved, KeysOf
    <3>2. j \in Key
      BY <2>1, SetsOfKeys
    <3>3. QED
      BY <1>2, <1>3, <1>4, <3>1, <3>2 DEF Moved
  <2>2. QED
    BY <2>1
<1>6. Counted' \subseteq Counted
  <2>1. ASSUME NEW j \in Counted' PROVE j \in Counted
    BY <1>1, <1>2, <1>4, <2>1, RangeOfKey DEF Counted
  <2>2. QED
    BY <2>1
<1>7. QED
  BY <1>1, <1>5, <1>6, MovedStays, CountedStays DEF Sizes

LEMMA StepSizes ==
  ASSUME Sizes, IInv, [Next]_vars
  PROVE  Sizes'
<1> USE DEF oldVars, newVars, markVars, expVars, writerVars
<1>1. TypeOK /\ ControlInv /\ Frontier /\ WriterInv /\ Values
  BY DEF IInv, Expansion_Inv
<1>2. ASSUME NEW r \in Ranges, Expander(r) PROVE Sizes'
  <2>1. RangeInv(r)
    BY <1>1 DEF Values
  <2>2. CASE LockEntry(r) \/ Invalidate(r)
    BY <1>1, <2>2, SizesStay DEF LockEntry, Invalidate, TypeOK
  <2>3. CASE ExpandPut(r)
    BY <1>1, <2>3, BufferSizes DEF ExpandPut
  <2>4. CASE ExpandPutPublish(r)
    <3>1. todo[r] # {}
      BY <1>1, <2>4 DEF ExpandPutPublish, ControlInv
    <3>2. QED
      BY <1>1, <2>4, <3>1, BufferSizes DEF ExpandPutPublish, TypeOK
  <2>5. CASE ExpandPutFlush(r) \/ ExpandFinish(r)
    BY <1>1, <2>1, <2>5, FlushSizes
  <2>6. CASE ExpandFinishPublish(r)
    BY <1>1, <2>6, FinishSizes
  <2>7. QED
    BY <1>2, <2>2, <2>3, <2>4, <2>5, <2>6 DEF Expander
<1>3. CASE Install
  BY <1>1, <1>3, SizesStay DEF Install
<1>4. ASSUME NEW w \in Writers, Call(w) \/ Put(w) PROVE Sizes'
  <2>1. CASE Call(w) \/ CheckExpanded(w) \/ LoadEnd(w) \/ PutOldFails(w)
    BY <1>1, <2>1, SizesStay DEF Call, CheckExpanded, LoadEnd, PutOldFails
  <2>2. CASE PutRange(w)
    <3>1. PICK r, i \in Nat : PutsAt(w, wEnd[w], r, i)
      BY <1>1, <2>2, PutRangeAt
    <3>2. newSize' = newSize + 1
      BY <2>2 DEF PutRange, PutNew
    <3>3. QED
      BY <1>1, <3>1, <3>2, PutsAtSizes
  <2>3. CASE PutInstalled(w)
    <3>1. installed /\ AllDone
      BY <1>1, <2>3 DEF PutInstalled, Values
    <3>2. PICK r, i \in Nat : PutsAt(w, expandedEntries[r], r, i)
      BY <1>1, <2>3, <3>1, PutInstalledAt
    <3>3. newSize' = newSize + 1
      BY <2>3 DEF PutInstalled, PutNew
    <3>4. QED
      BY <1>1, <3>2, <3>3, PutsAtSizes
  <2>4. CASE PutOld(w)
    BY <1>1, <2>4, PutOldSizes
  <2>5. QED
    BY <1>4, <2>1, <2>2, <2>3, <2>4 DEF Put
<1>5. CASE UNCHANGED vars
  BY <1>1, <1>5, SizesStay DEF vars
<1>6. QED
  BY <1>2, <1>3, <1>4, <1>5 DEF Next, Terminated

-----------------------------------------------------------------------------
(* Once every expander is done, a key that a search finds is counted. *)
LEMMA FoundCounted ==
  ASSUME IInv, Sizes, installed, NEW k \in Key, Lookup(k) # None
  PROVE  k \in Counted
<1>1. PICK r \in Ranges : r = RangeOf(k) /\ InRange(k, r)
  BY RangeOfKey
<1>2. TypeOK /\ ControlInv /\ Frontier /\ RangeInv(r) /\ expPc[r] = "done"
  BY DEF IInv, Expansion_Inv, Values, AllDone
<1>3. ASSUME k \notin NewKeys(r) PROVE FALSE
  <2>1. oldKV[k] # None
    BY <1>1, <1>3, LookupOld
  <2>2. k \in Passed(r) /\ k \notin todo[r] /\ k \notin KeysOf(buf[r])
    BY <1>1, <1>2, ExpandedKeyPassed
  <2>3. QED
    BY <1>2, <1>3, <2>1, <2>2 DEF RangeInv, OldOf
<1>4. QED
  BY <1>1, <1>2, <1>3 DEF Counted

(***************************************************************************)
(* When the new level is installed, its size_ is at least the number of    *)
(* keys that a search finds in it: neither an expander nor a writer has    *)
(* left a key uncounted (blevel.cc:190-237, 475, blevel.h:531).            *)
(***************************************************************************)
THEOREM SizeCoversAlways == Spec => []SizeCoversKeys
<1>1. Spec => [](IInv /\ Sizes)
  <2>1. IInv /\ Sizes /\ [Next]_vars => Sizes'
    BY StepSizes
  <2>2. QED
    BY <2>1, InitSizes, ValuesInvariance, PTL DEF Spec
<1>2. IInv /\ Sizes => SizeCoversKeys
  <2> SUFFICES ASSUME IInv, Sizes, installed
               PROVE  newSize >= Cardinality({k \in Key : Lookup(k) # None})
    BY DEF SizeCoversKeys
  <2> DEFINE found == {k \in Key : Lookup(k) # None}
  <2>1. found \in SUBSET Key /\ found \subseteq Counted
    BY FoundCounted
  <2> HIDE DEF found
  <2>2. /\ Cardinality(found) <= Cardinality(Counted)
        /\ Cardinality(found) \in Nat /\ Cardinality(Counted) \in Nat
    BY <2>1, SetsOfKeys, KeysWithin
  <2>3. Cardinality(Counted) <= newSize /\ newSize \in Nat
    BY DEF Sizes, IInv, Expansion_Inv, TypeOK
  <2>4. newSize >= Cardinality(found)
    BY <2>2, <2>3
  <2>5. QED
    BY <2>4 DEF found
<1>3. QED
  BY <1>1, <1>2, PTL
=============================================================================
