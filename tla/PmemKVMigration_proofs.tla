------------------------ MODULE PmemKVMigration_proofs ------------------------
(***************************************************************************)
(* Theorems about PmemKVMigration for every finite set of clients and      *)
(* every choice of keys, values, threshold and calls.                      *)
(***************************************************************************)
EXTENDS PmemKVMigration, TLAPS, FiniteSetTheorems

(* The clients that are at one of the given places. *)
Inside(places) == {c \in Clients : pc[c] \in places}

Writing == {"valid", "store"}
Reading == {"sizeValid", "find"}

(* No client is inside PmemKV without being counted; after an early return *)
(* there are more counts than clients.                                     *)
Counted ==
  /\ writeRef >= Cardinality(Inside(Writing))
  /\ readRef >= Cardinality(Inside(Reading))

(* Where the migrator is, and what status_ says then. *)
Handshake ==
  /\ \A c, d \in Clients : Migrating(c) /\ Migrating(d) => c = d
  /\ \A c \in Clients :
       /\ Migrating(c) => ~ freed
       /\ pc[c] \in {"invalidate", "waitWriters", "scan", "install", "using"}
            => status = "PMEMKV_TO_COMBO_TREE"
       /\ pc[c] \in {"invalidateRead", "waitReaders", "delete"}
            => status = "USING_COMBO_TREE"
       /\ pc[c] = "waitWriters" => ~ writeValid \/ buffered
  /\ freed => status = "USING_COMBO_TREE"

(* What the migrator relies on once it has seen write_ref_ at 0. *)
Quiet ==
  ~ overtaken =>
    /\ freed \/ (\E m \in Clients : PastWriters(m))
         => ~ writeValid /\ \A c \in Clients : pc[c] # "store"
    /\ \A c \in Clients : /\ pc[c] = "install" => exist = kv
                          /\ pc[c] = "using" => tree = kv

IInv == TypeOK /\ Counted /\ Handshake /\ Quiet

-----------------------------------------------------------------------------
(* Type correctness. *)

LEMMA TypeInit == Init => TypeOK
<1> SUFFICES ASSUME Init PROVE TypeOK
  OBVIOUS
<1>1. Store \in Content
  BY DEF Store, Content
<1>2. 0 \in 0 .. MaxCalls
  BY MigrationAssumption
<1>3. QED
  BY <1>1, <1>2 DEF Init, TypeOK

LEMMA ReturnTyped ==
  ASSUME NEW c \in Clients, TypeOK, Return(c)
  PROVE  /\ pc' \in [Clients -> {"idle", "route", "writeRef", "valid", "store", "size",
                         "sizeRef", "sizeValid", "readRef", "find", "change",
                         "invalidate", "waitWriters", "scan", "install", "using",
                         "invalidateRead", "waitReaders", "delete", "fault"}]
         /\ request' \in [Clients -> Requests \cup {None}]
BY DEF Return, Goto, TypeOK

(* The decrements of the counts are what TypeOK needs Counted for. *)
LEMMA SomeoneCounted ==
  ASSUME TypeOK, Counted, NEW c \in Clients
  PROVE  /\ pc[c] \in Writing => writeRef - 1 \in Nat
         /\ pc[c] \in Reading => readRef - 1 \in Nat
<1>1. ASSUME NEW places, c \in Inside(places)
      PROVE  Cardinality(Inside(places)) \in Nat \ {0}
  <2>1. IsFiniteSet(Inside(places))
    BY MigrationAssumption, FS_Subset DEF Inside
  <2>2. QED
    BY <1>1, <2>1, FS_EmptySet, FS_CardinalityType
<1>2. ASSUME pc[c] \in Writing PROVE writeRef - 1 \in Nat
  <2>1. c \in Inside(Writing)
    BY <1>2 DEF Inside
  <2>2. QED
    BY <1>1, <2>1 DEF Counted, TypeOK
<1>3. ASSUME pc[c] \in Reading PROVE readRef - 1 \in Nat
  <2>1. c \in Inside(Reading)
    BY <1>3 DEF Inside
  <2>2. QED
    BY <1>1, <2>1 DEF Counted, TypeOK
<1>4. QED
  BY <1>2, <1>3

LEMMA StepType ==
  ASSUME TypeOK, Counted, [Next]_vars
  PROVE  TypeOK'
<1> USE DEF TypeOK, At, Goto, flagVars, refVars, dataVars
<1>1. ASSUME NEW c \in Clients, Call(c) PROVE TypeOK'
  <2>1. calls'[c] \in 0 .. MaxCalls
    BY <1>1, MigrationAssumption DEF Call
  <2>2. calls' \in [Clients -> 0 .. MaxCalls]
    BY <1>1, <2>1 DEF Call
  <2>3. QED
    BY <1>1, <2>2 DEF Call
<1>2. ASSUME NEW c \in Clients, RoutePmemKV(c) PROVE TypeOK'
  BY <1>2 DEF RoutePmemKV
<1>3. ASSUME NEW c \in Clients, CallTree(c) PROVE TypeOK'
  <2>1. tree' \in Content
    BY <1>3 DEF CallTree, Content, Is, Requests
  <2>2. Return(c)
    BY <1>3 DEF CallTree
  <2>3. QED
    BY <1>3, <2>1, <2>2, ReturnTyped DEF CallTree
<1>4. ASSUME NEW c \in Clients, Fault(c) PROVE TypeOK'
  BY <1>4 DEF Fault
<1>5. ASSUME NEW c \in Clients, WriteRef(c) PROVE TypeOK'
  BY <1>5 DEF WriteRef
<1>6. ASSUME NEW c \in Clients, CheckWriteValid(c) PROVE TypeOK'
  BY <1>6 DEF CheckWriteValid
<1>7. ASSUME NEW c \in Clients, WriteData(c) PROVE TypeOK'
  <2>1. kv' \in Content
    BY <1>7 DEF WriteData, Content, Is, Requests
  <2>2. writeRef' \in Nat
    BY <1>7, SomeoneCounted DEF WriteData, Writing
  <2>3. QED
    BY <1>7, <2>1, <2>2 DEF WriteData
<1>8. ASSUME NEW c \in Clients, AfterWrite(c) PROVE TypeOK'
  <2>1. CASE Return(c)
    BY <1>8, <2>1, ReturnTyped DEF AfterWrite
  <2>2. CASE Goto(c, "sizeRef") /\ UNCHANGED request
    BY <1>8, <2>2 DEF AfterWrite
  <2>3. QED
    BY <1>8, <2>1, <2>2 DEF AfterWrite
<1>9. ASSUME NEW c \in Clients, SizeRef(c) PROVE TypeOK'
  BY <1>9 DEF SizeRef
<1>10. ASSUME NEW c \in Clients, Size(c) PROVE TypeOK'
  <2>1. readRef' \in Nat
    BY <1>10, SomeoneCounted DEF Size, Reading
  <2>2. CASE Return(c)
    BY <1>10, <2>1, <2>2, ReturnTyped DEF Size
  <2>3. CASE Goto(c, "change") /\ UNCHANGED request
    BY <1>10, <2>1, <2>3 DEF Size
  <2>4. QED
    BY <1>10, <2>2, <2>3 DEF Size
<1>11. ASSUME NEW c \in Clients, ReadRef(c) PROVE TypeOK'
  BY <1>11 DEF ReadRef
<1>12. ASSUME NEW c \in Clients, ReadData(c) PROVE TypeOK'
  <2>1. readRef' \in Nat
    BY <1>12, SomeoneCounted DEF ReadData, Reading
  <2>2. QED
    BY <1>12, <2>1, ReturnTyped DEF ReadData
<1>13. ASSUME NEW c \in Clients, Change(c) PROVE TypeOK'
  <2>1. CASE Return(c) /\ UNCHANGED status
    BY <1>13, <2>1, ReturnTyped DEF Change
  <2>2. CASE status' = "PMEMKV_TO_COMBO_TREE" /\ Goto(c, "invalidate") /\ UNCHANGED request
    BY <1>13, <2>2 DEF Change
  <2>3. QED
    BY <1>13, <2>1, <2>2 DEF Change
<1>14. ASSUME NEW c \in Clients, SetWriteUnvalid(c) PROVE TypeOK'
  BY <1>14 DEF SetWriteUnvalid
<1>15. ASSUME NEW c \in Clients, NoWriteRef(c) PROVE TypeOK'
  BY <1>15 DEF NoWriteRef
<1>16. ASSUME NEW c \in Clients, Scan(c) PROVE TypeOK'
  BY <1>16 DEF Scan
<1>17. ASSUME NEW c \in Clients, InstallTree(c) PROVE TypeOK'
  BY <1>17 DEF InstallTree
<1>18. ASSUME NEW c \in Clients, UseTree(c) PROVE TypeOK'
  BY <1>18 DEF UseTree
<1>19. ASSUME NEW c \in Clients, SetReadUnvalid(c) PROVE TypeOK'
  BY <1>19 DEF SetReadUnvalid
<1>20. ASSUME NEW c \in Clients, NoReadRef(c) PROVE TypeOK'
  BY <1>20 DEF NoReadRef
<1>21. ASSUME NEW c \in Clients, DeletePmemKV(c) PROVE TypeOK'
  BY <1>21, ReturnTyped DEF DeletePmemKV
<1>22. ASSUME StoreArrives PROVE TypeOK'
  BY <1>22 DEF StoreArrives
<1>23. ASSUME UNCHANGED vars PROVE TypeOK'
  BY <1>23 DEF vars
<1>24. QED
  BY <1>1, <1>2, <1>3, <1>4, <1>5, <1>6, <1>7, <1>8, <1>9, <1>10, <1>11, <1>12, <1>13,
     <1>14, <1>15, <1>16, <1>17, <1>18, <1>19, <1>20, <1>21, <1>22, <1>23
     DEF Next, Step, Terminated

-----------------------------------------------------------------------------
(* The counts. *)

LEMMA InsideFinite ==
  ASSUME NEW places
  PROVE  /\ IsFiniteSet(Inside(places))
         /\ IsFiniteSet(Inside(places)')
         /\ Cardinality(Inside(places)) \in Nat
         /\ Cardinality(Inside(places)') \in Nat
BY MigrationAssumption, FS_Subset, FS_CardinalityType DEF Inside

(* A client that comes in is one more, one that leaves is one less, and    *)
(* who stays on one side changes nothing.                                  *)
LEMMA MoveCounted ==
  ASSUME NEW places, NEW c \in Clients, TypeOK,
         \A d \in Clients \ {c} : pc'[d] = pc[d]
  PROVE  LET n == Cardinality(Inside(places))
             m == Cardinality(Inside(places)')
         IN  /\ m <= n + 1
             /\ pc'[c] \notin places => m <= n
             /\ pc[c] \in places => m <= n
             /\ pc[c] \in places /\ pc'[c] \notin places => m = n - 1
<1> DEFINE S == Inside(places)
           T == Inside(places)'
<1>1. /\ IsFiniteSet(S) /\ IsFiniteSet(T)
      /\ Cardinality(S) \in Nat /\ Cardinality(T) \in Nat
  BY InsideFinite
<1>2. T \subseteq S \cup {c}
  BY DEF Inside
<1>3. /\ IsFiniteSet(S \cup {c})
      /\ Cardinality(S \cup {c}) = IF c \in S THEN Cardinality(S) ELSE Cardinality(S) + 1
  BY <1>1, FS_AddElement
<1>4. Cardinality(T) <= Cardinality(S \cup {c})
  BY <1>2, <1>3, FS_Subset
<1>5. Cardinality(T) <= Cardinality(S) + 1
  BY <1>1, <1>3, <1>4
<1>6. ASSUME pc'[c] \notin places PROVE Cardinality(T) <= Cardinality(S)
  <2>1. T \subseteq S
    BY <1>6 DEF Inside
  <2>2. QED
    BY <1>1, <2>1, FS_Subset
<1>7. ASSUME pc[c] \in places PROVE Cardinality(T) <= Cardinality(S)
  <2>1. c \in S
    BY <1>7 DEF Inside
  <2>2. QED
    BY <1>1, <1>3, <1>4, <2>1
<1>8. ASSUME pc[c] \in places, pc'[c] \notin places
      PROVE  Cardinality(T) = Cardinality(S) - 1
  <2>1. c \in S /\ T = S \ {c}
    BY <1>8 DEF Inside
  <2>2. QED
    BY <1>1, <2>1, FS_RemoveElement
<1>9. QED
  BY <1>5, <1>6, <1>7, <1>8

LEMMA StepCounted ==
  ASSUME TypeOK, TypeOK', Counted, [Next]_vars
  PROVE  Counted'
<1> USE DEF At, Goto, flagVars, refVars, dataVars
<1> DEFINE w == Cardinality(Inside(Writing))
           r == Cardinality(Inside(Reading))
<1>0. /\ w \in Nat /\ w' \in Nat /\ r \in Nat /\ r' \in Nat
      /\ writeRef \in Nat /\ writeRef' \in Nat /\ readRef \in Nat /\ readRef' \in Nat
      /\ writeRef >= w /\ readRef >= r
  BY InsideFinite DEF TypeOK, Counted
<1> HIDE DEF w, r
(* The shape of every step: one client moves, and a count that falls falls *)
(* with a client that leaves.                                              *)
<1>1. ASSUME NEW c \in Clients,
             \A d \in Clients \ {c} : pc'[d] = pc[d],
             \/ writeRef' = writeRef /\ (pc[c] \in Writing \/ pc'[c] \notin Writing)
             \/ writeRef' = writeRef + 1
             \/ writeRef' = writeRef - 1 /\ pc[c] \in Writing /\ pc'[c] \notin Writing,
             \/ readRef' = readRef /\ (pc[c] \in Reading \/ pc'[c] \notin Reading)
             \/ readRef' = readRef + 1
             \/ readRef' = readRef - 1 /\ pc[c] \in Reading /\ pc'[c] \notin Reading
      PROVE  Counted'
  <2>1. /\ w' <= w + 1
        /\ pc'[c] \notin Writing => w' <= w
        /\ pc[c] \in Writing => w' <= w
        /\ pc[c] \in Writing /\ pc'[c] \notin Writing => w' = w - 1
    BY <1>1, MoveCounted DEF w
  <2>2. /\ r' <= r + 1
        /\ pc'[c] \notin Reading => r' <= r
        /\ pc[c] \in Reading => r' <= r
        /\ pc[c] \in Reading /\ pc'[c] \notin Reading => r' = r - 1
    BY <1>1, MoveCounted DEF r
  <2>3. writeRef' >= w'
    BY <1>0, <1>1, <2>1
  <2>4. readRef' >= r'
    BY <1>0, <1>1, <2>2
  <2>5. QED
    BY <2>3, <2>4 DEF Counted, w, r
<1>2. ASSUME NEW c \in Clients, Call(c) \/ Step(c)
      PROVE  /\ \A d \in Clients \ {c} : pc'[d] = pc[d]
             /\ \/ writeRef' = writeRef /\ (pc[c] \in Writing \/ pc'[c] \notin Writing)
                \/ writeRef' = writeRef + 1
                \/ writeRef' = writeRef - 1 /\ pc[c] \in Writing /\ pc'[c] \notin Writing
             /\ \/ readRef' = readRef /\ (pc[c] \in Reading \/ pc'[c] \notin Reading)
                \/ readRef' = readRef + 1
                \/ readRef' = readRef - 1 /\ pc[c] \in Reading /\ pc'[c] \notin Reading
  <2> USE DEF TypeOK, Writing, Reading, Return
  <2>1. CASE Call(c) \/ RoutePmemKV(c) \/ CallTree(c) \/ Fault(c)
    BY <2>1 DEF Call, RoutePmemKV, CallTree, Fault
  <2>2. CASE WriteRef(c) \/ CheckWriteValid(c) \/ WriteData(c) \/ AfterWrite(c)
    BY <2>2 DEF WriteRef, CheckWriteValid, WriteData, AfterWrite
  <2>3. CASE SizeRef(c) \/ Size(c) \/ ReadRef(c) \/ ReadData(c)
    BY <2>3 DEF SizeRef, Size, ReadRef, ReadData
  <2>4. CASE Change(c) \/ SetWriteUnvalid(c) \/ NoWriteRef(c) \/ Scan(c)
    BY <2>4 DEF Change, SetWriteUnvalid, NoWriteRef, Scan
  <2>5. CASE InstallTree(c) \/ UseTree(c) \/ SetReadUnvalid(c) \/ NoReadRef(c) \/ DeletePmemKV(c)
    BY <2>5 DEF InstallTree, UseTree, SetReadUnvalid, NoReadRef, DeletePmemKV
  <2>6. QED
    BY <1>2, <2>1, <2>2, <2>3, <2>4, <2>5 DEF Step
<1>3. ASSUME UNCHANGED <<pc, writeRef, readRef>> PROVE Counted'
  BY <1>3 DEF Counted, Inside
<1>4. QED
  BY <1>1, <1>2, <1>3 DEF Next, StoreArrives, Terminated, vars

-----------------------------------------------------------------------------
(* The flags and the one migrator. *)

LEMMA StepHandshake ==
  ASSUME TypeOK, Handshake, [Next]_vars
  PROVE  Handshake'
<1> USE DEF At, Goto, flagVars, refVars, dataVars, Handshake, Migrating, TypeOK, Return
<1>1. ASSUME NEW c \in Clients, Call(c) \/ RoutePmemKV(c) \/ CallTree(c) \/ Fault(c)
      PROVE  Handshake'
  BY <1>1 DEF Call, RoutePmemKV, CallTree, Fault
<1>2. ASSUME NEW c \in Clients, WriteRef(c) \/ CheckWriteValid(c) \/ WriteData(c)
      PROVE  Handshake'
  BY <1>2 DEF WriteRef, CheckWriteValid, WriteData
<1>3. ASSUME NEW c \in Clients, AfterWrite(c) \/ SizeRef(c) \/ ReadRef(c) \/ ReadData(c)
      PROVE  Handshake'
  BY <1>3 DEF AfterWrite, SizeRef, ReadRef, ReadData
<1>4. ASSUME NEW c \in Clients, Size(c) PROVE Handshake'
  BY <1>4 DEF Size
<1>5. ASSUME NEW c \in Clients, Change(c) PROVE Handshake'
  <2>1. CASE status = "USING_PMEMKV"
    <3>1. ~ freed /\ \A d \in Clients : ~ Migrating(d)
      BY <2>1
    <3>2. QED
      BY <1>5, <2>1, <3>1 DEF Change
  <2>2. CASE status # "USING_PMEMKV"
    BY <1>5, <2>2 DEF Change
  <2>3. QED
    BY <2>1, <2>2
<1>6. ASSUME NEW c \in Clients, SetWriteUnvalid(c) PROVE Handshake'
  BY <1>6 DEF SetWriteUnvalid
<1>7. ASSUME NEW c \in Clients, NoWriteRef(c) \/ Scan(c) \/ InstallTree(c) PROVE Handshake'
  BY <1>7 DEF NoWriteRef, Scan, InstallTree
<1>8. ASSUME NEW c \in Clients, UseTree(c) \/ SetReadUnvalid(c) \/ NoReadRef(c) PROVE Handshake'
  BY <1>8 DEF UseTree, SetReadUnvalid, NoReadRef
<1>9. ASSUME NEW c \in Clients, DeletePmemKV(c) PROVE Handshake'
  BY <1>9 DEF DeletePmemKV
<1>10. ASSUME StoreArrives PROVE Handshake'
  BY <1>10 DEF StoreArrives
<1>11. ASSUME UNCHANGED vars PROVE Handshake'
  BY <1>11 DEF vars
<1>12. QED
  BY <1>1, <1>2, <1>3, <1>4, <1>5, <1>6, <1>7, <1>8, <1>9, <1>10, <1>11
     DEF Next, Step, Terminated

-----------------------------------------------------------------------------
(* What the migrator relies on. *)

(* A count of 0 means that nobody is on the way to kv_data. *)
LEMMA ZeroIsQuiet ==
  ASSUME TypeOK, Counted, writeRef = 0
  PROVE  \A c \in Clients : pc[c] # "store"
<1>1. Cardinality(Inside(Writing)) = 0
  BY InsideFinite DEF Counted
<1>2. Inside(Writing) = {}
  BY <1>1, InsideFinite, FS_EmptySet
<1>3. QED
  BY <1>2 DEF Inside, Writing

LEMMA StepQuiet ==
  ASSUME IInv, Handshake', [Next]_vars
  PROVE  Quiet'
<1> USE DEF At, Goto, flagVars, refVars, dataVars, IInv, Quiet, PastWriters, Migrating,
            TypeOK, Return
<1>1. ASSUME NEW c \in Clients, Call(c) \/ RoutePmemKV(c) \/ Fault(c) PROVE Quiet'
  BY <1>1 DEF Call, RoutePmemKV, Fault
<1>2. ASSUME NEW c \in Clients, CallTree(c) PROVE Quiet'
  <2>1. \A d \in Clients : pc[d] # "using"
    BY <1>2 DEF CallTree, Handshake
  <2>2. QED
    BY <1>2, <2>1 DEF CallTree
<1>3. ASSUME NEW c \in Clients, WriteRef(c) \/ CheckWriteValid(c) PROVE Quiet'
  BY <1>3 DEF WriteRef, CheckWriteValid
<1>4. ASSUME NEW c \in Clients, WriteData(c) PROVE Quiet'
  BY <1>4 DEF WriteData
<1>5. ASSUME NEW c \in Clients, AfterWrite(c) \/ SizeRef(c) \/ ReadRef(c) \/ ReadData(c)
      PROVE  Quiet'
  BY <1>5 DEF AfterWrite, SizeRef, ReadRef, ReadData
<1>6. ASSUME NEW c \in Clients, Size(c) PROVE Quiet'
  BY <1>6 DEF Size
<1>7. ASSUME NEW c \in Clients, Change(c) \/ SetWriteUnvalid(c) PROVE Quiet'
  BY <1>7 DEF Change, SetWriteUnvalid
<1>8. ASSUME NEW c \in Clients, NoWriteRef(c) PROVE Quiet'
  <2>1. \A d \in Clients \ {c} : ~ Migrating(d)
    BY <1>8 DEF NoWriteRef, Handshake
  <2>2. \A d \in Clients : pc'[d] \notin {"install", "using", "store"}
    BY <1>8, <2>1, ZeroIsQuiet DEF NoWriteRef
  <2>3. ~ overtaken' => ~ writeValid'
    BY <1>8 DEF NoWriteRef, Handshake
  <2>4. QED
    BY <2>2, <2>3
<1>9. ASSUME NEW c \in Clients, Scan(c) \/ InstallTree(c) PROVE Quiet'
  <2>1. \A d \in Clients \ {c} : ~ Migrating(d)
    BY <1>9 DEF Scan, InstallTree, Handshake
  <2>2. QED
    BY <1>9, <2>1 DEF Scan, InstallTree
<1>10. ASSUME NEW c \in Clients, UseTree(c) \/ SetReadUnvalid(c) \/ NoReadRef(c) PROVE Quiet'
  BY <1>10 DEF UseTree, SetReadUnvalid, NoReadRef
<1>11. ASSUME NEW c \in Clients, DeletePmemKV(c) PROVE Quiet'
  BY <1>11 DEF DeletePmemKV
<1>12. ASSUME StoreArrives PROVE Quiet'
  BY <1>12 DEF StoreArrives
<1>13. ASSUME UNCHANGED vars PROVE Quiet'
  BY <1>13 DEF vars
<1>14. QED
  BY <1>1, <1>2, <1>3, <1>4, <1>5, <1>6, <1>7, <1>8, <1>9, <1>10, <1>11, <1>12, <1>13
     DEF Next, Step, Terminated

-----------------------------------------------------------------------------
(* The invariant and what follows from it. *)

LEMMA InitIInv == Init => IInv
<1> SUFFICES ASSUME Init PROVE IInv
  OBVIOUS
<1>1. TypeOK
  BY TypeInit
<1>2. Inside(Writing) = {} /\ Inside(Reading) = {}
  BY DEF Init, Inside, Writing, Reading
<1>3. Counted
  BY <1>2, FS_EmptySet DEF Counted, Init
<1>4. Handshake /\ Quiet
  BY DEF Init, Handshake, Quiet, Migrating, PastWriters
<1>5. QED
  BY <1>1, <1>3, <1>4 DEF IInv

LEMMA StepIInv == IInv /\ [Next]_vars => IInv'
<1> SUFFICES ASSUME IInv, [Next]_vars PROVE IInv'
  OBVIOUS
<1>1. TypeOK'
  BY StepType DEF IInv
<1>2. Counted'
  BY <1>1, StepCounted DEF IInv
<1>3. Handshake'
  BY StepHandshake DEF IInv
<1>4. Quiet'
  BY <1>3, StepQuiet
<1>5. QED
  BY <1>1, <1>2, <1>3, <1>4 DEF IInv

THEOREM Invariance == Spec => []IInv
BY InitIInv, StepIInv, PTL DEF Spec

(* TypeOK holds throughout: among the rest, no early return and no order   *)
(* of calls brings a reference count of pmemkv_ below 0 (pmemkv.h:92-129). *)
THEOREM TypeCorrect == Spec => []TypeOK
<1>1. IInv => TypeOK
  BY DEF IInv
<1>2. QED
  BY <1>1, Invariance, PTL

(* However many Puts find the store full, one migrates it, once.           *)
THEOREM OneMigratorAlways == Spec => []OneMigrator
<1>1. IInv => OneMigrator
  BY DEF IInv, Handshake, OneMigrator
<1>2. QED
  BY <1>1, Invariance, PTL

(* While the migrator relies on kv_data standing still no client is about  *)
(* to write to it, if its own store was visible in time.                   *)
THEOREM NoWriterInScanAlways == Spec => []NoWriterInScan
<1>1. IInv => NoWriterInScan
  BY DEF IInv, Quiet, NoWriterInScan
<1>2. QED
  BY <1>1, Invariance, PTL

LEMMA StepKeeps ==
  ASSUME IInv, [Next]_vars
  PROVE  [overtaken \/ OnlyClientsWrite]_vars
<1> SUFFICES ASSUME ~ overtaken, Next, NEW k \in Key, Current(k)' # Current(k)
             PROVE  \E c \in Clients : /\ pc[c] \in {"store", "route"}
                                      /\ pc'[c] # pc[c]
                                      /\ request[c].key = k
  BY DEF OnlyClientsWrite
<1> USE DEF At, Goto, flagVars, refVars, dataVars, IInv, TypeOK, Return, Current
<1>1. ASSUME NEW c \in Clients, CallTree(c) PROVE request[c].key = k /\ pc[c] = "route" /\ pc'[c] # pc[c]
  BY <1>1 DEF CallTree, Content
<1>2. ASSUME NEW c \in Clients, WriteData(c) PROVE request[c].key = k /\ pc[c] = "store" /\ pc'[c] # pc[c]
  BY <1>2 DEF WriteData, Content
<1>3. ASSUME NEW c \in Clients, Change(c) PROVE FALSE
  BY <1>3 DEF Change
<1>4. ASSUME NEW c \in Clients, InstallTree(c) PROVE FALSE
  BY <1>4 DEF InstallTree, Handshake
<1>5. ASSUME NEW c \in Clients, UseTree(c) PROVE FALSE
  BY <1>5 DEF UseTree, Handshake, Quiet
<1>6. ASSUME NEW c \in Clients,
             \/ Call(c) \/ RoutePmemKV(c) \/ Fault(c) \/ WriteRef(c) \/ CheckWriteValid(c)
             \/ AfterWrite(c) \/ SizeRef(c) \/ ReadRef(c) \/ ReadData(c) \/ SetWriteUnvalid(c)
             \/ NoWriteRef(c) \/ Scan(c) \/ SetReadUnvalid(c) \/ NoReadRef(c) \/ DeletePmemKV(c)
      PROVE  FALSE
  BY <1>6 DEF Call, RoutePmemKV, Fault, WriteRef, CheckWriteValid, AfterWrite, SizeRef, ReadRef,
     ReadData, SetWriteUnvalid, NoWriteRef, Scan, SetReadUnvalid, NoReadRef, DeletePmemKV
<1>7. ASSUME NEW c \in Clients, Size(c) PROVE FALSE
  BY <1>7 DEF Size
<1>8. ASSUME StoreArrives \/ UNCHANGED vars PROVE FALSE
  BY <1>8 DEF StoreArrives, vars
<1>9. QED
  BY <1>1, <1>2, <1>3, <1>4, <1>5, <1>6, <1>7, <1>8 DEF Next, Step, Terminated

(* The exchange of PmemKV for the B-level changes what no key is bound to, *)
(* if the store was visible in time.                                       *)
THEOREM MigrationKeepsAlways == Spec => MigrationKeeps
<1>1. IInv /\ [Next]_vars => [overtaken \/ OnlyClientsWrite]_vars
  BY StepKeeps
<1>2. QED
  BY <1>1, Invariance, PTL DEF Spec, MigrationKeeps

=============================================================================
