---------------------------- MODULE PmemKVMigration ----------------------------
(***************************************************************************)
(* The first life of a ComboTree: it starts on PmemKV (src/src/pmemkv.h),  *)
(* and the client whose Put reaches PMEMKV_THRESHOLD moves everything to   *)
(* the B-level in ChangeToComboTree_ (src/src/combotree.cc:131-177) while  *)
(* the other clients go on.  What keeps them apart is a handshake of two   *)
(* flags and two reference counts: a writer counts itself in and then      *)
(* looks at write_valid_; the migrator clears write_valid_ and then looks  *)
(* at the count; and the same for readers.                                 *)
(*                                                                         *)
(* The B-level is a map here.  Reading and writing kv_data is one step,    *)
(* taken from the state in which the code is about to do it, so that two   *)
(* clients in such states at once are inside the std::map together.        *)
(***************************************************************************)
EXTENDS Integers, FiniteSets

CONSTANTS
  Key, Value,
  None,          (* Stands for "no value" and "no request".                *)
  Clients,
  Operations,    (* Operations[c]: the operations client c calls; Update   *)
                 (* is a Put here (combotree.cc:368).                      *)
  Threshold,     (* PMEMKV_THRESHOLD.                                      *)
  DelayedStore,  (* Whether SetWriteUnvalid, a release store, may become   *)
                 (* visible after the migrator's next loads, as the C++    *)
                 (* memory model and the store buffers of x86 allow.       *)
  MaxCalls       (* Bound: calls per client.                               *)

Content == [Key -> Value \cup {None}]
Store   == [k \in Key |-> None]

ASSUME MigrationAssumption ==
  /\ None \notin Value
  /\ IsFiniteSet(Clients)
  /\ Operations \in [Clients -> SUBSET {"Put", "Get", "Delete"}]
  /\ Threshold \in Nat
  /\ DelayedStore \in BOOLEAN
  /\ MaxCalls \in Nat

VARIABLES
  status,      (* status_.                                                 *)
  kv,          (* kv_data.                                                 *)
  freed,       (* pmemkv_ is deleted.                                      *)
  writeRef,    (* write_ref_.                                              *)
  readRef,     (* read_ref_.                                               *)
  writeValid,  (* write_valid_, as other threads see it.                   *)
  readValid,   (* read_valid_.                                             *)
  buffered,    (* SetWriteUnvalid's store is on its way.                   *)
  overtaken,   (* History: the migrator read write_ref_ before its store   *)
               (* was visible.                                             *)
  exist,       (* exist_kv: what the migrator's Scan found.                *)
  tree,        (* The B-level behind learn_index_.                         *)
  pc,          (* Where each client is; the names from "invalidate" to     *)
               (* "delete" are the migrator's.                             *)
  request,     (* The call each client executes, or None.                  *)
  calls        (* Calls each client has made.                              *)

refVars   == <<writeRef, readRef>>
flagVars  == <<writeValid, readValid, buffered, overtaken>>
dataVars  == <<kv, exist, tree>>
vars == <<status, dataVars, freed, refVars, flagVars, pc, request, calls>>

Requests == [op : {"Put", "Get", "Delete"}, key : Key, value : Value]

Init ==
  /\ status = "USING_PMEMKV"
  /\ kv = Store /\ exist = Store /\ tree = Store
  /\ freed = FALSE
  /\ writeRef = 0 /\ readRef = 0
  /\ writeValid = TRUE /\ readValid = TRUE /\ buffered = FALSE /\ overtaken = FALSE
  /\ pc = [c \in Clients |-> "idle"]
  /\ request = [c \in Clients |-> None]
  /\ calls = [c \in Clients |-> 0]

-----------------------------------------------------------------------------
(* The calls. *)

At(c, from)  == pc[c] = from
Goto(c, to)  == pc' = [pc EXCEPT ![c] = to]
Is(c, op)    == request[c] # None /\ request[c].op = op

Return(c) ==
  /\ Goto(c, "idle")
  /\ request' = [request EXCEPT ![c] = None]

Call(c) ==
  /\ At(c, "idle")
  /\ calls[c] < MaxCalls
  /\ \E q \in Requests : /\ q.op \in Operations[c]
                         /\ request' = [request EXCEPT ![c] = q]
  /\ calls' = [calls EXCEPT ![c] = @ + 1]
  /\ Goto(c, "route")
  /\ UNCHANGED <<status, dataVars, freed, refVars, flagVars>>

(* In USING_PMEMKV every call, and in PMEMKV_TO_COMBO_TREE a Get, goes to  *)
(* pmemkv_; the other calls wait and look again.                           *)
RoutePmemKV(c) ==
  /\ At(c, "route")
  /\ \/ status = "USING_PMEMKV"
     \/ status = "PMEMKV_TO_COMBO_TREE" /\ Is(c, "Get")
  /\ Goto(c, IF Is(c, "Get") THEN "readRef" ELSE "writeRef")
  /\ UNCHANGED <<status, dataVars, freed, refVars, flagVars, request, calls>>

(* In USING_COMBO_TREE the B-level serves. *)
CallTree(c) ==
  LET k == request[c].key IN
  /\ At(c, "route")
  /\ status = "USING_COMBO_TREE"
  /\ \/ /\ Is(c, "Put")
        /\ tree' = [tree EXCEPT ![k] = request[c].value]
        /\ Return(c)
     \/ /\ Is(c, "Delete")
        /\ tree' = [tree EXCEPT ![k] = None]
        /\ Return(c)
     \/ /\ Is(c, "Get")
        /\ Return(c)
        /\ UNCHANGED tree
  /\ UNCHANGED <<status, kv, exist, freed, refVars, flagVars, calls>>

-----------------------------------------------------------------------------
(* PmemKV. *)

(* pmemkv_ is deleted under a client that was routed to it. *)
Fault(c) ==
  /\ pc[c] \in {"readRef", "writeRef", "valid", "store", "find", "sizeRef", "sizeValid"}
  /\ freed
  /\ Goto(c, "fault")
  /\ UNCHANGED <<status, dataVars, freed, refVars, flagVars, request, calls>>

WriteRef(c) ==
  /\ At(c, "writeRef")
  /\ ~ freed
  /\ writeRef' = writeRef + 1
  /\ Goto(c, "valid")
  /\ UNCHANGED <<status, dataVars, freed, readRef, flagVars, request, calls>>

(* !write_valid_: the early return leaves the writer counted in.  A Put's  *)
(* caller still asks for the size before it returns.                       *)
CheckWriteValid(c) ==
  /\ At(c, "valid")
  /\ ~ freed
  /\ Goto(c, IF writeValid THEN "store" ELSE "size")
  /\ UNCHANGED <<status, dataVars, freed, refVars, flagVars, request, calls>>

(* kv_data[key] = value or kv_data.erase(key), then WriteUnRef_. *)
WriteData(c) ==
  LET k == request[c].key IN
  /\ At(c, "store")
  /\ ~ freed
  /\ kv' = [kv EXCEPT ![k] = IF Is(c, "Put") THEN request[c].value ELSE None]
  /\ writeRef' = writeRef - 1
  /\ Goto(c, "size")
  /\ UNCHANGED <<status, exist, tree, freed, readRef, flagVars, request, calls>>

(* A Delete returns; a Put calls Size, which looks at status_ again. *)
AfterWrite(c) ==
  /\ At(c, "size")
  /\ \/ /\ Is(c, "Put")
        /\ status # "USING_COMBO_TREE"
        /\ Goto(c, "sizeRef")
        /\ UNCHANGED request
     \/ /\ Is(c, "Put") => status = "USING_COMBO_TREE"
        /\ Return(c)
  /\ UNCHANGED <<status, dataVars, freed, refVars, flagVars, calls>>

SizeRef(c) ==
  /\ At(c, "sizeRef")
  /\ ~ freed
  /\ readRef' = readRef + 1
  /\ Goto(c, "sizeValid")
  /\ UNCHANGED <<status, dataVars, freed, writeRef, flagVars, request, calls>>

Full == Cardinality({k \in Key : kv[k] # None}) >= Threshold

(***************************************************************************)
(* The rest of Size, then ChangeToComboTree_ if it answers Threshold or    *)
(* more.  !read_valid_ leaves the reader counted in and answers -1, which  *)
(* is the largest size_t.                                                  *)
(***************************************************************************)
Size(c) ==
  /\ At(c, "sizeValid")
  /\ ~ freed
  /\ readRef' = IF readValid THEN readRef - 1 ELSE readRef
  /\ IF readValid => Full
       THEN Goto(c, "change") /\ UNCHANGED request
       ELSE Return(c)
  /\ UNCHANGED <<status, dataVars, freed, writeRef, flagVars, calls>>

(* Mutant: the reader does not count itself in. *)
ReadRefForgotten(c) ==
  /\ At(c, "readRef")
  /\ ~ freed
  /\ Goto(c, "find")
  /\ UNCHANGED <<status, dataVars, freed, refVars, flagVars, request, calls>>

ReadRef(c) ==
  /\ At(c, "readRef")
  /\ ~ freed
  /\ readRef' = readRef + 1
  /\ Goto(c, "find")
  /\ UNCHANGED <<status, dataVars, freed, writeRef, flagVars, request, calls>>

(* kv_data.find and ReadUnRef_; Get answers true whether or not the key is *)
(* there.                                                                  *)
ReadData(c) ==
  /\ At(c, "find")
  /\ ~ freed
  /\ readRef' = readRef - 1
  /\ Return(c)
  /\ UNCHANGED <<status, dataVars, freed, writeRef, flagVars, calls>>

-----------------------------------------------------------------------------
(* ChangeToComboTree_. *)

(* Mutant: any client that finds the store full migrates it. *)
ChangeUnchecked(c) ==
  /\ At(c, "change")
  /\ status' = "PMEMKV_TO_COMBO_TREE"
  /\ Goto(c, "invalidate")
  /\ UNCHANGED <<dataVars, freed, refVars, flagVars, request, calls>>

Change(c) ==
  /\ At(c, "change")
  /\ IF status = "USING_PMEMKV"
       THEN /\ status' = "PMEMKV_TO_COMBO_TREE"
            /\ Goto(c, "invalidate")
            /\ UNCHANGED request
       ELSE Return(c) /\ UNCHANGED status
  /\ UNCHANGED <<dataVars, freed, refVars, flagVars, calls>>

SetWriteUnvalid(c) ==
  /\ At(c, "invalidate")
  /\ \/ writeValid' = FALSE /\ UNCHANGED buffered
     \/ DelayedStore /\ buffered' = TRUE /\ UNCHANGED writeValid
  /\ Goto(c, "waitWriters")
  /\ UNCHANGED <<status, dataVars, freed, refVars, readValid, overtaken, request, calls>>

(* The delayed store becomes visible. *)
StoreArrives ==
  /\ buffered
  /\ buffered' = FALSE
  /\ writeValid' = FALSE
  /\ UNCHANGED <<status, dataVars, freed, refVars, readValid, overtaken, pc, request, calls>>

(* Mutant: no wait for the writers. *)
NoWriteRefAtOnce(c) ==
  /\ At(c, "waitWriters")
  /\ Goto(c, "scan")
  /\ UNCHANGED <<status, dataVars, freed, refVars, flagVars, request, calls>>

(* while (!NoWriteRef()): the loop's last round. *)
NoWriteRef(c) ==
  /\ At(c, "waitWriters")
  /\ writeRef = 0
  /\ overtaken' = buffered
  /\ Goto(c, "scan")
  /\ UNCHANGED <<status, dataVars, freed, refVars, writeValid, readValid, buffered,
                 request, calls>>

Scan(c) ==
  /\ At(c, "scan")
  /\ exist' = kv
  /\ Goto(c, "install")
  /\ UNCHANGED <<status, kv, tree, freed, refVars, flagVars, request, calls>>

(* Mutant: one pair of exist_kv is left out. *)
InstallTreeShort(c) ==
  /\ At(c, "install")
  /\ \E k \in Key : tree' = [exist EXCEPT ![k] = None]
  /\ Goto(c, "using")
  /\ UNCHANGED <<status, kv, exist, freed, refVars, flagVars, request, calls>>

(* BLevel::Expansion(exist_kv), then learn_index_ under alevel_lock_. *)
InstallTree(c) ==
  /\ At(c, "install")
  /\ tree' = exist
  /\ Goto(c, "using")
  /\ UNCHANGED <<status, kv, exist, freed, refVars, flagVars, request, calls>>

UseTree(c) ==
  /\ At(c, "using")
  /\ status' = "USING_COMBO_TREE"
  /\ Goto(c, "invalidateRead")
  /\ UNCHANGED <<dataVars, freed, refVars, flagVars, request, calls>>

SetReadUnvalid(c) ==
  /\ At(c, "invalidateRead")
  /\ readValid' = FALSE
  /\ Goto(c, "waitReaders")
  /\ UNCHANGED <<status, dataVars, freed, refVars, writeValid, buffered, overtaken, request, calls>>

(* Mutant: the comparison leaves 0 out. *)
NoReadRefBelow(c) ==
  /\ At(c, "waitReaders")
  /\ readRef < 0
  /\ Goto(c, "delete")
  /\ UNCHANGED <<status, dataVars, freed, refVars, flagVars, request, calls>>

NoReadRef(c) ==
  /\ At(c, "waitReaders")
  /\ readRef = 0
  /\ Goto(c, "delete")
  /\ UNCHANGED <<status, dataVars, freed, refVars, flagVars, request, calls>>

DeletePmemKV(c) ==
  /\ At(c, "delete")
  /\ freed' = TRUE
  /\ Return(c)
  /\ UNCHANGED <<status, dataVars, refVars, flagVars, calls>>

Step(c) ==
  \/ RoutePmemKV(c) \/ CallTree(c)
  \/ Fault(c)
  \/ WriteRef(c) \/ CheckWriteValid(c) \/ WriteData(c) \/ AfterWrite(c)
  \/ SizeRef(c) \/ Size(c)
  \/ ReadRef(c) \/ ReadData(c)
  \/ Change(c)
  \/ SetWriteUnvalid(c) \/ NoWriteRef(c) \/ Scan(c) \/ InstallTree(c) \/ UseTree(c)
  \/ SetReadUnvalid(c) \/ NoReadRef(c) \/ DeletePmemKV(c)

(* The bounded run is over, or the migrator spins on a count that no       *)
(* client will lower: the others wait for it, or are out of calls.         *)
Stuck(c) ==
  \/ pc[c] = "fault" \/ (pc[c] = "idle" /\ calls[c] = MaxCalls)
  \/ pc[c] = "waitWriters" /\ writeRef > 0
  \/ pc[c] = "waitReaders" /\ readRef > 0
  \/ pc[c] = "route" /\ status = "PMEMKV_TO_COMBO_TREE" /\ ~ Is(c, "Get")

Terminated ==
  /\ \A c \in Clients : Stuck(c)
  /\ UNCHANGED vars

Next ==
  \/ \E c \in Clients : Call(c) \/ Step(c)
  \/ StoreArrives
  \/ Terminated

Spec == Init /\ [][Next]_vars

(* Every thread keeps running while it can, and stores arrive. *)
FairSpec ==
  /\ Spec
  /\ \A c \in Clients : WF_vars(Step(c))
  /\ WF_vars(StoreArrives)

-----------------------------------------------------------------------------
(* Type invariant: the shape of the state the handshake keeps. *)
TypeOK ==
  /\ status \in {"USING_PMEMKV", "PMEMKV_TO_COMBO_TREE", "USING_COMBO_TREE"}
  /\ kv \in Content /\ exist \in Content /\ tree \in Content
  /\ freed \in BOOLEAN
  /\ writeRef \in Nat
  /\ readRef \in Nat
  /\ writeValid \in BOOLEAN /\ readValid \in BOOLEAN /\ buffered \in BOOLEAN
  /\ overtaken \in BOOLEAN
  /\ pc \in [Clients -> {"idle", "route", "writeRef", "valid", "store", "size",
                         "sizeRef", "sizeValid", "readRef", "find", "change",
                         "invalidate", "waitWriters", "scan", "install", "using",
                         "invalidateRead", "waitReaders", "delete", "fault"}]
  /\ request \in [Clients -> Requests \cup {None}]
  /\ calls \in [Clients -> 0 .. MaxCalls]

-----------------------------------------------------------------------------
Migrating(c) ==
  pc[c] \in {"invalidate", "waitWriters", "scan", "install", "using",
             "invalidateRead", "waitReaders", "delete"}

(* The migrator has seen write_ref_ at 0. *)
PastWriters(c) == Migrating(c) /\ pc[c] \notin {"invalidate", "waitWriters"}

(***************************************************************************)
(* NoWriterInScan: once the migrator has seen no reference it relies on    *)
(* kv_data standing still, and no writer, whenever it was routed, is       *)
(* about to write to it, provided that the store to write_valid_ was       *)
(* visible before the count was read (combotree.cc:137-145,                *)
(* pmemkv.h:92-129).                                                       *)
(***************************************************************************)
NoWriterInScan ==
  ~ overtaken /\ (freed \/ \E m \in Clients : PastWriters(m)) => \A c \in Clients : pc[c] # "store"

(***************************************************************************)
(* OneMigrator: several Puts may find the store full at once; one of them  *)
(* migrates it, once (combotree.cc:131-135).                               *)
(***************************************************************************)
OneMigrator ==
  \A c, d \in Clients : Migrating(c) /\ (Migrating(d) \/ freed) => c = d /\ ~ freed

(***************************************************************************)
(* MigrationKeeps: the exchange of PmemKV for the B-level changes no key;  *)
(* only clients' own writes do (combotree.cc:144-169), provided again that *)
(* the count was not read too early.                                       *)
(***************************************************************************)
Current(k) == IF status = "USING_COMBO_TREE" THEN tree[k] ELSE kv[k]

OnlyClientsWrite ==
  \A k \in Key :
    Current(k)' # Current(k) =>
      \E c \in Clients : /\ pc[c] \in {"store", "route"}
                        /\ pc'[c] # pc[c]
                        /\ request[c].key = k

MigrationKeeps == [][overtaken \/ OnlyClientsWrite]_vars

(***************************************************************************)
(* MigrationEnds: the wait for the references to pmemkv_ ends, and with it *)
(* the migration (combotree.cc:138-176).                                   *)
(***************************************************************************)
MigrationEnds == status = "PMEMKV_TO_COMBO_TREE" ~> freed

(* The counts tell how many clients are inside PmemKV. *)
CountsKept ==
  /\ writeRef = Cardinality({c \in Clients : pc[c] \in {"valid", "store"}})
  /\ readRef = Cardinality({c \in Clients : pc[c] \in {"sizeValid", "find"}})

(***************************************************************************)
(* MigrationEndsOrLeaks: the early returns are the only reason for which   *)
(* a migration may not end: while every client inside PmemKV, and no       *)
(* other, is counted, the two waits come to an end, whether the store is   *)
(* delayed or not (combotree.cc:138-176, pmemkv.h:95).                     *)
(***************************************************************************)
MigrationEndsOrLeaks ==
  status = "PMEMKV_TO_COMBO_TREE" ~> (freed \/ ~ CountsKept)

-----------------------------------------------------------------------------
(* What combotree.cc:166 takes for granted and the code does not do. *)

(***************************************************************************)
(* NoFault: no client uses pmemkv_ after it is deleted                     *)
(* (combotree.cc:164-173, 436-443).                                        *)
(***************************************************************************)
NoFault == \A c \in Clients : pc[c] # "fault"

=============================================================================
