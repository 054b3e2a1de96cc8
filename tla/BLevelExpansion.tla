---------------------------- MODULE BLevelExpansion ----------------------------
(***************************************************************************)
(* The expansion of the B-level (src/src/blevel.cc, BLevel::Expansion and  *)
(* BLevel::ExpandRange_) running against the writers that ComboTree::Put   *)
(* routes in state COMBO_TREE_EXPANDING (src/src/combotree.cc:342-354).    *)
(*                                                                         *)
(* One expander thread per range walks its share of the old entries.  It   *)
(* locks an old entry, hands the entry's keys in order to ExpandPut_,      *)
(* which collects BufKey of them before it builds a new entry, and marks   *)
(* the old entry invalid.  Writers ask IsKeyExpanded on which side of the  *)
(* move their key is: below expanded_max_key_ they go to the new B-level,  *)
(* otherwise to the old one, where an invalid entry sends them back to     *)
(* ask again.                                                              *)
(*                                                                         *)
(* Atomicity.  An entry operation runs under the entry's lock and is one   *)
(* step.  A new entry is invisible until expanded_entries_ counts it, so   *)
(* building and counting it is one step; the store to expanded_max_key_    *)
(* is a step of its own, and so are the two loads of IsKeyExpanded.        *)
(***************************************************************************)
EXTENDS Integers, Sequences, FiniteSets

CONSTANTS
  MaxKey,     (* UINT64_MAX: the greatest key and the last range's bound.  *)
  Value,      (* The values a Put can carry.                               *)
  None,       (* Stands for "no value".                                    *)
  Writers,    (* The threads that call Put.                                *)
  NRange,     (* EXPAND_THREADS: expander threads, ranges of the B-level.  *)
  OldKey,     (* OldKey[i]: entry_key of the i-th entry of the old B-level.*)
  FirstOld,   (* FirstOld[r]: first old entry that expander r moves, as    *)
              (* PrepareExpansion partitioned them; FirstOld[NRange + 1]   *)
              (* is one past the last.                                     *)
  Capacity,   (* Capacity[r]: physical entries of range r in the new level.*)
  BufKey,     (* BLEVEL_EXPAND_BUF_KEY: keys put into one new entry.       *)
  InitStores, (* The contents the old B-level may start from.              *)
  MaxPuts     (* Bound: Puts per writer.                                   *)

Key      == 0 .. MaxKey
Ranges   == 1 .. NRange
OldEntry == 1 .. Len(OldKey)
Content  == [Key -> Value \cup {None}]
Requests == [key : Key, value : Value]

KeysOf(content) == {k \in Key : content[k] # None}

(***************************************************************************)
(* Find in the old B-level: its entries do not move, so the search by key  *)
(* has one answer throughout.                                              *)
(***************************************************************************)
InOldEntry(k, i) ==
  /\ OldKey[i] <= k
  /\ i < Len(OldKey) => k < OldKey[i + 1]

OldEntryOf(k) == CHOOSE i \in OldEntry : InOldEntry(k, i)

(* Mutant: last_entry_key taken from the range itself, not from the next. *)
LastEntryKeyOwn(r) == OldKey[FirstOld[r]]

(* ranges_[r].start_key, which PrepareExpansion takes from the old entry   *)
(* where the range begins, and ranges_[r + 1].start_key, the range's       *)
(* last_entry_key.                                                         *)
StartKey(r)     == OldKey[FirstOld[r]]
LastEntryKey(r) == IF r = NRange THEN MaxKey ELSE StartKey(r + 1)

(* FindBRangeByKey_: the last range that starts at or below the key. *)
InRange(k, r) ==
  /\ StartKey(r) <= k
  /\ r < NRange => k < StartKey(r + 1)

RangeOf(k) == CHOOSE r \in Ranges : InRange(k, r)

ASSUME GeometryAssumption ==
  /\ MaxKey \in Nat
  /\ NRange \in Nat \ {0}
  /\ OldKey \in Seq(Key)
  /\ OldKey # <<>>
  /\ OldKey[1] = 0
  /\ \A i, j \in OldEntry : i < j => OldKey[i] < OldKey[j]
  /\ FirstOld \in [1 .. NRange + 1 -> 1 .. Len(OldKey) + 1]
  /\ FirstOld[1] = 1
  /\ FirstOld[NRange + 1] = Len(OldKey) + 1
  /\ \A r, s \in 1 .. NRange + 1 : r < s => FirstOld[r] < FirstOld[s]

ASSUME SizeAssumption ==
  /\ Capacity \in [Ranges -> Nat \ {0}]
  /\ BufKey \in Nat \ {0}
  /\ MaxPuts \in Nat

ASSUME ContentAssumption ==
  /\ None \notin Value
  /\ None \notin Requests
  /\ InitStores \subseteq Content

VARIABLES
  oldKV,            (* Contents of the old B-level.                        *)
  oldValid,         (* Per old entry: IsValid().                           *)
  oldSize,          (* size_ of the old B-level.                           *)
  entryKey,         (* Per range: entry_key of each new entry built.       *)
  newKV,            (* Per range and new entry: the entry's contents.      *)
  newSize,          (* size_ of the new B-level.                           *)
  expandedEntries,  (* expanded_entries_[r].                               *)
  maxKey,           (* expanded_max_key_[r].                               *)
  expPc,            (* Where expander r is.                                *)
  cur,              (* Old entry expander r is at.                         *)
  todo,             (* Keys of that entry not yet handed to ExpandPut_.    *)
  buf,              (* ExpandData key_buf and value_buf.                   *)
  nextEntryKey,     (* ExpandData entry_key: key of the next new entry.    *)
  dataSize,         (* ExpandData size: keys moved by expander r.          *)
  installed,        (* learn_index_ points to the new B-level.             *)
  wPc,              (* Where writer w is.                                  *)
  request,          (* The Put that w executes, or None.                   *)
  wEnd,             (* The local variable end of w's Put.                  *)
  puts              (* Puts that w has started.                            *)

oldVars    == <<oldKV, oldValid, oldSize>>
newVars    == <<entryKey, newKV, newSize>>
markVars   == <<expandedEntries, maxKey>>
expVars    == <<expPc, cur, todo, buf, nextEntryKey, dataSize>>
writerVars == <<wPc, request, wEnd, puts>>
vars       == <<oldVars, newVars, markVars, expVars, installed, writerVars>>

Empty == [k \in Key |-> None]

(* The contents f after the Puts of every key that g holds. *)
Overlay(f, g) == [k \in Key |-> IF g[k] # None THEN g[k] ELSE f[k]]

Least(S) == CHOOSE k \in S : \A j \in S : k <= j

Init ==
  /\ oldKV \in InitStores
  /\ oldValid = [i \in OldEntry |-> TRUE]
  /\ oldSize = Cardinality(KeysOf(oldKV))
  /\ entryKey = [r \in Ranges |-> <<>>]
  /\ newKV = [r \in Ranges |-> [i \in 1 .. Capacity[r] |-> Empty]]
  /\ newSize = 0
  /\ expandedEntries = [r \in Ranges |-> 0]
  /\ maxKey = [r \in Ranges |-> 0]
  /\ expPc = [r \in Ranges |-> "next"]
  /\ cur = [r \in Ranges |-> FirstOld[r]]
  /\ todo = [r \in Ranges |-> {}]
  /\ buf = [r \in Ranges |-> Empty]
  /\ nextEntryKey = [r \in Ranges |-> StartKey(r)]
  /\ dataSize = [r \in Ranges |-> 0]
  /\ installed = FALSE
  /\ wPc = [w \in Writers |-> "idle"]
  /\ request = [w \in Writers |-> None]
  /\ wEnd = [w \in Writers |-> 0]
  /\ puts = [w \in Writers |-> 0]

-----------------------------------------------------------------------------
(* Expander threads. *)

Finished(r) == cur[r] = FirstOld[r + 1]
BufFull(r)  == Cardinality(KeysOf(buf[r])) = BufKey
HasRoom(r)  == Len(entryKey[r]) < Capacity[r]

(* Mutant: the iterator of an entry starts behind its first key. *)
LockEntryPastFirst(r) ==
  /\ expPc[r] = "next"
  /\ ~ Finished(r)
  /\ todo' = [todo EXCEPT ![r] = {k \in KeysOf(oldKV) : InOldEntry(k, cur[r]) /\ k # OldKey[cur[r]]}]
  /\ expPc' = [expPc EXCEPT ![r] = IF todo'[r] = {} THEN "fault" ELSE "copy"]
  /\ UNCHANGED <<oldVars, newVars, markVars, cur, buf, nextEntryKey, dataSize,
                 installed, writerVars>>

(***************************************************************************)
(* The lock_guard on the next old entry and the construction of the        *)
(* iterator.  The do-while loop reads the iterator before it asks whether  *)
(* there is anything to read: on an entry that Delete has emptied, key()   *)
(* goes through a null leaf pointer, modelled as the state "fault".        *)
(***************************************************************************)
LockEntry(r) ==
  /\ expPc[r] = "next"
  /\ ~ Finished(r)
  /\ todo' = [todo EXCEPT ![r] = {k \in KeysOf(oldKV) : InOldEntry(k, cur[r])}]
  /\ expPc' = [expPc EXCEPT ![r] = IF todo'[r] = {} THEN "fault" ELSE "copy"]
  /\ UNCHANGED <<oldVars, newVars, markVars, cur, buf, nextEntryKey, dataSize,
                 installed, writerVars>>

(* Storing the key into key_buf, the common tail of every ExpandPut_. *)
Buffer(r, content) ==
  LET k == Least(todo[r]) IN
  /\ buf' = [buf EXCEPT ![r] = [content EXCEPT ![k] = oldKV[k]]]
  /\ todo' = [todo EXCEPT ![r] = @ \ {k}]
  /\ dataSize' = [dataSize EXCEPT ![r] = @ + 1]

(* ExpandPut_ with room in the buffer. *)
ExpandPut(r) ==
  /\ expPc[r] = "copy"
  /\ todo[r] # {}
  /\ ~ BufFull(r)
  /\ Buffer(r, buf[r])
  /\ UNCHANGED <<oldVars, newVars, markVars, expPc, cur, nextEntryKey,
                 installed, writerVars>>

(* Mutant: the room in the range is not checked. *)
FlushPastEnd(r) ==
  LET n == Len(entryKey[r]) + 1 IN
  /\ entryKey' = [entryKey EXCEPT ![r] = Append(@, nextEntryKey[r])]
  /\ newKV' = [newKV EXCEPT ![r][n] = buf[r]]
  /\ expandedEntries' = [expandedEntries EXCEPT ![r] = @ + 1]
  /\ buf' = [buf EXCEPT ![r] = Empty]

(* FlushToEntry into a new entry, then expanded_entries->fetch_add. *)
Flush(r) ==
  LET n == Len(entryKey[r]) + 1 IN
  /\ HasRoom(r)
  /\ entryKey' = [entryKey EXCEPT ![r] = Append(@, nextEntryKey[r])]
  /\ newKV' = [newKV EXCEPT ![r][n] = buf[r]]
  /\ expandedEntries' = [expandedEntries EXCEPT ![r] = @ + 1]
  /\ buf' = [buf EXCEPT ![r] = Empty]

(* No physical entry left: Put the buffer into the range's last entry. *)
Spill(r) ==
  LET n == Len(entryKey[r]) IN
  /\ ~ HasRoom(r)
  /\ newKV' = [newKV EXCEPT ![r][n] = Overlay(@, buf[r])]
  /\ buf' = [buf EXCEPT ![r] = Empty]
  /\ UNCHANGED <<entryKey, expandedEntries>>

(* Mutant: entry_key is not advanced after a flush. *)
ExpandPutFlushSameKey(r) ==
  /\ expPc[r] = "copy"
  /\ todo[r] # {}
  /\ BufFull(r)
  /\ Flush(r) \/ Spill(r)
  /\ expPc' = [expPc EXCEPT ![r] = "publish"]
  /\ UNCHANGED <<oldVars, newSize, maxKey, cur, todo, nextEntryKey, dataSize,
                 installed, writerVars>>

(* ExpandPut_ with the buffer full, up to the store to max_key. *)
ExpandPutFlush(r) ==
  /\ expPc[r] = "copy"
  /\ todo[r] # {}
  /\ BufFull(r)
  /\ \/ Flush(r) /\ nextEntryKey' = [nextEntryKey EXCEPT ![r] = Least(todo[r])]
     \/ Spill(r) /\ UNCHANGED nextEntryKey
  /\ expPc' = [expPc EXCEPT ![r] = "publish"]
  /\ UNCHANGED <<oldVars, newSize, maxKey, cur, todo, dataSize, installed,
                 writerVars>>

(* The rest of that ExpandPut_: max_key->store(key), then buffer the key. *)
ExpandPutPublish(r) ==
  /\ expPc[r] = "publish"
  /\ maxKey' = [maxKey EXCEPT ![r] = Least(todo[r])]
  /\ Buffer(r, buf[r])
  /\ expPc' = [expPc EXCEPT ![r] = "copy"]
  /\ UNCHANGED <<oldVars, newVars, expandedEntries, cur, nextEntryKey,
                 installed, writerVars>>

(* SetInvalid on the copied entry and the release of its lock. *)
Invalidate(r) ==
  /\ expPc[r] = "copy"
  /\ todo[r] = {}
  /\ oldValid' = [oldValid EXCEPT ![cur[r]] = FALSE]
  /\ cur' = [cur EXCEPT ![r] = @ + 1]
  /\ expPc' = [expPc EXCEPT ![r] = "next"]
  /\ UNCHANGED <<oldKV, oldSize, newVars, markVars, todo, buf, nextEntryKey,
                 dataSize, installed, writerVars>>

(***************************************************************************)
(* ExpandFinish_ up to the store to max_key.  Its test buf_count != 0      *)
(* always succeeds here: a range has an old entry and, past LockEntry, the *)
(* entry had a key, which is in the buffer.                                *)
(***************************************************************************)
ExpandFinish(r) ==
  /\ expPc[r] = "next"
  /\ Finished(r)
  /\ buf[r] # Empty
  /\ Flush(r) \/ Spill(r)
  /\ expPc' = [expPc EXCEPT ![r] = "finish"]
  /\ UNCHANGED <<oldVars, newSize, maxKey, cur, todo, nextEntryKey, dataSize,
                 installed, writerVars>>

(* Mutant: the keys moved are not added to size_. *)
ExpandFinishPublishNoSize(r) ==
  /\ expPc[r] = "finish"
  /\ maxKey' = [maxKey EXCEPT ![r] = LastEntryKey(r)]
  /\ expPc' = [expPc EXCEPT ![r] = "done"]
  /\ UNCHANGED <<oldVars, newVars, expandedEntries, cur, todo, buf,
                 nextEntryKey, dataSize, installed, writerVars>>

(* The rest of ExpandFinish_ and of ExpandRange_. *)
ExpandFinishPublish(r) ==
  /\ expPc[r] = "finish"
  /\ maxKey' = [maxKey EXCEPT ![r] = LastEntryKey(r)]
  /\ newSize' = newSize + dataSize[r]
  /\ expPc' = [expPc EXCEPT ![r] = "done"]
  /\ UNCHANGED <<oldVars, entryKey, newKV, expandedEntries, cur, todo, buf,
                 nextEntryKey, dataSize, installed, writerVars>>

(* All expanders joined: ExpandComboTree_ replaces learn_index_ and drops  *)
(* the old B-level under the exclusive alevel_lock_.                       *)
Install ==
  /\ ~ installed
  /\ \A r \in Ranges : expPc[r] = "done"
  /\ installed' = TRUE
  /\ UNCHANGED <<oldVars, newVars, markVars, expVars, writerVars>>

Expander(r) ==
  \/ LockEntry(r)
  \/ ExpandPut(r)
  \/ ExpandPutFlush(r)
  \/ ExpandPutPublish(r)
  \/ Invalidate(r)
  \/ ExpandFinish(r)
  \/ ExpandFinishPublish(r)

-----------------------------------------------------------------------------
(* Writers. *)

(* An expander holds the lock of old entry i while it copies the entry. *)
Locked(i) == \E r \in Ranges : expPc[r] \in {"copy", "publish"} /\ cur[r] = i

(***************************************************************************)
(* FindByRange_: the last entry among the first "end" of the range that    *)
(* starts at or below the key; 0 stands for the slot before the range,     *)
(* which is what the binary search yields when every entry starts above.   *)
(***************************************************************************)
FindByRange(k, r, end) ==
  IF \E i \in 1 .. end : entryKey[r][i] <= k
    THEN CHOOSE i \in 1 .. end :
           /\ entryKey[r][i] <= k
           /\ \A j \in i + 1 .. end : k < entryKey[r][j]
    ELSE 0

Call(w) ==
  /\ wPc[w] = "idle"
  /\ puts[w] < MaxPuts
  /\ \E q \in Requests : request' = [request EXCEPT ![w] = q]
  /\ puts' = [puts EXCEPT ![w] = @ + 1]
  /\ wPc' = [wPc EXCEPT ![w] = "check"]
  /\ UNCHANGED <<oldVars, newVars, markVars, expVars, installed, wEnd>>

(* Mutant: expanded_max_key_ itself counts as expanded. *)
CheckExpandedInclusive(w) ==
  LET k == request[w].key IN
  /\ wPc[w] = "check"
  /\ wPc' = [wPc EXCEPT ![w] = IF k <= maxKey[RangeOf(k)] THEN "end" ELSE "old"]
  /\ UNCHANGED <<oldVars, newVars, markVars, expVars, installed, request, wEnd,
                 puts>>

(* IsKeyExpanded, first load: is the key below expanded_max_key_? *)
CheckExpanded(w) ==
  LET k == request[w].key IN
  /\ wPc[w] = "check"
  /\ wPc' = [wPc EXCEPT ![w] = IF k < maxKey[RangeOf(k)] THEN "end" ELSE "old"]
  /\ UNCHANGED <<oldVars, newVars, markVars, expVars, installed, request, wEnd,
                 puts>>

(* Mutant: one entry too few. *)
LoadEndShort(w) ==
  /\ wPc[w] = "end"
  /\ wEnd' = [wEnd EXCEPT ![w] = expandedEntries[RangeOf(request[w].key)] - 1]
  /\ wPc' = [wPc EXCEPT ![w] = "new"]
  /\ UNCHANGED <<oldVars, newVars, markVars, expVars, installed, request, puts>>

(* IsKeyExpanded, second load: the range's entries so far. *)
LoadEnd(w) ==
  /\ wPc[w] = "end"
  /\ wEnd' = [wEnd EXCEPT ![w] = expandedEntries[RangeOf(request[w].key)]]
  /\ wPc' = [wPc EXCEPT ![w] = "new"]
  /\ UNCHANGED <<oldVars, newVars, markVars, expVars, installed, request, puts>>

(* The Put returns status::OK. *)
Finish(w) ==
  /\ wPc' = [wPc EXCEPT ![w] = "idle"]
  /\ request' = [request EXCEPT ![w] = None]
  /\ UNCHANGED <<wEnd, puts>>

(* BLevel::Put_ on the new level: the entry's Put and size_.fetch_add. *)
PutNew(q, end) ==
  LET r == RangeOf(q.key)
      i == FindByRange(q.key, r, end)
  IN
  /\ newKV' = [newKV EXCEPT ![r][i][q.key] = q.value]
  /\ newSize' = newSize + 1
  /\ UNCHANGED <<oldVars, entryKey, markVars, expVars, installed>>

PutRange(w) ==
  /\ wPc[w] = "new"
  /\ PutNew(request[w], wEnd[w])
  /\ Finish(w)

(* Mutant: Put_ does not look at IsValid(). *)
PutOldUnchecked(w) ==
  LET q == request[w] IN
  /\ wPc[w] = "old"
  /\ ~ installed
  /\ ~ Locked(OldEntryOf(q.key))
  /\ oldKV' = [oldKV EXCEPT ![q.key] = q.value]
  /\ oldSize' = oldSize + 1
  /\ Finish(w)
  /\ UNCHANGED <<oldValid, newVars, markVars, expVars, installed>>

(***************************************************************************)
(* learn_index_->Put under the shared alevel_lock_ while learn_index_      *)
(* still leads to the old level: it waits for the entry's lock, and an     *)
(* invalid entry answers status::Failed, which sends the writer back.      *)
(***************************************************************************)
PutOld(w) ==
  LET q == request[w]
      i == OldEntryOf(q.key)
  IN
  /\ wPc[w] = "old"
  /\ ~ installed
  /\ ~ Locked(i)
  /\ oldValid[i]
  /\ oldKV' = [oldKV EXCEPT ![q.key] = q.value]
  /\ oldSize' = oldSize + 1
  /\ Finish(w)
  /\ UNCHANGED <<oldValid, newVars, markVars, expVars, installed>>

PutOldFails(w) ==
  LET i == OldEntryOf(request[w].key) IN
  /\ wPc[w] = "old"
  /\ ~ installed
  /\ ~ Locked(i)
  /\ ~ oldValid[i]
  /\ wPc' = [wPc EXCEPT ![w] = "check"]
  /\ UNCHANGED <<oldVars, newVars, markVars, expVars, installed, request, wEnd,
                 puts>>

(* Mutant: after the installation, too, the writer is sent back to ask. *)
PutInstalledFails(w) ==
  /\ wPc[w] = "old"
  /\ installed
  /\ wPc' = [wPc EXCEPT ![w] = "check"]
  /\ UNCHANGED <<oldVars, newVars, markVars, expVars, installed, request, wEnd,
                 puts>>

(* The same call once learn_index_ leads to the new level. *)
PutInstalled(w) ==
  /\ wPc[w] = "old"
  /\ installed
  /\ PutNew(request[w], expandedEntries[RangeOf(request[w].key)])
  /\ Finish(w)

Put(w) ==
  \/ CheckExpanded(w)
  \/ LoadEnd(w)
  \/ PutRange(w)
  \/ PutOld(w)
  \/ PutOldFails(w)
  \/ PutInstalled(w)

-----------------------------------------------------------------------------
(* The bounded run is over: nothing is left to expand or to put. *)
Terminated ==
  /\ installed
  /\ \A w \in Writers : wPc[w] = "idle" /\ puts[w] = MaxPuts
  /\ UNCHANGED vars

Next ==
  \/ \E r \in Ranges : Expander(r)
  \/ Install
  \/ \E w \in Writers : Call(w) \/ Put(w)
  \/ Terminated

Spec == Init /\ [][Next]_vars

(* Expanders and writers are threads: each keeps running while it can. *)
FairSpec ==
  /\ Spec
  /\ \A r \in Ranges : WF_vars(Expander(r))
  /\ WF_vars(Install)
  /\ \A w \in Writers : WF_vars(Put(w))

-----------------------------------------------------------------------------
(* Type invariant: the shape of the state the B-level and its threads keep. *)
TypeOK ==
  /\ oldKV \in Content
  /\ oldValid \in [OldEntry -> BOOLEAN]
  /\ oldSize \in Nat
  /\ entryKey \in [Ranges -> Seq(Key)]
  /\ \A r \in Ranges : Len(entryKey[r]) <= Capacity[r]
  /\ DOMAIN newKV = Ranges
  /\ \A r \in Ranges : newKV[r] \in [1 .. Capacity[r] -> Content]
  /\ newSize \in Nat
  /\ expandedEntries \in [Ranges -> Nat]
  /\ maxKey \in [Ranges -> Key]
  /\ expPc \in [Ranges -> {"next", "copy", "publish", "finish", "done", "fault"}]
  /\ cur \in [Ranges -> 1 .. Len(OldKey) + 1]
  /\ todo \in [Ranges -> SUBSET Key]
  /\ buf \in [Ranges -> Content]
  /\ nextEntryKey \in [Ranges -> Key]
  /\ dataSize \in [Ranges -> Nat]
  /\ installed \in BOOLEAN
  /\ wPc \in [Writers -> {"idle", "check", "end", "new", "old"}]
  /\ request \in [Writers -> Requests \cup {None}]
  /\ wEnd \in [Writers -> Nat]
  /\ puts \in [Writers -> 0 .. MaxPuts]

-----------------------------------------------------------------------------
(***************************************************************************)
(* EndFindsHome: IsKeyExpanded loads expanded_max_key_ and then            *)
(* expanded_entries_ with no lock, and PutRange uses both answers later    *)
(* (combotree.cc:345-346).  Whatever the expander did in between, the      *)
(* entry the writer will put to exists and is the one a search of the      *)
(* whole range finds, as the disabled assertions of PutRange ask           *)
(* (blevel.cc:847-851).                                                    *)
(***************************************************************************)
EndFindsHome ==
  \A w \in Writers :
    wPc[w] = "new" =>
      LET k == request[w].key
          r == RangeOf(k)
      IN  /\ wEnd[w] \in 1 .. Len(entryKey[r])
          /\ FindByRange(k, r, wEnd[w]) # 0
          /\ FindByRange(k, r, wEnd[w]) = FindByRange(k, r, Len(entryKey[r]))

(***************************************************************************)
(* NoStaleCopy: a key that an expander still has to write, from the locked *)
(* entry or from key_buf, has no value in the new level yet, so the flush  *)
(* or the spill (blevel.cc:196, 206-207) never puts an old value over a    *)
(* writer's newer one.                                                     *)
(***************************************************************************)
NoStaleCopy ==
  \A r \in Ranges : \A k \in todo[r] \cup KeysOf(buf[r]) :
    /\ InRange(k, r)
    /\ maxKey[r] <= k \/ expPc[r] = "done"
    /\ \A i \in 1 .. Capacity[r] : newKV[r][i][k] = None

(***************************************************************************)
(* KeysInPlace: every key of the new level is in the one entry where a     *)
(* search for it ends.  A key in any other entry would be stored and never *)
(* found again (blevel.cc:819-844, Put_ in blevel.h:517-548).              *)
(***************************************************************************)
KeysInPlace ==
  \A r \in Ranges : \A i \in 1 .. Capacity[r] : \A k \in KeysOf(newKV[r][i]) :
    /\ InRange(k, r)
    /\ FindByRange(k, r, Len(entryKey[r])) = i

(***************************************************************************)
(* What a search for k would answer if the expansion were over: the new    *)
(* level, else the value on its way in key_buf, else the old entry as long *)
(* as the expansion has not left it behind.                                *)
(***************************************************************************)
NewValue(k) ==
  LET r == RangeOf(k)
      i == FindByRange(k, r, Len(entryKey[r]))
  IN  IF i = 0 THEN None ELSE newKV[r][i][k]

Lookup(k) ==
  IF NewValue(k) # None THEN NewValue(k)
  ELSE IF buf[RangeOf(k)][k] # None THEN buf[RangeOf(k)][k]
  ELSE IF oldValid[OldEntryOf(k)] THEN oldKV[k]
  ELSE None

Store == INSTANCE KVStore WITH store <- [k \in Key |-> Lookup(k)]

(***************************************************************************)
(* ExpansionInvisible: the B-level with its expanders and writers          *)
(* implements the plain map.  Each Put that returns status::OK has changed *)
(* its key in one step, and no step of the expansion changes, loses or     *)
(* resurrects a value (blevel.cc:190-237, 375-511).                        *)
(***************************************************************************)
ExpansionInvisible == Store!Spec

(***************************************************************************)
(* SizeCoversKeys: when the new level takes over, size_, which decides the *)
(* next expansion (combotree.cc:303), has missed no key: what the          *)
(* expanders moved and what writers put directly add up to at least the    *)
(* keys present (blevel.cc:475, blevel.h:531).                             *)
(***************************************************************************)
SizeCoversKeys ==
  installed => newSize >= Cardinality({k \in Key : Lookup(k) # None})

(***************************************************************************)
(* ExpandedForever: the answer "expanded" of IsKeyExpanded, and the        *)
(* entries counted with it, are never taken back, so a writer may act on   *)
(* them after any delay (blevel.cc:503-511).                               *)
(***************************************************************************)
MarksAdvance ==
  \A r \in Ranges :
    /\ maxKey[r] <= maxKey'[r]
    /\ expandedEntries[r] <= expandedEntries'[r]
    /\ maxKey[r] < maxKey'[r] => expandedEntries[r] > 0

ExpandedForever == [][MarksAdvance]_vars

(***************************************************************************)
(* PutsReturn: a writer whose key lies in a copied but unpublished stretch *)
(* is sent back and forth between the levels; the expanders' progress lets *)
(* every Put return (combotree.cc:345-353).                                *)
(***************************************************************************)
PutsReturn == \A w \in Writers : wPc[w] # "idle" ~> wPc[w] = "idle"

(***************************************************************************)
(* ExpansionEnds: every expander finishes its range and the new level is   *)
(* installed (blevel.cc:364-373, combotree.cc:221-228).                    *)
(***************************************************************************)
ExpansionEnds == <>installed

=============================================================================
