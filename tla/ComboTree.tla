------------------------------- MODULE ComboTree -------------------------------
(***************************************************************************)
(* The tree between its expansions (src/src/combotree.cc): client threads  *)
(* in Put, Update, Get and Delete, and the detached threads a Put starts   *)
(* to run ExpandComboTree_, racing over status_, the three B-level pointers   *)
(* and the sleep protocol.  The tree has left PmemKV: status_ starts at    *)
(* USING_COMBO_TREE.                                                       *)
(*                                                                         *)
(* A level is one BLevel object; expansion g moves level g to level g + 1. *)
(* Each key stands for the old entry that holds it, and its move (copy,    *)
(* publication in expanded_max_key_ and SetInvalid) is one step: what goes *)
(* on inside is BLevelExpansion, which shows that no writer can tell.      *)
(*                                                                         *)
(* status_ is compared with one value after another, each time loaded      *)
(* anew; as a failed comparison has no effect, routing by one load, the    *)
(* one that matches, has the same outcomes.                                *)
(***************************************************************************)
EXTENDS Integers, FiniteSets

CONSTANTS
  Key, Value,
  None,          (* Stands for "no value" and "no request".                *)
  Clients,       (* Threads that call Put, Update, Get and Delete.         *)
  Expanders,     (* Detached threads; a Put that finds all of them busy    *)
                 (* starts none: bound on the threads alive at once.       *)
  Requests,      (* Bound: the calls clients make.                         *)
  SleepLimit,    (* EXPAND_THREADS, in its role in the sleep protocol.     *)
  Limit,         (* Limit[g]: EXPANSION_FACTOR * BLEVEL_EXPAND_BUF_KEY *   *)
                 (* Entries() of level g once it is complete.              *)
  WordSize,      (* 2^64: where size_ wraps.                               *)
  MaxExpansions, (* Bound: expansions.                                     *)
  MaxCalls       (* Bound: calls per client.                               *)

Level   == 1 .. MaxExpansions + 1
Content == [Key -> Value \cup {None}]

ASSUME ComboTreeAssumption ==
  /\ None \notin Value
  /\ Requests \subseteq
       [op : {"Put", "Update", "Get", "Delete"}, key : Key, value : Value]
  /\ SleepLimit \in Nat \ {0}
  /\ WordSize \in Nat \ {0}
  /\ IsFiniteSet(Key) /\ Cardinality(Key) < WordSize
  /\ MaxExpansions \in Nat
  /\ Limit \in [Level -> Nat]
  /\ MaxCalls \in Nat

VARIABLES
  status,        (* status_.                                               *)
  learnIndex,    (* The level that learn_index_ leads to.                  *)
  blevel,        (* The level blevel_ points to.                           *)
  oldBlevel,     (* The level old_blevel_ points to.                       *)
  content,       (* Contents of each level.                                *)
  valid,         (* Per level: the keys whose entry IsValid().             *)
  size,          (* size_ of each level.                                   *)
  prepared,      (* Levels whose ranges_ are initialised.                  *)
  complete,      (* Levels whose nr_entries_ is set: past FinishExpansion_.*)
  deleted,       (* Levels that have been deleted.                         *)
  moved,         (* Keys below expanded_max_key_, which is static: one for *)
                 (* all levels.                                            *)
  permitDelete,  (* permit_delete_.                                        *)
  needSleep,     (* need_sleep_.                                           *)
  sleeped,       (* sleeped_threads_.                                      *)
  expPc,         (* Where each detached thread is.                         *)
  pc,            (* Where each client is.                                  *)
  request,       (* The call each client executes, or None.                *)
  level,         (* The level whose address the client holds.              *)
  calls          (* Calls each client has made.                            *)

treeVars   == <<learnIndex, blevel, oldBlevel>>
levelVars  == <<content, valid, size, prepared, complete, deleted, moved>>
sleepVars  == <<needSleep, sleeped>>
clientVars == <<pc, request, level, calls>>
vars == <<status, treeVars, levelVars, permitDelete, sleepVars, expPc, clientVars>>

Init ==
  /\ status = "USING_COMBO_TREE"
  /\ learnIndex = 1 /\ blevel = 1 /\ oldBlevel = 1
  /\ \E c \in Content :
       /\ content = [g \in Level |-> IF g = 1 THEN c ELSE [k \in Key |-> None]]
       /\ size = [g \in Level |-> IF g = 1 THEN Cardinality({k \in Key : c[k] # None})
                                           ELSE 0]
  /\ valid = [g \in Level |-> Key]
  /\ prepared = {1} /\ complete = {1} /\ deleted = {}
  /\ moved = {}
  /\ permitDelete = TRUE
  /\ needSleep = FALSE /\ sleeped = 0
  /\ expPc = [e \in Expanders |-> "none"]
  /\ pc = [c \in Clients |-> "idle"]
  /\ request = [c \in Clients |-> None]
  /\ level = [c \in Clients |-> 1]
  /\ calls = [c \in Clients |-> 0]

-----------------------------------------------------------------------------
(* ExpandComboTree_. *)

Go(e, from, to) ==
  /\ expPc[e] = from
  /\ expPc' = [expPc EXCEPT ![e] = to]

(* notify_all: every client asleep on expand_wait_cv goes on. *)
NotifyAll ==
  pc' = [c \in Clients |-> IF pc[c] = "asleep" THEN "route" ELSE pc[c]]

(* Mutant: a load and a store instead of the compare-exchange. *)
StartExpansionUnchecked(e) ==
  /\ Go(e, "start", "mark")
  /\ blevel < MaxExpansions + 1
  /\ status' = "PREPARE_EXPANDING"
  /\ UNCHANGED <<treeVars, levelVars, permitDelete, sleepVars, clientVars>>

StartExpansion(e) ==
  /\ Go(e, "start", "mark")
  /\ blevel < MaxExpansions + 1
  /\ status = "USING_COMBO_TREE"
  /\ status' = "PREPARE_EXPANDING"
  /\ UNCHANGED <<treeVars, levelVars, permitDelete, sleepVars, clientVars>>

(* The compare-exchange fails: another thread expands. *)
GiveUp(e) ==
  /\ Go(e, "start", "none")
  /\ status # "USING_COMBO_TREE"
  /\ UNCHANGED <<status, treeVars, levelVars, permitDelete, sleepVars, clientVars>>

MarkExpanding(e) ==
  /\ Go(e, "mark", "new")
  /\ permitDelete' = FALSE
  /\ sleeped' = 1
  /\ needSleep' = TRUE
  /\ UNCHANGED <<status, treeVars, levelVars, clientVars>>

(* blevel_ = new BLevel: from here on other threads see it. *)
NewBLevel(e) ==
  /\ Go(e, "new", "prepare")
  /\ blevel' = oldBlevel + 1
  /\ UNCHANGED <<status, learnIndex, oldBlevel, levelVars, permitDelete, sleepVars,
                 clientVars>>

PrepareExpansion(e) ==
  /\ Go(e, "prepare", "prepared")
  /\ prepared' = prepared \cup {blevel}
  /\ moved' = {}
  /\ UNCHANGED <<status, treeVars, content, valid, size, complete, deleted,
                 permitDelete, sleepVars, clientVars>>

BeginExpansion(e) ==
  /\ Go(e, "prepared", "release")
  /\ status' = "COMBO_TREE_EXPANDING"
  /\ UNCHANGED <<treeVars, levelVars, permitDelete, sleepVars, clientVars>>

(* need_sleep_.store(false), without the mutex the sleepers check it under. *)
ReleaseSleepers(e) ==
  /\ Go(e, "release", "notify")
  /\ needSleep' = FALSE
  /\ UNCHANGED <<status, treeVars, levelVars, permitDelete, sleeped, clientVars>>

NotifySleepers(e) ==
  /\ Go(e, "notify", "expand")
  /\ NotifyAll
  /\ UNCHANGED <<status, treeVars, levelVars, permitDelete, sleepVars, request,
                 level, calls>>

(* BLevel::Expansion: some expander thread moves an entry. *)
MoveKey(e) ==
  /\ Go(e, "expand", "expand")
  /\ \E k \in Key \ moved :
       /\ content' = [content EXCEPT ![blevel][k] = content[oldBlevel][k]]
       /\ size' = IF content[oldBlevel][k] = None
                   THEN size
                   ELSE [size EXCEPT ![blevel] = (@ + 1) % WordSize]
       /\ valid' = [valid EXCEPT ![oldBlevel] = @ \ {k}]
       /\ moved' = moved \cup {k}
  /\ UNCHANGED <<status, treeVars, prepared, complete, deleted, permitDelete,
                 sleepVars, clientVars>>

(* Mutant: the last entry is left behind. *)
FinishExpansionEarly(e) ==
  /\ Go(e, "expand", "install")
  /\ Cardinality(Key \ moved) <= 1
  /\ complete' = complete \cup {blevel}
  /\ NotifyAll
  /\ UNCHANGED <<status, treeVars, content, valid, size, prepared, deleted, moved,
                 permitDelete, sleepVars, request, level, calls>>

(* Mutant: status_ changes before the new level is installed. *)
FinishExpansionStatus(e) ==
  /\ Go(e, "expand", "install")
  /\ moved = Key
  /\ complete' = complete \cup {blevel}
  /\ NotifyAll
  /\ status' = "USING_COMBO_TREE"
  /\ UNCHANGED <<treeVars, content, valid, size, prepared, deleted, moved,
                 permitDelete, sleepVars, request, level, calls>>

(* FinishExpansion_, and the notify_all at the end of Expansion. *)
FinishExpansion(e) ==
  /\ Go(e, "expand", "install")
  /\ moved = Key
  /\ complete' = complete \cup {blevel}
  /\ NotifyAll
  /\ UNCHANGED <<status, treeVars, content, valid, size, prepared, deleted, moved,
                 permitDelete, sleepVars, request, level, calls>>

(* A client that holds alevel_lock_ shared. *)
HoldsShared(c) == pc[c] = "shared"

(* Mutant: the exclusive lock is not taken. *)
InstallUnlocked(e) ==
  /\ Go(e, "install", "finish")
  /\ needSleep' = FALSE
  /\ learnIndex' = blevel
  /\ deleted' = deleted \cup {oldBlevel}
  /\ oldBlevel' = blevel
  /\ UNCHANGED <<status, blevel, content, valid, size, prepared, complete, moved,
                 permitDelete, sleeped, clientVars>>

(* Under the exclusive alevel_lock_: learn_index_ and old_blevel_ are      *)
(* deleted and replaced.  The lock keeps out only those who take it.       *)
Install(e) ==
  /\ Go(e, "install", "finish")
  /\ \A c \in Clients : ~ HoldsShared(c)
  /\ needSleep' = FALSE
  /\ learnIndex' = blevel
  /\ deleted' = deleted \cup {oldBlevel}
  /\ oldBlevel' = blevel
  /\ UNCHANGED <<status, blevel, content, valid, size, prepared, complete, moved,
                 permitDelete, sleeped, clientVars>>

EndExpansion(e) ==
  /\ Go(e, "finish", "permit")
  /\ status' = "USING_COMBO_TREE"
  /\ UNCHANGED <<treeVars, levelVars, permitDelete, sleepVars, clientVars>>

(* permit_delete_.store(true); the thread ends. *)
PermitDelete(e) ==
  /\ Go(e, "permit", "none")
  /\ permitDelete' = TRUE
  /\ UNCHANGED <<status, treeVars, levelVars, sleepVars, clientVars>>

ExpandComboTree(e) ==
  \/ StartExpansion(e)
  \/ GiveUp(e)
  \/ MarkExpanding(e)
  \/ NewBLevel(e)
  \/ PrepareExpansion(e)
  \/ BeginExpansion(e)
  \/ ReleaseSleepers(e)
  \/ NotifySleepers(e)
  \/ MoveKey(e)
  \/ FinishExpansion(e)
  \/ Install(e)
  \/ EndExpansion(e)
  \/ PermitDelete(e)

-----------------------------------------------------------------------------
(* Clients. *)

Key_(c)      == request[c].key
Is(c, op)    == request[c] # None /\ request[c].op = op
At(c, from)  == pc[c] = from
Goto(c, to)  == pc' = [pc EXCEPT ![c] = to]

Return(c) ==
  /\ Goto(c, "idle")
  /\ request' = [request EXCEPT ![c] = None]

Call(c) ==
  /\ At(c, "idle")
  /\ calls[c] < MaxCalls
  /\ \E q \in Requests : request' = [request EXCEPT ![c] = q]
  /\ calls' = [calls EXCEPT ![c] = @ + 1]
  /\ Goto(c, "route")
  /\ UNCHANGED <<status, treeVars, levelVars, permitDelete, sleepVars, expPc, level>>

(* learn_index_-> in state USING_COMBO_TREE: the pointer is read without    *)
(* alevel_lock_, the level behind it is used after the search in it.       *)
RouteUsing(c) ==
  /\ At(c, "route")
  /\ status = "USING_COMBO_TREE"
  /\ level' = [level EXCEPT ![c] = learnIndex]
  /\ Goto(c, "using")
  /\ UNCHANGED <<status, treeVars, levelVars, permitDelete, sleepVars, expPc, request,
                 calls>>

(* A Put or Update during an expansion finds need_sleep_ set.  One that    *)
(* finds it clear in PREPARE_EXPANDING, and a Get or Delete in either      *)
(* state, only looks at status_ again.                                     *)
RouteSleep(c) ==
  /\ At(c, "route")
  /\ Is(c, "Put") \/ Is(c, "Update")
  /\ status # "USING_COMBO_TREE"
  /\ needSleep
  /\ Goto(c, "lock")
  /\ UNCHANGED <<status, treeVars, levelVars, permitDelete, sleepVars, expPc, request,
                 level, calls>>

(* expand_wait_lock is held from the test of need_sleep_ to the wait. *)
MutexFree == \A c \in Clients : pc[c] # "wait"

(* Mutant: no second look under the mutex. *)
DecideSleepUnchecked(c) ==
  /\ At(c, "lock")
  /\ MutexFree
  /\ sleeped' = sleeped + 1
  /\ needSleep' = (sleeped' # SleepLimit)
  /\ Goto(c, "wait")
  /\ UNCHANGED <<status, treeVars, levelVars, permitDelete, expPc, request, level, calls>>

DecideSleep(c) ==
  /\ At(c, "lock")
  /\ MutexFree
  /\ IF needSleep /\ sleeped < SleepLimit
       THEN /\ sleeped' = sleeped + 1
            /\ needSleep' = (sleeped' # SleepLimit)
            /\ Goto(c, "wait")
       ELSE /\ Goto(c, "route")
            /\ UNCHANGED sleepVars
  /\ UNCHANGED <<status, treeVars, levelVars, permitDelete, expPc, request, level, calls>>

(* expand_wait_cv.wait without a predicate. *)
Wait(c) ==
  /\ At(c, "wait")
  /\ Goto(c, "asleep")
  /\ UNCHANGED <<status, treeVars, levelVars, permitDelete, sleepVars, expPc, request,
                 level, calls>>

(* A condition variable may wake a thread at any time. *)
SpuriousWakeup(c) ==
  /\ At(c, "asleep")
  /\ Goto(c, "route")
  /\ UNCHANGED <<status, treeVars, levelVars, permitDelete, sleepVars, expPc, request,
                 level, calls>>

(* IsKeyExpanded on blevel_.  A level of the next expansion may not have   *)
(* its ranges_ yet: what a search in them answers is undefined.            *)
CheckExpanded(c) ==
  /\ At(c, "route")
  /\ Is(c, "Put") \/ Is(c, "Update")
  /\ status = "COMBO_TREE_EXPANDING"
  /\ ~ needSleep
  /\ Goto(c, "check")
  /\ UNCHANGED <<status, treeVars, levelVars, permitDelete, sleepVars, expPc, request,
                 level, calls>>

IsKeyExpanded(c) ==
  /\ At(c, "check")
  /\ level' = [level EXCEPT ![c] = blevel]
  /\ IF blevel \notin prepared THEN Goto(c, "fault")
     ELSE Goto(c, IF Key_(c) \in moved THEN "range" ELSE "lockShared")
  /\ UNCHANGED <<status, treeVars, levelVars, permitDelete, sleepVars, expPc, request,
                 calls>>

(* The effect of BLevel::Put_ on level g. *)
Store(c, g) ==
  /\ content' = [content EXCEPT ![g][Key_(c)] = request[c].value]
  /\ size' = [size EXCEPT ![g] = (@ + 1) % WordSize]
  /\ UNCHANGED <<valid, prepared, complete, deleted, moved>>

(* blevel_->PutRange: blevel_ is read again; the range and the end found   *)
(* in one level lead anywhere in another.                                  *)
PutRange(c) ==
  /\ At(c, "range")
  /\ Is(c, "Put")
  /\ IF blevel = level[c]
       THEN Store(c, blevel) /\ Return(c)
       ELSE Goto(c, "fault") /\ UNCHANGED <<levelVars, request>>
  /\ UNCHANGED <<status, treeVars, permitDelete, sleepVars, expPc, level, calls>>

(* shared_lock(alevel_lock_), then the read of learn_index_. *)
LockShared(c) ==
  /\ At(c, "lockShared")
  /\ level' = [level EXCEPT ![c] = learnIndex]
  /\ Goto(c, "shared")
  /\ UNCHANGED <<status, treeVars, levelVars, permitDelete, sleepVars, expPc, request,
                 calls>>

(* Mutant: status::Failed counts as done. *)
PutSharedUnchecked(c) ==
  /\ At(c, "shared")
  /\ Is(c, "Put")
  /\ IF Key_(c) \in valid[level[c]] THEN Store(c, level[c])
                                    ELSE UNCHANGED levelVars
  /\ Return(c)
  /\ UNCHANGED <<status, treeVars, permitDelete, sleepVars, expPc, level, calls>>

(* Mutant: status::Failed is retried without letting go of the lock. *)
PutSharedHolding(c) ==
  /\ At(c, "shared")
  /\ Is(c, "Put")
  /\ IF Key_(c) \in valid[level[c]]
       THEN Store(c, level[c]) /\ Return(c)
       ELSE UNCHANGED <<levelVars, pc, request>>
  /\ UNCHANGED <<status, treeVars, permitDelete, sleepVars, expPc, level, calls>>

(* learn_index_->Put under the lock: status::Failed goes round again. *)
PutShared(c) ==
  /\ At(c, "shared")
  /\ Is(c, "Put")
  /\ IF Key_(c) \in valid[level[c]]
       THEN Store(c, level[c]) /\ Return(c)
       ELSE Goto(c, "route") /\ UNCHANGED <<levelVars, request>>
  /\ UNCHANGED <<status, treeVars, permitDelete, sleepVars, expPc, level, calls>>

(* The level that the client came for is gone. *)
UseDeleted(c) ==
  /\ At(c, "using")
  /\ level[c] \in deleted
  /\ Goto(c, "fault")
  /\ UNCHANGED <<status, treeVars, levelVars, permitDelete, sleepVars, expPc, request,
                 level, calls>>

(* Put in USING_COMBO_TREE: status::Failed is not looked at. *)
PutUsing(c) ==
  /\ At(c, "using")
  /\ Is(c, "Put")
  /\ level[c] \notin deleted
  /\ IF Key_(c) \in valid[level[c]] THEN Store(c, level[c])
                                    ELSE UNCHANGED levelVars
  /\ Goto(c, "size")
  /\ UNCHANGED <<status, treeVars, permitDelete, sleepVars, expPc, request, level, calls>>

(* Entries() of a level that is not complete is 0. *)
NeedsExpansion ==
  size[learnIndex] >= (IF blevel \in complete THEN Limit[blevel] ELSE 0)

(* The rest of that Put: if the level is full, start a detached thread. *)
PutReturn(c) ==
  /\ At(c, "size")
  /\ \/ /\ NeedsExpansion
        /\ \E e \in Expanders : Go(e, "none", "start")
     \/ /\ NeedsExpansion => \A e \in Expanders : expPc[e] # "none"
        /\ UNCHANGED expPc
  /\ Return(c)
  /\ UNCHANGED <<status, treeVars, levelVars, permitDelete, sleepVars, level, calls>>

(* Get answers false for a key in an invalid entry, as for an absent one. *)
Found(c) ==
  /\ Key_(c) \in valid[level[c]]
  /\ content[level[c]][Key_(c)] # None

GetUsing(c) ==
  /\ At(c, "using")
  /\ Is(c, "Get")
  /\ level[c] \notin deleted
  /\ Return(c)
  /\ UNCHANGED <<status, treeVars, levelVars, permitDelete, sleepVars, expPc, level, calls>>

(* Delete in a valid entry lowers size_ whether or not the key was there. *)
DeleteUsing(c) ==
  /\ At(c, "using")
  /\ Is(c, "Delete")
  /\ level[c] \notin deleted
  /\ IF Key_(c) \in valid[level[c]]
       THEN /\ content' = [content EXCEPT ![level[c]][Key_(c)] = None]
            /\ size' = [size EXCEPT ![level[c]] = (@ - 1) % WordSize]
            /\ UNCHANGED <<valid, prepared, complete, deleted, moved>>
       ELSE UNCHANGED levelVars
  /\ Return(c)
  /\ UNCHANGED <<status, treeVars, permitDelete, sleepVars, expPc, level, calls>>

(* BLevel::Update_ on level g overwrites a value and leaves size_ alone;   *)
(* on an invalid entry, or an absent key (which CLevel::Update asserts     *)
(* against in a debug build), it answers false.                            *)
Overwrite(c, g) ==
  /\ content' = [content EXCEPT ![g][Key_(c)] = request[c].value]
  /\ UNCHANGED <<valid, size, prepared, complete, deleted, moved>>

(* learn_index_->Update, under alevel_lock_ or not; false goes round again,*)
(* for an absent key for ever.                                             *)
UpdateLevel(c) ==
  /\ At(c, "using") \/ At(c, "shared")
  /\ Is(c, "Update")
  /\ level[c] \notin deleted
  /\ IF Found(c)
       THEN Overwrite(c, level[c]) /\ Return(c)
       ELSE Goto(c, "route") /\ UNCHANGED <<levelVars, request>>
  /\ UNCHANGED <<status, treeVars, permitDelete, sleepVars, expPc, level, calls>>

(* blevel_->UpdateRange gives range and end to Find_, which takes them for *)
(* positions in the level: the entry it ends at may be the key's, another  *)
(* one, without the key, or one that is not there yet.                     *)
UpdateRange(c) ==
  /\ At(c, "range")
  /\ Is(c, "Update")
  /\ \/ /\ blevel = level[c] /\ content[blevel][Key_(c)] # None
        /\ Overwrite(c, blevel) /\ Return(c)
     \/ Goto(c, "route") /\ UNCHANGED <<levelVars, request>>
     \/ Goto(c, "fault") /\ UNCHANGED <<levelVars, request>>
  /\ UNCHANGED <<status, treeVars, permitDelete, sleepVars, expPc, level, calls>>

Update(c) == UpdateLevel(c) \/ UpdateRange(c)

Step(c) ==
  \/ RouteUsing(c)
  \/ RouteSleep(c)
  \/ DecideSleep(c)
  \/ Wait(c)
  \/ CheckExpanded(c)
  \/ IsKeyExpanded(c)
  \/ PutRange(c)
  \/ LockShared(c)
  \/ PutShared(c)
  \/ UseDeleted(c)
  \/ PutUsing(c)
  \/ PutReturn(c)
  \/ Update(c)
  \/ GetUsing(c)
  \/ DeleteUsing(c)

-----------------------------------------------------------------------------
(* The bounded run is over: every client is out of calls or has faulted,   *)
(* and the detached threads have ended or come up against MaxExpansions.   *)
Terminated ==
  /\ \A c \in Clients : pc[c] = "fault" \/ (pc[c] = "idle" /\ calls[c] = MaxCalls)
  /\ \A e \in Expanders : expPc[e] = "none" \/ (expPc[e] = "start" /\ status = "USING_COMBO_TREE")
  /\ UNCHANGED vars

Next ==
  \/ \E e \in Expanders : ExpandComboTree(e)
  \/ \E c \in Clients : Call(c) \/ Step(c) \/ SpuriousWakeup(c)
  \/ Terminated

Spec == Init /\ [][Next]_vars

(* Every thread keeps running while it can; no one is owed a spurious      *)
(* wakeup or another call.                                                 *)
FairSpec ==
  /\ Spec
  /\ \A e \in Expanders : WF_vars(ExpandComboTree(e))
  /\ \A c \in Clients : WF_vars(Step(c))

-----------------------------------------------------------------------------
(* Type invariant: the shape of the tree and of its threads. *)
TypeOK ==
  /\ status \in {"USING_COMBO_TREE", "PREPARE_EXPANDING", "COMBO_TREE_EXPANDING"}
  /\ learnIndex \in Level /\ blevel \in Level /\ oldBlevel \in Level
  /\ content \in [Level -> Content]
  /\ valid \in [Level -> SUBSET Key]
  /\ size \in [Level -> 0 .. WordSize - 1]
  /\ prepared \subseteq Level /\ complete \subseteq Level /\ deleted \subseteq Level
  /\ moved \subseteq Key
  /\ permitDelete \in BOOLEAN /\ needSleep \in BOOLEAN
  /\ sleeped \in 0 .. SleepLimit
  /\ expPc \in [Expanders -> {"none", "start", "mark", "new", "prepare", "prepared",
                              "release", "notify", "expand", "install", "finish",
                              "permit"}]
  /\ pc \in [Clients -> {"idle", "route", "using", "lock", "wait", "asleep", "check",
                         "range", "lockShared", "shared", "size", "fault"}]
  /\ request \in [Clients -> Requests \cup {None}]
  /\ level \in [Clients -> Level]
  /\ calls \in [Clients -> 0 .. MaxCalls]

-----------------------------------------------------------------------------
(* What the tree holds for k: the old level's value until the key moves. *)
Current(k) ==
  IF k \in valid[oldBlevel] THEN content[oldBlevel][k] ELSE content[blevel][k]

(* The step leaves the value of c's request in the tree. *)
Stored(c) ==
  \A k \in Key : request[c].key = k => Current(k)' = request[c].value

(***************************************************************************)
(* UsingComplete: a client that sees USING_COMBO_TREE, and touches         *)
(* learn_index_ with no lock on the strength of it, finds at that moment   *)
(* the newest level, complete and wholly valid, however many threads try   *)
(* to expand (combotree.cc:201-234, 293-294).                              *)
(***************************************************************************)
UsingComplete ==
  status = "USING_COMBO_TREE" =>
    /\ learnIndex = blevel /\ oldBlevel = blevel
    /\ valid[blevel] = Key
    /\ blevel \in complete \ deleted

(***************************************************************************)
(* OneExpander: each full Put may start a detached thread, and a thread    *)
(* started long ago may run only now; the compare-exchange lets one at a   *)
(* time past (combotree.cc:181-183, 300-306).                              *)
(***************************************************************************)
Expanding(e) == expPc[e] \notin {"none", "start", "permit"}

OneExpander ==
  \A e, f \in Expanders : Expanding(e) /\ Expanding(f) => e = f

(***************************************************************************)
(* LockedPutLive: a Put that came through alevel_lock_ works on the level  *)
(* learn_index_ leads to, which nobody deletes under it, even if the       *)
(* expansion it was routed in is over (combotree.cc:221-228, 348-350).     *)
(***************************************************************************)
LockedPutLive ==
  \A c \in Clients :
    pc[c] = "shared" => level[c] = learnIndex /\ level[c] \notin deleted

(***************************************************************************)
(* ExpansionKeeps: no step of ExpandComboTree_, neither the moves nor the  *)
(* exchange of the levels, changes what the tree holds for a key; only a   *)
(* client's own operation on that key does (combotree.cc:217-228).         *)
(***************************************************************************)
OnlyClientsWrite ==
  \A k \in Key :
    Current(k)' # Current(k) =>
      \E c \in Clients : /\ pc[c] \in {"using", "range", "shared"}
                        /\ pc'[c] # pc[c]
                        /\ request[c].key = k

ExpansionKeeps == [][OnlyClientsWrite]_vars

(***************************************************************************)
(* RoutedPutApplied: a Put routed in COMBO_TREE_EXPANDING that returns has *)
(* stored its value where the tree will look for it, though the expansion  *)
(* may have ended, and another begun, since it was routed                  *)
(* (combotree.cc:342-354).                                                 *)
(***************************************************************************)
RoutedApplied ==
  \A c \in Clients :
    pc[c] \in {"range", "shared"} /\ pc'[c] = "idle" => Stored(c)

RoutedPutApplied == [][RoutedApplied]_vars

(***************************************************************************)
(* ExpansionsEnd: neither sleeping writers nor those that hold             *)
(* alevel_lock_ keep an expansion from its end (combotree.cc:179-236).     *)
(***************************************************************************)
ExpansionsEnd == status # "USING_COMBO_TREE" ~> status = "USING_COMBO_TREE"

-----------------------------------------------------------------------------
(* What the repository's tests take for granted and the code does not do.  *)

(***************************************************************************)
(* PutStored: once a Put is past its level, its value is in the tree.  In  *)
(* USING_COMBO_TREE the answer status::Failed of an entry that has moved   *)
(* in the meantime is dropped (combotree.cc:294-309).                      *)
(***************************************************************************)
PutApplied ==
  \A c \in Clients :
    pc[c] = "using" /\ pc'[c] = "size" => Stored(c)

PutStored == [][PutApplied]_vars

(***************************************************************************)
(* GetFinds: a Get that returns "not found" did so for an absent key.      *)
(* After an entry has moved, Get still answers from it (blevel.h:563).     *)
(***************************************************************************)
GetAnswers ==
  \A c \in Clients :
    pc[c] = "using" /\ pc'[c] = "idle" /\ request[c].op = "Get" /\ ~ Found(c) =>
      Current(request[c].key) = None

GetFinds == [][GetAnswers]_vars

(***************************************************************************)
(* NoFault: no client works on a level that is deleted, or not prepared    *)
(* (combotree.cc:202, 223-226, 294, 345-346).                              *)
(***************************************************************************)
NoFault == \A c \in Clients : pc[c] # "fault"

(***************************************************************************)
(* PutsReturn: a client that goes to sleep for an expansion wakes up again *)
(* (combotree.cc:212-215, 311-325).                                        *)
(***************************************************************************)
PutsReturn == \A c \in Clients : pc[c] # "idle" ~> pc[c] \in {"idle", "fault"}

(***************************************************************************)
(* DeleteWhenIdle: IsExpanding, and with it the destructor, take           *)
(* permit_delete_ for "no expansion is running" (combotree.h:56-58,        *)
(* combotree.cc:67-75).                                                    *)
(***************************************************************************)
DeleteWhenIdle == permitDelete => \A e \in Expanders : ~ Expanding(e)

=============================================================================
