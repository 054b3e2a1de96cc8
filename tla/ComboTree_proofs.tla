---------------------------- MODULE ComboTree_proofs ----------------------------
(***************************************************************************)
(* Theorems about ComboTree for every set of clients and detached threads, *)
(* every sleep limit and any number of expansions.                         *)
(***************************************************************************)
EXTENDS ComboTree, TLAPS, FiniteSetTheorems

(* The levels: what is deleted is behind, what is to come is untouched.    *)
Levels ==
  /\ learnIndex = oldBlevel
  /\ oldBlevel <= blevel
  /\ \A g \in deleted : g < oldBlevel
  /\ \A g \in Level : g > oldBlevel => valid[g] = Key
  /\ \A c \in Clients : level[c] <= blevel
  /\ \A c \in Clients : pc[c] = "shared" => level[c] = learnIndex

(* No expansion is under way, or its levels are not yet, or no longer, two.*)
Settled ==
  /\ blevel = oldBlevel
  /\ valid[oldBlevel] = Key
  /\ oldBlevel \in complete

(* What holds while the one expander is at a given place. *)
Stages(e) ==
  /\ expPc[e] \in {"mark", "new"} =>
       Settled /\ status = "PREPARE_EXPANDING" /\ blevel < MaxExpansions + 1
  /\ expPc[e] \in {"prepare", "prepared", "release", "notify", "expand", "install"} =>
       blevel = oldBlevel + 1
  /\ expPc[e] = "prepare" => valid[oldBlevel] = Key /\ blevel \notin prepared
  /\ expPc[e] \in {"prepare", "prepared"} => status = "PREPARE_EXPANDING"
  /\ expPc[e] \in {"release", "notify", "expand", "install", "finish"} =>
       status = "COMBO_TREE_EXPANDING"
  /\ expPc[e] \in {"prepared", "release", "notify", "expand", "install"} =>
       valid[oldBlevel] = Key \ moved
  /\ expPc[e] = "install" => moved = Key /\ blevel \in complete
  /\ expPc[e] = "finish" => Settled

Expansion ==
  /\ OneExpander
  /\ \A e \in Expanders : Stages(e)
  /\ status = "USING_COMBO_TREE" => Settled /\ \A e \in Expanders : ~ Expanding(e)
  /\ (\A e \in Expanders : ~ Expanding(e)) => Settled
  /\ \A g \in prepared : g <= blevel

(* A writer that was told "expanded" finds its key's new home. *)
Routed ==
  \A c \in Clients :
    pc[c] = "range" /\ level[c] = blevel =>
      oldBlevel = blevel \/ Key_(c) \notin valid[oldBlevel]

IInv == TypeOK /\ Levels /\ Expansion /\ Routed

-----------------------------------------------------------------------------
(* Type correctness. *)

LEMMA WordTyped == \A n \in Int : n % WordSize \in 0 .. WordSize - 1
BY ComboTreeAssumption

LEMMA TypeInit == Init => TypeOK
<1> SUFFICES ASSUME Init PROVE TypeOK
  OBVIOUS
<1>1. 1 \in Level /\ 0 \in 0 .. MaxCalls /\ 0 \in 0 .. SleepLimit /\ 0 \in 0 .. WordSize - 1
  BY ComboTreeAssumption DEF Level
<1>2. \A c \in Content : Cardinality({k \in Key : c[k] # None}) \in 0 .. WordSize - 1
  <2> TAKE c \in Content
  <2>1. {k \in Key : c[k] # None} \subseteq Key
    OBVIOUS
  <2>2. /\ Cardinality({k \in Key : c[k] # None}) <= Cardinality(Key)
        /\ IsFiniteSet({k \in Key : c[k] # None})
    BY <2>1, ComboTreeAssumption, FS_Subset
  <2>3. Cardinality({k \in Key : c[k] # None}) \in Nat /\ Cardinality(Key) \in Nat
    BY <2>2, ComboTreeAssumption, FS_CardinalityType
  <2>4. QED
    BY <2>2, <2>3, ComboTreeAssumption
<1>3. [k \in Key |-> None] \in Content
  BY DEF Content
<1>4. content \in [Level -> Content] /\ size \in [Level -> 0 .. WordSize - 1]
  BY <1>1, <1>2, <1>3 DEF Init
<1>5. QED
  BY <1>1, <1>4 DEF Init, TypeOK

(* The effect on the levels of a write to one key. *)
LEMMA CellTyped ==
  ASSUME TypeOK, NEW g \in Level, NEW k \in Key, NEW v \in Value \cup {None}
  PROVE  [content EXCEPT ![g][k] = v] \in [Level -> Content]
<1>1. content[g] \in Content
  BY DEF TypeOK
<1>2. [content[g] EXCEPT ![k] = v] \in Content
  BY <1>1 DEF Content
<1>3. QED
  BY <1>2 DEF TypeOK

LEMMA SizeTyped ==
  ASSUME TypeOK, NEW g \in Level, NEW d \in {-1, 1}
  PROVE  /\ [size EXCEPT ![g] = (@ + 1) % WordSize] \in [Level -> 0 .. WordSize - 1]
         /\ [size EXCEPT ![g] = (@ - 1) % WordSize] \in [Level -> 0 .. WordSize - 1]
<1>1. size[g] \in Int
  BY DEF TypeOK
<1>2. /\ (size[g] + 1) % WordSize \in 0 .. WordSize - 1
      /\ (size[g] - 1) % WordSize \in 0 .. WordSize - 1
  BY <1>1, WordTyped
<1>3. QED
  BY <1>2 DEF TypeOK

LEMMA RequestTyped ==
  ASSUME TypeOK, NEW c \in Clients, request[c] # None
  PROVE  Key_(c) \in Key /\ request[c].value \in Value
BY ComboTreeAssumption DEF TypeOK, Key_

ClientPlaces == {"idle", "route", "using", "lock", "wait", "asleep", "check",
                 "range", "lockShared", "shared", "size", "fault"}

LEMMA ReturnTyped ==
  ASSUME TypeOK, NEW c \in Clients, Return(c)
  PROVE  pc' \in [Clients -> ClientPlaces] /\ request' \in [Clients -> Requests \cup {None}]
BY DEF TypeOK, Return, Goto, ClientPlaces

LEMMA GotoTyped ==
  ASSUME TypeOK, NEW c \in Clients, NEW p \in ClientPlaces, Goto(c, p)
  PROVE  pc' \in [Clients -> ClientPlaces]
BY DEF TypeOK, Goto, ClientPlaces

LEMMA StoreTyped ==
  ASSUME TypeOK, NEW c \in Clients, NEW g \in Level, request[c] # None, Store(c, g)
  PROVE  /\ content' \in [Level -> Content]
         /\ size' \in [Level -> 0 .. WordSize - 1]
         /\ UNCHANGED <<valid, prepared, complete, deleted, moved>>
BY CellTyped, SizeTyped, RequestTyped DEF Store

LEMMA OverwriteTyped ==
  ASSUME TypeOK, NEW c \in Clients, NEW g \in Level, request[c] # None, Overwrite(c, g)
  PROVE  /\ content' \in [Level -> Content]
         /\ UNCHANGED <<valid, size, prepared, complete, deleted, moved>>
BY CellTyped, RequestTyped DEF Overwrite

LEMMA StepTypeExpander ==
  ASSUME TypeOK, Levels, Expansion, NEW e \in Expanders, ExpandComboTree(e)
  PROVE  TypeOK'
<1> USE DEF TypeOK, Go, NotifyAll, treeVars, levelVars, sleepVars, clientVars
<1>1. CASE StartExpansion(e) \/ GiveUp(e)
  BY <1>1 DEF StartExpansion, GiveUp
<1>10. CASE MarkExpanding(e)
  <2>1. 1 \in 0 .. SleepLimit
    BY ComboTreeAssumption
  <2>2. QED
    BY <1>10, <2>1 DEF MarkExpanding
<1>2. CASE NewBLevel(e)
  <2>1. oldBlevel + 1 \in Level
    BY <1>2, ComboTreeAssumption DEF NewBLevel, Expansion, Stages, Settled, Level
  <2>2. QED
    BY <1>2, <2>1 DEF NewBLevel
<1>3. CASE PrepareExpansion(e)
  BY <1>3 DEF PrepareExpansion
<1>4. CASE BeginExpansion(e) \/ ReleaseSleepers(e) \/ NotifySleepers(e)
  BY <1>4 DEF BeginExpansion, ReleaseSleepers, NotifySleepers
<1>5. CASE MoveKey(e)
  <2>1. PICK k \in Key \ moved :
          /\ content' = [content EXCEPT ![blevel][k] = content[oldBlevel][k]]
          /\ size' = IF content[oldBlevel][k] = None
                      THEN size
                      ELSE [size EXCEPT ![blevel] = (@ + 1) % WordSize]
          /\ valid' = [valid EXCEPT ![oldBlevel] = @ \ {k}]
          /\ moved' = moved \cup {k}
    BY <1>5 DEF MoveKey
  <2>2. content[oldBlevel][k] \in Value \cup {None}
    <3>1. content[oldBlevel] \in Content
      OBVIOUS
    <3>2. QED
      BY <3>1 DEF Content
  <2>3. content' \in [Level -> Content]
    BY <2>1, <2>2, CellTyped
  <2>4. size' \in [Level -> 0 .. WordSize - 1]
    BY <2>1, SizeTyped
  <2>5. valid' \in [Level -> SUBSET Key] /\ moved' \in SUBSET Key
    BY <2>1
  <2>6. QED
    BY <1>5, <2>3, <2>4, <2>5 DEF MoveKey
<1>6. CASE FinishExpansion(e)
  BY <1>6 DEF FinishExpansion
<1>7. CASE Install(e)
  BY <1>7 DEF Install
<1>8. CASE EndExpansion(e) \/ PermitDelete(e)
  BY <1>8 DEF EndExpansion, PermitDelete
<1>9. QED
  BY <1>1, <1>2, <1>3, <1>4, <1>5, <1>6, <1>7, <1>8, <1>10 DEF ExpandComboTree

LEMMA StepTypeClient ==
  ASSUME TypeOK, NEW c \in Clients, Call(c) \/ Step(c) \/ SpuriousWakeup(c)
  PROVE  TypeOK'
<1> USE DEF At, treeVars, levelVars, sleepVars, clientVars
<1>1. CASE Call(c)
  <2>1. calls[c] + 1 \in 0 .. MaxCalls
    BY <1>1, ComboTreeAssumption DEF Call, TypeOK
  <2>2. QED
    BY <1>1, <2>1 DEF Call, TypeOK, Goto
<1>2. CASE RouteUsing(c) \/ RouteSleep(c) \/ Wait(c) \/ SpuriousWakeup(c) \/ CheckExpanded(c)
  BY <1>2 DEF RouteUsing, RouteSleep, Wait, SpuriousWakeup, CheckExpanded, TypeOK, Goto
<1>3. CASE DecideSleep(c)
  <2>1. CASE needSleep /\ sleeped < SleepLimit
    BY <1>3, <2>1, ComboTreeAssumption DEF DecideSleep, TypeOK, Goto
  <2>2. CASE ~ (needSleep /\ sleeped < SleepLimit)
    BY <1>3, <2>2 DEF DecideSleep, TypeOK, Goto
  <2>3. QED
    BY <2>1, <2>2
<1>4. CASE IsKeyExpanded(c)
  BY <1>4 DEF IsKeyExpanded, TypeOK, Goto
<1>5. CASE LockShared(c) \/ UseDeleted(c)
  BY <1>5 DEF LockShared, UseDeleted, TypeOK, Goto
<1>6. CASE PutRange(c)
  <2>1. blevel \in Level /\ request[c] # None
    BY <1>6 DEF TypeOK, PutRange, Is
  <2>2. CASE Store(c, blevel) /\ Return(c)
    BY <1>6, <2>1, <2>2, StoreTyped, ReturnTyped DEF PutRange, TypeOK, ClientPlaces
  <2>3. CASE Goto(c, "fault") /\ UNCHANGED <<levelVars, request>>
    BY <1>6, <2>3 DEF PutRange, TypeOK, Goto
  <2>4. QED
    BY <1>6, <2>2, <2>3 DEF PutRange
<1>7. CASE PutShared(c)
  <2>1. level[c] \in Level /\ request[c] # None
    BY <1>7 DEF TypeOK, PutShared, Is
  <2>2. CASE Store(c, level[c]) /\ Return(c)
    BY <1>7, <2>1, <2>2, StoreTyped, ReturnTyped DEF PutShared, TypeOK, ClientPlaces
  <2>3. CASE Goto(c, "route") /\ UNCHANGED <<levelVars, request>>
    BY <1>7, <2>3 DEF PutShared, TypeOK, Goto
  <2>4. QED
    BY <1>7, <2>2, <2>3 DEF PutShared
<1>8. CASE PutUsing(c)
  <2>1. level[c] \in Level /\ request[c] # None
    BY <1>8 DEF TypeOK, PutUsing, Is
  <2>2. CASE Store(c, level[c])
    BY <1>8, <2>1, <2>2, StoreTyped DEF PutUsing, TypeOK, Goto
  <2>3. CASE UNCHANGED levelVars
    BY <1>8, <2>3 DEF PutUsing, TypeOK, Goto
  <2>4. QED
    BY <1>8, <2>2, <2>3 DEF PutUsing
<1>9. CASE PutReturn(c)
  <2>1. expPc' \in [Expanders -> {"none", "start", "mark", "new", "prepare", "prepared",
                     "release", "notify", "expand", "install", "finish", "permit"}]
    BY <1>9 DEF PutReturn, TypeOK, Go
  <2>2. Return(c)
    BY <1>9 DEF PutReturn
  <2>3. QED
    BY <1>9, <2>1, <2>2, ReturnTyped DEF PutReturn, TypeOK, ClientPlaces
<1>10. CASE GetUsing(c)
  BY <1>10, ReturnTyped DEF GetUsing, TypeOK, ClientPlaces
<1>11. CASE DeleteUsing(c)
  <2>1. level[c] \in Level /\ Key_(c) \in Key
    BY <1>11, RequestTyped DEF TypeOK, DeleteUsing, Is
  <2>2. content' \in [Level -> Content]
    <3>1. [content EXCEPT ![level[c]][Key_(c)] = None] \in [Level -> Content]
      BY <2>1, CellTyped
    <3>2. content \in [Level -> Content]
      BY DEF TypeOK
    <3>3. QED
      BY <1>11, <3>1, <3>2 DEF DeleteUsing
  <2>3. size' \in [Level -> 0 .. WordSize - 1]
    BY <1>11, <2>1, SizeTyped DEF DeleteUsing, TypeOK
  <2>4. UNCHANGED <<valid, prepared, complete, deleted, moved>> /\ Return(c)
    BY <1>11 DEF DeleteUsing
  <2>5. QED
    BY <1>11, <2>2, <2>3, <2>4, ReturnTyped DEF DeleteUsing, TypeOK, ClientPlaces
<1>12. CASE UpdateLevel(c)
  <2>1. level[c] \in Level /\ request[c] # None
    BY <1>12 DEF TypeOK, UpdateLevel, Is
  <2>2. CASE Overwrite(c, level[c]) /\ Return(c)
    BY <1>12, <2>1, <2>2, OverwriteTyped, ReturnTyped DEF UpdateLevel, TypeOK, ClientPlaces
  <2>3. CASE Goto(c, "route") /\ UNCHANGED <<levelVars, request>>
    BY <1>12, <2>3 DEF UpdateLevel, TypeOK, Goto
  <2>4. QED
    BY <1>12, <2>2, <2>3 DEF UpdateLevel
<1>13. CASE UpdateRange(c)
  <2>1. blevel \in Level /\ request[c] # None
    BY <1>13 DEF TypeOK, UpdateRange, Is
  <2>2. CASE Overwrite(c, blevel) /\ Return(c)
    BY <1>13, <2>1, <2>2, OverwriteTyped, ReturnTyped DEF UpdateRange, TypeOK, ClientPlaces
  <2>3. CASE (Goto(c, "route") \/ Goto(c, "fault")) /\ UNCHANGED <<levelVars, request>>
    BY <1>13, <2>3 DEF UpdateRange, TypeOK, Goto
  <2>4. QED
    BY <1>13, <2>2, <2>3 DEF UpdateRange
<1>14. QED
  BY <1>1, <1>2, <1>3, <1>4, <1>5, <1>6, <1>7, <1>8, <1>9, <1>10, <1>11, <1>12, <1>13
     DEF Step, Update

-----------------------------------------------------------------------------
(* The levels and the one expander. *)

LEMMA StepExpander ==
  ASSUME IInv, TypeOK', NEW e \in Expanders, ExpandComboTree(e)
  PROVE  Levels' /\ Expansion' /\ Routed'
<1> USE DEF Go, NotifyAll, treeVars, levelVars, sleepVars, clientVars
<1>0. TypeOK /\ Levels /\ Expansion /\ Routed /\ Stages(e)
  BY DEF IInv, Expansion
<1>1. \A f \in Expanders \ {e} : expPc'[f] = expPc[f]
  BY <1>0 DEF ExpandComboTree, StartExpansion, GiveUp, MarkExpanding, NewBLevel,
     PrepareExpansion, BeginExpansion, ReleaseSleepers, NotifySleepers, MoveKey,
     FinishExpansion, Install, EndExpansion, PermitDelete, TypeOK
(* An expander at work is the only one, so only its own stage matters.     *)
<1>2. ASSUME Expanding(e) \/ status = "USING_COMBO_TREE"
      PROVE  \A f \in Expanders \ {e} : ~ Expanding(f) /\ ~ Expanding(f)'
  BY <1>0, <1>1, <1>2 DEF Expansion, OneExpander, Expanding
<1>3. ASSUME Expanding(e) \/ status = "USING_COMBO_TREE",
             Stages(e)',
             status' = "USING_COMBO_TREE" => Settled' /\ ~ Expanding(e)',
             ~ Expanding(e)' => Settled',
             \A g \in prepared' : g <= blevel'
      PROVE  Expansion'
  <2>1. \A f \in Expanders \ {e} : Stages(f)'
    BY <1>2, <1>3 DEF Stages, Expanding
  <2>2. QED
    BY <1>2, <1>3, <2>1 DEF Expansion, OneExpander
<1> USE DEF TypeOK, Expanding, Level
<1>4. CASE StartExpansion(e)
  <2> USE <1>0 DEF StartExpansion, Expansion, Stages, Settled
  <2>1. Expansion'
    BY <1>3, <1>4
  <2>2. Levels' /\ Routed'
    BY <1>4 DEF Levels, Routed, Key_
  <2>3. QED
    BY <2>1, <2>2
<1>5. CASE GiveUp(e)
  <2> USE <1>0 DEF GiveUp
  <2>1. Expansion'
    <3>1. \A f \in Expanders : Expanding(f)' = Expanding(f)
      BY <1>5
    <3>2. \A f \in Expanders : Stages(f)'
      BY <1>1, <1>5 DEF Expansion, Stages, Settled
    <3>3. QED
      BY <1>5, <3>1, <3>2 DEF Expansion, OneExpander, Settled
  <2>2. Levels' /\ Routed'
    BY <1>5 DEF Levels, Routed, Key_
  <2>3. QED
    BY <2>1, <2>2
<1>6. CASE MarkExpanding(e) \/ BeginExpansion(e) \/ ReleaseSleepers(e)
  <2> USE <1>0 DEF MarkExpanding, BeginExpansion, ReleaseSleepers
  <2>1. Expansion'
    <3>1. CASE MarkExpanding(e)
      BY <1>3, <3>1 DEF Expansion, Stages, Settled
    <3>2. CASE BeginExpansion(e)
      BY <1>3, <3>2 DEF Expansion, Stages, Settled
    <3>3. CASE ReleaseSleepers(e)
      BY <1>3, <3>3 DEF Expansion, Stages, Settled
    <3>4. QED
      BY <1>6, <3>1, <3>2, <3>3
  <2>2. Levels' /\ Routed'
    BY <1>6 DEF Levels, Routed, Key_
  <2>3. QED
    BY <2>1, <2>2
<1>7. CASE NewBLevel(e)
  <2> USE <1>0 DEF NewBLevel, Stages, Settled
  <2>1. Expansion'
    BY <1>3, <1>7 DEF Expansion
  <2>2. Levels'
    BY <1>7 DEF Levels
  <2>3. \A c \in Clients : level'[c] # blevel'
    BY <1>7 DEF Levels
  <2>4. QED
    BY <2>1, <2>2, <2>3 DEF Routed
<1>8. CASE PrepareExpansion(e)
  <2> USE <1>0 DEF PrepareExpansion
  <2>1. Expansion'
    BY <1>3, <1>8 DEF Expansion, Stages, Settled
  <2>2. Levels' /\ Routed'
    BY <1>8 DEF Levels, Routed, Key_
  <2>3. QED
    BY <2>1, <2>2
<1>9. CASE NotifySleepers(e) \/ FinishExpansion(e)
  <2> USE <1>0 DEF NotifySleepers, FinishExpansion
  <2>1. Expansion'
    <3>1. CASE NotifySleepers(e)
      BY <1>3, <3>1 DEF Expansion, Stages, Settled
    <3>2. CASE FinishExpansion(e)
      BY <1>3, <3>2 DEF Expansion, Stages, Settled
    <3>3. QED
      BY <1>9, <3>1, <3>2
  <2>2. Levels' /\ Routed'
    BY <1>9 DEF Levels, Routed, Key_
  <2>3. QED
    BY <2>1, <2>2
<1>10. CASE MoveKey(e)
  <2> USE <1>0 DEF MoveKey
  <2>1. Expansion'
    BY <1>3, <1>10 DEF Expansion, Stages, Settled
  <2>2. Levels' /\ Routed'
    BY <1>10 DEF Levels, Routed, Key_
  <2>3. QED
    BY <2>1, <2>2
<1>11. CASE Install(e)
  <2> USE <1>0 DEF Install, Stages, Settled
  <2>1. valid[blevel] = Key
    BY <1>11 DEF Levels
  <2>2. Expansion'
    BY <1>3, <1>11, <2>1 DEF Expansion
  <2>3. Levels'
    BY <1>11 DEF Levels, HoldsShared
  <2>4. Routed'
    BY <1>11 DEF Routed
  <2>5. QED
    BY <2>2, <2>3, <2>4
<1>12. CASE EndExpansion(e)
  <2> USE <1>0 DEF EndExpansion
  <2>1. Expansion'
    BY <1>3, <1>12 DEF Expansion, Stages, Settled
  <2>2. Levels' /\ Routed'
    BY <1>12 DEF Levels, Routed, Key_
  <2>3. QED
    BY <2>1, <2>2
<1>13. CASE PermitDelete(e)
  <2> USE <1>0 DEF PermitDelete
  <2>1. Expansion'
    <3>1. \A f \in Expanders : Expanding(f)' = Expanding(f)
      BY <1>13
    <3>2. \A f \in Expanders : Stages(f)'
      BY <1>1, <1>13 DEF Expansion, Stages, Settled
    <3>3. QED
      BY <1>13, <3>1, <3>2 DEF Expansion, OneExpander, Settled
  <2>2. Levels' /\ Routed'
    BY <1>13 DEF Levels, Routed, Key_
  <2>3. QED
    BY <2>1, <2>2
<1>14. QED
  BY <1>4, <1>5, <1>6, <1>7, <1>8, <1>9, <1>10, <1>11, <1>12, <1>13 DEF ExpandComboTree

(* What the steps of clients leave alone. *)
LEMMA ClientKeeps ==
  ASSUME TypeOK, NEW c \in Clients, Call(c) \/ Step(c) \/ SpuriousWakeup(c)
  PROVE  /\ UNCHANGED <<status, treeVars, valid, prepared, complete, deleted, moved>>
         /\ \A d \in Clients \ {c} : /\ pc'[d] = pc[d]
                                     /\ request'[d] = request[d]
                                     /\ level'[d] = level[d]
         /\ \A e \in Expanders : Expanding(e)' \/ Expanding(e) => expPc'[e] = expPc[e]
<1> USE DEF treeVars, levelVars, sleepVars, clientVars, TypeOK, Goto, Return, Go, Expanding
<1>1. CASE Call(c) \/ RouteUsing(c) \/ RouteSleep(c) \/ Wait(c) \/ SpuriousWakeup(c)
  BY <1>1 DEF Call, RouteUsing, RouteSleep, Wait, SpuriousWakeup
<1>2. CASE CheckExpanded(c) \/ DecideSleep(c) \/ IsKeyExpanded(c) \/ LockShared(c) \/ UseDeleted(c)
  BY <1>2 DEF CheckExpanded, DecideSleep, IsKeyExpanded, LockShared, UseDeleted
<1>3. CASE PutRange(c) \/ PutShared(c) \/ PutUsing(c)
  BY <1>3 DEF PutRange, PutShared, PutUsing, Store
<1>4. CASE PutReturn(c)
  BY <1>4 DEF PutReturn
<1>5. CASE GetUsing(c) \/ DeleteUsing(c)
  BY <1>5 DEF GetUsing, DeleteUsing
<1>6. CASE UpdateLevel(c) \/ UpdateRange(c)
  BY <1>6 DEF UpdateLevel, UpdateRange, Overwrite
<1>7. QED
  BY <1>1, <1>2, <1>3, <1>4, <1>5, <1>6 DEF Step, Update

LEMMA StepClient ==
  ASSUME IInv, TypeOK', NEW c \in Clients, Call(c) \/ Step(c) \/ SpuriousWakeup(c)
  PROVE  Levels' /\ Expansion' /\ Routed'
<1>0. /\ UNCHANGED <<status, treeVars, valid, prepared, complete, deleted, moved>>
      /\ \A d \in Clients \ {c} : /\ pc'[d] = pc[d]
                                  /\ request'[d] = request[d]
                                  /\ level'[d] = level[d]
      /\ \A e \in Expanders : Expanding(e)' \/ Expanding(e) => expPc'[e] = expPc[e]
  BY ClientKeeps DEF IInv
<1>1. TypeOK /\ Levels /\ Expansion /\ Routed
  BY DEF IInv
<1> USE DEF At, Goto, Return, treeVars, levelVars, sleepVars, clientVars
<1>2. Expansion'
  <2>1. Settled' = Settled
    BY <1>0 DEF Settled
  <2>2. \A e \in Expanders : Stages(e)'
    <3> TAKE e \in Expanders
    <3>1. CASE Expanding(e)'
      <4>1. Stages(e) /\ expPc'[e] = expPc[e]
        BY <1>0, <1>1, <3>1 DEF Expansion
      <4>2. QED
        BY <1>0, <2>1, <4>1 DEF Stages
    <3>2. CASE ~ Expanding(e)'
      BY <3>2 DEF Expanding, Stages
    <3>3. QED
      BY <3>1, <3>2
  <2>3. \A e \in Expanders : Expanding(e)' = Expanding(e)
    BY <1>0 DEF Expanding
  <2>4. OneExpander'
    BY <1>1, <2>3 DEF Expansion, OneExpander
  <2>5. QED
    BY <1>0, <1>1, <2>1, <2>2, <2>3, <2>4 DEF Expansion
(* What c itself now holds, and where that takes it. *)
<1>3. \/ /\ level' = level
         /\ pc'[c] = "shared" => pc[c] = "shared"
         /\ pc'[c] = "range" => pc[c] = "range" /\ request' = request
      \/ level' = [level EXCEPT ![c] = learnIndex] /\ pc'[c] # "range"
      \/ /\ level' = [level EXCEPT ![c] = blevel] /\ pc'[c] # "shared"
         /\ request' = request
         /\ pc'[c] = "range" => Key_(c) \in moved /\ blevel \in prepared
  <2> USE <1>1 DEF TypeOK
  <2>1. CASE Call(c) \/ SpuriousWakeup(c) \/ RouteUsing(c) \/ RouteSleep(c) \/ DecideSleep(c)
    BY <2>1 DEF Call, SpuriousWakeup, RouteUsing, RouteSleep, DecideSleep
  <2>2. CASE Wait(c) \/ CheckExpanded(c) \/ IsKeyExpanded(c) \/ PutRange(c) \/ LockShared(c)
    BY <2>2 DEF Wait, CheckExpanded, IsKeyExpanded, PutRange, LockShared
  <2>3. CASE PutShared(c) \/ UseDeleted(c) \/ PutUsing(c) \/ PutReturn(c)
    BY <2>3 DEF PutShared, UseDeleted, PutUsing, PutReturn
  <2>4. CASE Update(c) \/ GetUsing(c) \/ DeleteUsing(c)
    BY <2>4 DEF Update, UpdateLevel, UpdateRange, GetUsing, DeleteUsing
  <2>5. QED
    BY <2>1, <2>2, <2>3, <2>4 DEF Step
<1>5. Levels'
  <2>0. blevel' = blevel /\ learnIndex' = learnIndex /\ oldBlevel' = oldBlevel
    BY <1>0
  <2>1. \A d \in Clients : level'[d] <= blevel'
    <3> SUFFICES ASSUME NEW d \in Clients PROVE level'[d] <= blevel
      BY <2>0
    <3>1. level[d] <= blevel /\ learnIndex <= blevel /\ blevel <= blevel
      BY <1>1 DEF Levels, TypeOK, Level
    <3>2. level'[d] \in {level[d], learnIndex, blevel}
      BY <1>0, <1>1, <1>3 DEF TypeOK
    <3>3. QED
      BY <3>1, <3>2
  <2>2. \A d \in Clients : pc'[d] = "shared" => level'[d] = learnIndex'
    BY <1>0, <1>1, <1>3 DEF Levels, TypeOK
  <2>3. QED
    BY <1>0, <1>1, <2>0, <2>1, <2>2 DEF Levels
(* Ranges that are prepared belong to an expansion that is under way, and  *)
(* what it has moved is invalid in the old level.                          *)
<1>6. blevel \in prepared /\ Key_(c) \in moved =>
        oldBlevel = blevel \/ Key_(c) \notin valid[oldBlevel]
  <2>1. CASE \A e \in Expanders : ~ Expanding(e)
    BY <1>1, <2>1 DEF Expansion, Settled
  <2>2. ASSUME NEW e \in Expanders, Expanding(e)
        PROVE  blevel \in prepared /\ Key_(c) \in moved =>
                 oldBlevel = blevel \/ Key_(c) \notin valid[oldBlevel]
    <3>1. Stages(e) /\ expPc[e] \in {"mark", "new", "prepare", "prepared", "release",
                                     "notify", "expand", "install", "finish"}
      BY <1>1, <2>2 DEF Expansion, Expanding, TypeOK
    <3>2. QED
      BY <3>1 DEF Stages, Settled
  <2>3. QED
    BY <2>1, <2>2
<1>7. Routed'
  <2> SUFFICES ASSUME NEW d \in Clients, pc'[d] = "range", level'[d] = blevel'
               PROVE  oldBlevel' = blevel' \/ Key_(d)' \notin valid'[oldBlevel']
    BY DEF Routed
  <2>1. CASE d # c
    BY <1>0, <1>1, <2>1 DEF Routed, Key_
  <2>2. CASE d = c /\ level' = level /\ pc[c] = "range" /\ request' = request
    BY <1>0, <1>1, <2>2 DEF Routed, Key_
  <2>3. CASE d = c /\ request' = request /\ Key_(c) \in moved /\ blevel \in prepared
    BY <1>0, <1>6, <2>3 DEF Key_
  <2>4. QED
    BY <1>3, <2>1, <2>2, <2>3
<1>8. QED
  BY <1>2, <1>5, <1>7

-----------------------------------------------------------------------------
(* The invariant and what follows from it. *)

LEMMA InitIInv == Init => IInv
<1> SUFFICES ASSUME Init PROVE IInv
  OBVIOUS
<1>1. TypeOK
  BY TypeInit
<1>2. Levels /\ Expansion /\ Routed
  <2>1. 1 \in Level
    BY <1>1 DEF Init, TypeOK
  <2>2. Settled
    BY <2>1 DEF Init, Settled
  <2>3. Levels
    BY DEF Init, Levels, Level
  <2>4. Expansion /\ Routed
    BY <2>2 DEF Init, Expansion, Routed, OneExpander, Expanding, Stages
  <2>5. QED
    BY <2>3, <2>4
<1>3. QED
  BY <1>1, <1>2 DEF IInv

LEMMA StepIInv == IInv /\ [Next]_vars => IInv'
<1> SUFFICES ASSUME IInv, [Next]_vars PROVE IInv'
  OBVIOUS
<1>1. ASSUME NEW e \in Expanders, ExpandComboTree(e) PROVE IInv'
  BY <1>1, StepTypeExpander, StepExpander DEF IInv
<1>2. ASSUME NEW c \in Clients, Call(c) \/ Step(c) \/ SpuriousWakeup(c) PROVE IInv'
  BY <1>2, StepTypeClient, StepClient DEF IInv
<1>3. ASSUME UNCHANGED vars PROVE IInv'
  BY <1>3 DEF IInv, TypeOK, Levels, Expansion, Routed, OneExpander, Expanding, Stages,
     Settled, Key_, vars, treeVars, levelVars, sleepVars, clientVars
<1>4. QED
  BY <1>1, <1>2, <1>3 DEF Next, Terminated

THEOREM Invariance == Spec => []IInv
BY InitIInv, StepIInv, PTL DEF Spec

(* The tree, its threads and its wrapping size_ keep their types whatever  *)
(* the clients call and however often the tree is expanded.                *)
THEOREM TypeCorrect == Spec => []TypeOK
<1>1. IInv => TypeOK
  BY DEF IInv
<1>2. QED
  BY <1>1, Invariance, PTL

(* However many detached threads the full Puts have started, the           *)
(* compare-exchange on status_ lets one at a time expand                   *)
(* (combotree.cc:181-183).                                                 *)
THEOREM OneExpanderAlways == Spec => []OneExpander
<1>1. IInv => OneExpander
  BY DEF IInv, Expansion
<1>2. QED
  BY <1>1, Invariance, PTL

(* In USING_COMBO_TREE learn_index_ leads to the newest level, complete,   *)
(* wholly valid and not deleted (combotree.cc:217-234).                    *)
THEOREM UsingCompleteAlways == Spec => []UsingComplete
<1>1. IInv => UsingComplete
  <2> SUFFICES ASSUME IInv, status = "USING_COMBO_TREE"
               PROVE  /\ learnIndex = blevel /\ oldBlevel = blevel
                      /\ valid[blevel] = Key
                      /\ blevel \in complete \ deleted
    BY DEF UsingComplete
  <2>1. Settled /\ learnIndex = oldBlevel
    BY DEF IInv, Expansion, Levels
  <2>2. blevel \notin deleted
    BY <2>1 DEF IInv, TypeOK, Levels, Settled, Level
  <2>3. QED
    BY <2>1, <2>2 DEF Settled
<1>2. QED
  BY <1>1, Invariance, PTL

(* A Put that holds alevel_lock_ works on a live level: the one            *)
(* learn_index_ leads to (combotree.cc:221-228, 348-350).                  *)
THEOREM LockedPutLiveAlways == Spec => []LockedPutLive
<1>1. IInv => LockedPutLive
  BY DEF IInv, TypeOK, Levels, LockedPutLive, Level
<1>2. QED
  BY <1>1, Invariance, PTL

-----------------------------------------------------------------------------
(* The contents. *)

(* Writing to a key changes no other, and what c writes to the level that  *)
(* holds its key is what the tree then holds.                              *)
LEMMA WriteKeeps ==
  ASSUME TypeOK, NEW c \in Clients, NEW g \in Level, NEW k \in Key, NEW v, NEW q \in Key,
         content' = [content EXCEPT ![g][q] = v],
         UNCHANGED <<blevel, oldBlevel, valid>>
  PROVE  /\ k # q => Current(k)' = Current(k)
         /\ k = q /\ g = (IF k \in valid[oldBlevel] THEN oldBlevel ELSE blevel)
              => Current(k)' = v
<1>1. \A h \in Level : content[h] \in Content /\ content' \in [Level -> [Key -> Value \cup {None, v}]]
  BY DEF TypeOK, Content
<1>2. \A h \in Level : content'[h][k] = IF h = g /\ k = q THEN v ELSE content[h][k]
  BY DEF TypeOK, Content
<1>3. blevel \in Level /\ oldBlevel \in Level
  BY DEF TypeOK
<1>4. QED
  BY <1>2, <1>3 DEF Current

LEMMA ExpanderKeeps ==
  ASSUME IInv, NEW e \in Expanders, ExpandComboTree(e), NEW k \in Key
  PROVE  Current(k)' = Current(k)
<1> USE DEF Go, treeVars, levelVars, sleepVars, clientVars, Current
<1>0. TypeOK /\ Levels /\ Stages(e)
  BY DEF IInv, Expansion
<1>1. CASE StartExpansion(e) \/ GiveUp(e) \/ MarkExpanding(e) \/ PrepareExpansion(e)
             \/ BeginExpansion(e) \/ ReleaseSleepers(e)
  BY <1>1 DEF StartExpansion, GiveUp, MarkExpanding, PrepareExpansion, BeginExpansion,
     ReleaseSleepers
<1>2. CASE NotifySleepers(e) \/ FinishExpansion(e) \/ EndExpansion(e) \/ PermitDelete(e)
  BY <1>2 DEF NotifySleepers, FinishExpansion, EndExpansion, PermitDelete
<1>3. CASE NewBLevel(e)
  BY <1>0, <1>3 DEF NewBLevel, Stages, Settled
<1>4. CASE MoveKey(e)
  <2>1. PICK q \in Key \ moved :
          /\ content' = [content EXCEPT ![blevel][q] = content[oldBlevel][q]]
          /\ valid' = [valid EXCEPT ![oldBlevel] = @ \ {q}]
    BY <1>4 DEF MoveKey
  <2>2. /\ blevel = oldBlevel + 1 /\ valid[oldBlevel] = Key \ moved
        /\ blevel' = blevel /\ oldBlevel' = oldBlevel
    BY <1>0, <1>4 DEF MoveKey, Stages
  <2>3. blevel \in Level /\ oldBlevel \in Level /\ blevel # oldBlevel
    BY <1>0, <2>2 DEF TypeOK, Level
  <2>4. valid'[oldBlevel] = valid[oldBlevel] \ {q} /\ q \in valid[oldBlevel]
    BY <1>0, <2>1, <2>2, <2>3 DEF TypeOK
  <2>5. /\ content'[oldBlevel] = content[oldBlevel]
        /\ content'[blevel][k] = IF k = q THEN content[oldBlevel][k] ELSE content[blevel][k]
    BY <1>0, <2>1, <2>3 DEF TypeOK, Content
  <2>6. QED
    BY <2>2, <2>4, <2>5
<1>5. CASE Install(e)
  <2>1. valid[oldBlevel] = {} /\ content' = content /\ oldBlevel' = blevel /\ blevel' = blevel
    BY <1>0, <1>5 DEF Install, Stages
  <2>2. QED
    BY <2>1
<1>6. QED
  BY <1>1, <1>2, <1>3, <1>4, <1>5 DEF ExpandComboTree

(* The steps in which a client writes, and those in which it does not.     *)
Writes(c) ==
  /\ pc[c] \in {"using", "range", "shared"}
  /\ pc'[c] # pc[c]
  /\ \E g \in Level, v \in Value \cup {None} :
       content' = [content EXCEPT ![g][Key_(c)] = v]

LEMMA ClientWrites ==
  ASSUME IInv, NEW c \in Clients, Call(c) \/ Step(c) \/ SpuriousWakeup(c)
  PROVE  content' = content \/ (request[c] # None /\ Writes(c))
<1>0. TypeOK /\ level[c] \in Level /\ blevel \in Level
  BY DEF IInv, TypeOK
<1>1. request[c] # None => request[c].value \in Value
  BY <1>0, RequestTyped
<1> USE DEF At, Goto, Return, levelVars, Is, TypeOK
<1>2. CASE Call(c) \/ SpuriousWakeup(c) \/ RouteUsing(c) \/ RouteSleep(c) \/ DecideSleep(c)
             \/ Wait(c) \/ CheckExpanded(c) \/ IsKeyExpanded(c) \/ LockShared(c)
             \/ UseDeleted(c) \/ PutReturn(c) \/ GetUsing(c)
  BY <1>2 DEF Call, SpuriousWakeup, RouteUsing, RouteSleep, DecideSleep, Wait,
     CheckExpanded, IsKeyExpanded, LockShared, UseDeleted, PutReturn, GetUsing
<1>3. CASE PutRange(c)
  BY <1>0, <1>1, <1>3 DEF PutRange, Store, Writes
<1>4. CASE PutShared(c)
  BY <1>0, <1>1, <1>4 DEF PutShared, Store, Writes
<1>5. CASE PutUsing(c)
  BY <1>0, <1>1, <1>5 DEF PutUsing, Store, Writes
<1>6. CASE DeleteUsing(c)
  BY <1>0, <1>6 DEF DeleteUsing, Writes
<1>7. CASE UpdateLevel(c)
  BY <1>0, <1>1, <1>7 DEF UpdateLevel, Overwrite, Writes
<1>8. CASE UpdateRange(c)
  BY <1>0, <1>1, <1>8 DEF UpdateRange, Overwrite, Writes
<1>9. QED
  BY <1>2, <1>3, <1>4, <1>5, <1>6, <1>7, <1>8 DEF Step, Update

LEMMA StepKeeps ==
  ASSUME IInv, [Next]_vars
  PROVE  [OnlyClientsWrite]_vars
<1> SUFFICES ASSUME Next, NEW k \in Key, Current(k)' # Current(k)
             PROVE  \E c \in Clients : /\ pc[c] \in {"using", "range", "shared"}
                                      /\ pc'[c] # pc[c]
                                      /\ request[c].key = k
  BY DEF OnlyClientsWrite
<1>1. ASSUME NEW c \in Clients, Call(c) \/ Step(c) \/ SpuriousWakeup(c)
      PROVE  \E d \in Clients : /\ pc[d] \in {"using", "range", "shared"}
                                /\ pc'[d] # pc[d]
                                /\ request[d].key = k
  <2>1. UNCHANGED <<blevel, oldBlevel, valid>>
    BY <1>1, ClientKeeps DEF IInv, treeVars
  <2>2. content' # content
    BY <2>1 DEF Current
  <2>3. request[c] # None /\ Writes(c)
    BY <1>1, <2>2, ClientWrites
  <2>4. PICK g \in Level, v \in Value \cup {None} : content' = [content EXCEPT ![g][Key_(c)] = v]
    BY <2>3 DEF Writes
  <2>5. Key_(c) = k
    BY <2>1, <2>3, <2>4, WriteKeeps, RequestTyped DEF IInv
  <2>6. QED
    BY <2>3, <2>5 DEF Writes, Key_
<1>2. ASSUME Terminated PROVE FALSE
  BY <1>2 DEF Terminated, vars, treeVars, levelVars, Current
<1>3. QED
  BY <1>1, <1>2, ExpanderKeeps DEF Next

(* Moving every key and exchanging the levels under the feet of the        *)
(* clients changes nothing that the tree holds (combotree.cc:217-228).     *)
THEOREM ExpansionKeepsAlways == Spec => ExpansionKeeps
<1>1. IInv /\ [Next]_vars => [OnlyClientsWrite]_vars
  BY StepKeeps
<1>2. QED
  BY <1>1, Invariance, PTL DEF Spec, ExpansionKeeps

LEMMA StepRouted ==
  ASSUME IInv, [Next]_vars
  PROVE  [RoutedApplied]_vars
<1> SUFFICES ASSUME Next, NEW c \in Clients, pc[c] \in {"range", "shared"}, pc'[c] = "idle",
                    NEW k \in Key, request[c].key = k
             PROVE  Current(k)' = request[c].value
  BY DEF RoutedApplied, Stored
<1>0. TypeOK /\ Levels /\ Routed
  BY DEF IInv
<1>1. PICK d \in Clients : Call(d) \/ Step(d) \/ SpuriousWakeup(d)
  <2>1. ASSUME NEW e \in Expanders, ExpandComboTree(e) PROVE FALSE
    BY <1>0, <2>1 DEF ExpandComboTree, StartExpansion, GiveUp, MarkExpanding, NewBLevel,
       PrepareExpansion, BeginExpansion, ReleaseSleepers, NotifySleepers, MoveKey,
       FinishExpansion, Install, EndExpansion, PermitDelete, NotifyAll, clientVars, TypeOK
  <2>2. ~ Terminated
    BY DEF Terminated, vars, clientVars
  <2>3. QED
    BY <2>1, <2>2 DEF Next
<1>2. d = c
  BY <1>0, <1>1, ClientKeeps
<1>3. UNCHANGED <<blevel, oldBlevel, valid>>
  BY <1>0, <1>1, ClientKeeps DEF treeVars
<1> DEFINE v == request[c].value
<1>4. \/ pc[c] = "range" /\ level[c] = blevel /\ request[c] # None
           /\ content' = [content EXCEPT ![blevel][Key_(c)] = v]
      \/ pc[c] = "shared" /\ request[c] # None /\ Key_(c) \in valid[level[c]]
           /\ content' = [content EXCEPT ![level[c]][Key_(c)] = v]
  <2> USE <1>0 DEF At, Goto, Return, Is, TypeOK
  <2>1. CASE Call(c) \/ SpuriousWakeup(c) \/ RouteUsing(c) \/ RouteSleep(c) \/ DecideSleep(c)
             \/ Wait(c) \/ CheckExpanded(c) \/ IsKeyExpanded(c) \/ LockShared(c)
             \/ UseDeleted(c) \/ PutReturn(c) \/ GetUsing(c) \/ PutUsing(c) \/ DeleteUsing(c)
    BY <2>1 DEF Call, SpuriousWakeup, RouteUsing, RouteSleep, DecideSleep, Wait,
       CheckExpanded, IsKeyExpanded, LockShared, UseDeleted, PutReturn, GetUsing, PutUsing,
       DeleteUsing
  <2>2. CASE PutRange(c) \/ PutShared(c)
    BY <2>2 DEF PutRange, PutShared, Store
  <2>3. CASE UpdateLevel(c) \/ UpdateRange(c)
    BY <2>3 DEF UpdateLevel, UpdateRange, Overwrite, Found
  <2>4. QED
    BY <1>1, <1>2, <2>1, <2>2, <2>3 DEF Step, Update
<1>5. Key_(c) = k /\ level[c] \in Level /\ blevel \in Level
  BY <1>0 DEF Key_, TypeOK
<1>6. CASE pc[c] = "range"
  BY <1>0, <1>3, <1>4, <1>5, <1>6, WriteKeeps DEF Routed
<1>7. CASE pc[c] = "shared"
  <2>1. level[c] = oldBlevel
    BY <1>0, <1>7 DEF Levels
  <2>2. k \in valid[oldBlevel] /\ content' = [content EXCEPT ![oldBlevel][k] = v]
    BY <1>4, <1>5, <1>7, <2>1
  <2>3. QED
    BY <1>0, <1>3, <1>5, <2>1, <2>2, WriteKeeps
<1>8. QED
  BY <1>6, <1>7

(* A Put or Update that was routed during an expansion and returns has     *)
(* written where the tree will look, whatever expansions have ended and    *)
(* begun in between (combotree.cc:342-354).                                *)
THEOREM RoutedPutAppliedAlways == Spec => RoutedPutApplied
<1>1. IInv /\ [Next]_vars => [RoutedApplied]_vars
  BY StepRouted
<1>2. QED
  BY <1>1, Invariance, PTL DEF Spec, RoutedPutApplied

=============================================================================
