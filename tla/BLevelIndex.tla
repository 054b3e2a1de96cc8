------------------------------ MODULE BLevelIndex ------------------------------
(***************************************************************************)
(* The indexes over a B-level at rest: which logical entries they tell the *)
(* B-level to search for a key.  Learn_Index (learn_index.cc) is the one   *)
(* ComboTree uses; ALevel (alevel.cc) interpolates between the least and   *)
(* the greatest entry key; RMI_Index (rmi_index.cc) widens the bracket     *)
(* from a predicted entry in doubling steps.                               *)
(*                                                                         *)
(* An index is built once for a level and never changed: the definitions   *)
(* take the level.  ALevel's double arithmetic is taken as exact.          *)
(***************************************************************************)
EXTENDS BLevelSearch

CONSTANT Span    (* DEFAULT_SPAN: entries of the level per ALevel entry.   *)

(* An index reads entry 1, and CDFIndex_ divides the entries among at      *)
(* least two entries of the ALevel (2 and 4 in the code).                  *)
ASSUME IndexAssumption == Span \in Nat \ {0} /\ Threads \in Nat \ {0, 1} /\ Span <= Threads

(* The last entry, and the members min_key_ and max_key_: entry 0, whose   *)
(* key is 0, is left out.                                                  *)
LastEntry(lv) == Entries(lv) - 1
MinKey(lv)    == EntryKey(lv, 1)
TopKey(lv)    == EntryKey(lv, LastEntry(lv))

(* What every index answers for a key outside min_key_ .. max_key_ - 1. *)
Outside(lv, key) == key < MinKey(lv) \/ key >= TopKey(lv)

OutsideEntry(lv, key) == IF key < MinKey(lv) THEN 0 ELSE LastEntry(lv)

(***************************************************************************)
(* ALevel.  Its entry i names the first entry of the level whose cdf       *)
(* index is i; an index that no entry has takes the next entry that has a  *)
(* greater one.  The last entry is then set to the level's last.           *)
(***************************************************************************)
ALevelSize(lv) == ((LastEntry(lv) + 1) \div Span) + 1

CDFIndex(lv, key) ==
  LET width == TopKey(lv) - MinKey(lv)
  IN IF key < MinKey(lv) THEN 0
     ELSE IF key > TopKey(lv) THEN ALevelSize(lv) - 1
     ELSE ((key - MinKey(lv)) * LastEntry(lv) + width) \div (width * Span)

(* Mutant: the gaps are not filled from the right. *)
ALevelOffsetUnfilled(lv, i) ==
  LET here == {o \in 2 .. LastEntry(lv) : CDFIndex(lv, EntryKey(lv, o)) = i}
  IN IF i = 0 THEN 1
     ELSE IF i = ALevelSize(lv) - 1 THEN LastEntry(lv)
     ELSE IF here = {} THEN 0 ELSE Min(here)

ALevelOffset(lv, i) ==
  IF i = ALevelSize(lv) - 1 THEN LastEntry(lv)
  ELSE IF i = 0 THEN 1
  ELSE Min({o \in 2 .. LastEntry(lv) : CDFIndex(lv, EntryKey(lv, o)) >= i})

ALevelKey(lv, i) == EntryKey(lv, ALevelOffset(lv, i))

(* ALevel::GetBLevelRange_ *)
ALevelBracket(lv, key) ==
  LET i == CDFIndex(lv, key)
  IN IF Outside(lv, key) THEN <<OutsideEntry(lv, key), OutsideEntry(lv, key)>>
     ELSE IF key >= ALevelKey(lv, i)
     THEN <<ALevelOffset(lv, i),
            ALevelOffset(lv, IF i = ALevelSize(lv) - 1 THEN i ELSE i + 1)>>
     ELSE LET begin == ALevelOffset(lv, i - 1)
              end   == ALevelOffset(lv, i)
          IN <<IF begin = end THEN begin - 1 ELSE begin, end>>

(***************************************************************************)
(* RMI_Index::GetBLevelRange_ from the entry that the model predicts: its  *)
(* loops look ever further, until the key is between two looks.            *)
(***************************************************************************)
(* How far from the prediction the n-th turn looks: the sum of n steps,    *)
(* each twice the one before.                                              *)
Reach(lv, n) ==
  LET reach[m \in 0 .. Entries(lv)] == IF m = 0 THEN 0 ELSE 2 * reach[m - 1] + 1
  IN reach[n]

WidenDown(lv, key, predicted) ==
  LET begin(n) == predicted - Reach(lv, n)
      last == Min({n \in 1 .. Entries(lv) : begin(n) < 0 \/ EntryKey(lv, begin(n)) < key})
  IN <<Max({0, begin(last)}), begin(last - 1)>>

WidenUp(lv, key, predicted) ==
  LET end(n) == predicted + Reach(lv, n)
      last == Min({n \in 1 .. Entries(lv) :
                     end(n) > LastEntry(lv) \/ EntryKey(lv, end(n)) >= key})
  IN <<end(last - 1), Min({end(last), LastEntry(lv)})>>

RMIBracket(lv, key, predicted) ==
  IF Outside(lv, key) THEN <<OutsideEntry(lv, key), OutsideEntry(lv, key)>>
  ELSE IF key < EntryKey(lv, predicted) THEN WidenDown(lv, key, predicted)
  ELSE WidenUp(lv, key, predicted)

(***************************************************************************)
(* Learn_Index::GetNearPos_ answers any entry, and its GetBLevelRange_ a   *)
(* bracket around the key's entry: its models promise that their error is  *)
(* at most epsilon to either side.                                         *)
(***************************************************************************)
NearPositions(lv, key) ==
  IF Outside(lv, key) THEN {OutsideEntry(lv, key)} ELSE 0 .. Entries(lv)

LearnBrackets(lv, key) ==
  IF Outside(lv, key) THEN {<<OutsideEntry(lv, key), OutsideEntry(lv, key)>>}
  ELSE LET home == LogicalHome(lv, key)
       IN (0 .. home) \X (home .. Entries(lv))
================================================================================
