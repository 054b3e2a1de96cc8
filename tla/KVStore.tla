------------------------------- MODULE KVStore -------------------------------
(***************************************************************************)
(* What ComboTree promises its callers while it reorganises itself: a map  *)
(* from keys to values.  A writer hands over a Put and the Put takes       *)
(* effect at one instant between its call and its return, which the        *)
(* caller sees as the return itself (src/include/combotree/combotree.h:    *)
(* Put).  No other step changes the map: reorganisation is invisible.      *)
(***************************************************************************)

CONSTANTS
  Key,      (* The keys.                                                   *)
  Value,    (* The values a Put can carry.                                 *)
  None,     (* Stands for "the key has no value".                          *)
  Writers   (* The threads that call Put.                                  *)

VARIABLES
  store,    (* The map the callers believe in.                             *)
  request   (* Per writer: the Put in progress, or None.                   *)

vars == <<store, request>>

Requests == [key : Key, value : Value]

TypeOK ==
  /\ store \in [Key -> Value \cup {None}]
  /\ request \in [Writers -> Requests \cup {None}]

Init ==
  /\ store \in [Key -> Value \cup {None}]
  /\ request = [w \in Writers |-> None]

Call(w) ==
  /\ request[w] = None
  /\ \E q \in Requests : request' = [request EXCEPT ![w] = q]
  /\ UNCHANGED store

Return(w) ==
  /\ request[w] # None
  /\ store' = [store EXCEPT ![request[w].key] = request[w].value]
  /\ request' = [request EXCEPT ![w] = None]

Next == \E w \in Writers : Call(w) \/ Return(w)

Spec == Init /\ [][Next]_vars

=============================================================================
