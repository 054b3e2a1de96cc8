------------------------------ MODULE MCComboTree ------------------------------
(***************************************************************************)
(* Small trees for TLC.                                                    *)
(***************************************************************************)
EXTENDS ComboTree

CONSTANTS v1, v2

(* A Put writes v1, an Update v2: each overwrites what the other wrote.    *)
Writes == [op : {"Put", "Delete"}, key : Key, value : {v1}]
            \cup [op : {"Update"}, key : Key, value : {v2}]
EveryRequest == Writes \cup [op : {"Get"}, key : Key, value : {v1}]
PutsAndGets == [op : {"Put"}, key : Key, value : Value]
                 \cup [op : {"Get"}, key : Key, value : {v1}]

(* A first level that is full with one key, and roomier ones after it. *)
SmallLimit == [g \in Level |-> g]

=============================================================================
