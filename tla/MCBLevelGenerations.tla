-------------------------- MODULE MCBLevelGenerations --------------------------
EXTENDS BLevelGenerations

(* Three entries, so that twelve keys make an expansion due. *)
MCLoads == {{1, 2, 6, 7, 9}}
================================================================================
