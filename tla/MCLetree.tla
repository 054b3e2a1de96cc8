----------------------------- MODULE MCLetree -----------------------------
(* A small instance of Letree: one or two groups to begin with. *)
EXTENDS LetreeBuckets

TwoOrFour == {{2, 5}, {1, 2, 4, 6}}
=============================================================================
